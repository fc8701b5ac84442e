---------------------- MODULE RefreshTokenStoreProofs ----------------------
(***************************************************************************)
(* Theorems about RefreshTokenStore for every set of callers, families,    *)
(* tokens and clock readings: its type, the agreement of memory and file,  *)
(* that it implements FamilyStore, and from its History what clients rely  *)
(* on: single use, final refusals, families that outlive their tokens, and *)
(* entries that only age.                                                  *)
(***************************************************************************)
EXTENDS RefreshTokenStore, FamilyTableProofs

----------------------------------------------------------------------------
(* The inductive invariant.                                                *)

Holding == {"locked", "writing", "written", "renamed"}

\* The mutex excludes, and a stopped process has no callers.
Mutex ==
  /\ \A c \in Callers : holder = c <=> pc[c] \in Holding
  /\ ~up => \A c \in Callers : pc[c] = "idle"

\* Whoever is in a call has asked something, and "ok" is no answer to is_active.
Asked ==
  \A c \in Callers :
    /\ pc[c] # "idle" => request[c] \in Request
    /\ pc[c] = "answered" /\ answer[c] = "ok" => request[c].op # "is_active"

\* The clone of the holder is the outcome of its request on the table in
\* memory, which is what the state file holds until the rename.
Clone ==
  \A c \in Callers :
    /\ pc[c] \in Holding =>
         MustSave(mem, request[c]) /\ draft = Outcome(mem, request[c]).table
    /\ pc[c] \in {"locked", "writing", "written"} => mem = file.table
    /\ pc[c] = "written" => tmp = Whole(draft)
    /\ pc[c] = "renamed" => file = Whole(draft)

IInv == TypeOK /\ Mutex /\ Asked /\ MemoryMatchesFile /\ Clone

----------------------------------------------------------------------------

\* The empty table, that of a first start, is a table.
LEMMA EmptyTableType == EmptyTable \in Table
  BY DEF EmptyTable, Table, Entry

\* What a file holds before and after it is written whole.
LEMMA ContentsType ==
  /\ Torn \in Contents
  /\ \A t \in Table : Whole(t) \in Contents /\ Whole(t).table = t /\ Whole(t).whole
  BY EmptyTableType DEF Contents, Torn, Whole

\* The store starts in the invariant.
LEMMA InitIInv == Init => IInv
<1> SUFFICES ASSUME Init PROVE IInv
  OBVIOUS
<1>1. TypeOK
  BY EmptyTableType, ContentsType, TimeAssumption DEF Init, TypeOK, Stages
<1>2. Mutex /\ Asked /\ Clone
  BY NoCallerAssumption DEF Init, Mutex, Asked, Clone, Holding
<1>3. MemoryMatchesFile
  BY EmptyTableType, ContentsType DEF Init, MemoryMatchesFile
<1> QED
  BY <1>1, <1>2, <1>3 DEF IInv

\* A new call touches neither the table, the mutex nor the files.
LEMMA SendIInv ==
  ASSUME IInv, NEW c \in Callers, NEW r \in Request, Send(c, r)
  PROVE  Mutex' /\ Asked' /\ MemoryMatchesFile' /\ Clone'
<1> USE DEF IInv
<1>1. Mutex'
  BY DEF Send, Mutex, Holding, TypeOK
<1>2. Asked'
  BY DEF Send, Asked, TypeOK
<1>3. MemoryMatchesFile'
  BY DEF Send, MemoryMatchesFile
<1>4. Clone'
  BY DEF Send, Clone, Holding, TypeOK
<1> QED
  BY <1>1, <1>2, <1>3, <1>4

\* The three calls: the fresh ids and the clock make a request of the type.
LEMMA CallIInv ==
  ASSUME IInv, NEW c \in Callers, CallCreate(c) \/ CallRotate(c) \/ CallIsActive(c)
  PROVE  IInv'
<1> USE DEF IInv
<1>1. PICK r \in Request : Send(c, r)
  BY DEF CallCreate, CallRotate, CallIsActive, Request, TypeOK, Claims
<1>2. drawn' \subseteq Families \cup Tokens
  <2>1. CASE CallCreate(c)
    <3>1. PICK f \in Families, t \in Tokens : drawn' = drawn \cup {f, t}
      BY <2>1 DEF CallCreate
    <3> QED
      BY <3>1 DEF TypeOK
  <2>2. CASE CallRotate(c)
    <3>1. PICK t \in Tokens : drawn' = drawn \cup {t}
      BY <2>2 DEF CallRotate
    <3> QED
      BY <3>1 DEF TypeOK
  <2>3. CASE CallIsActive(c)
    BY <2>3 DEF CallIsActive, TypeOK
  <2> QED
    BY <2>1, <2>2, <2>3
<1>3. TypeOK'
  BY <1>1, <1>2 DEF Send, TypeOK, Stages
<1> QED
  BY <1>1, <1>3, SendIInv

\* Returning forgets the request; what was handed out has the claims' type.
LEMMA ReturnIInv ==
  ASSUME IInv, NEW c \in Callers, Return(c)
  PROVE  IInv'
<1> USE DEF IInv
<1> DEFINE r == request[c]
<1>1. r \in Request /\ pc[c] = "answered"
  BY DEF Return, Asked
<1>2. ASSUME answer[c] = "ok"
      PROVE  [token |-> r.next, family |-> r.family, expires |-> r.now + TTL,
              parent |-> r.presented] \in Claims
  <2>1. r.op # "is_active"
    BY <1>1, <1>2 DEF Asked
  <2>2. r.next \in Tokens /\ r.family \in Families /\ r.now + TTL \in Nat
    BY <1>1, <2>1, RequestType
  <2>3. r.presented \in Tokens \cup {NoToken}
    BY <1>1 DEF Request
  <2> HIDE DEF r
  <2> QED
    BY <2>2, <2>3 DEF Claims
<1>3. handed' \subseteq Claims
  BY <1>2 DEF Return, TypeOK
<1>4. refused' \subseteq Families
  BY <1>1, RequestType DEF Return, TypeOK
<1>5. TypeOK'
  BY <1>3, <1>4 DEF Return, TypeOK, Stages
<1>6. Mutex' /\ MemoryMatchesFile'
  BY DEF Return, Mutex, MemoryMatchesFile, Holding, TypeOK
<1>7. Asked'
  BY DEF Return, Asked, TypeOK
<1>8. Clone'
  BY DEF Return, Clone, Holding, TypeOK
<1> QED
  BY <1>5, <1>6, <1>7, <1>8

\* Looking something up changes the caller alone.
LEMMA LookUpIInv ==
  ASSUME IInv, NEW c \in Callers, LookUp(c)
  PROVE  IInv'
<1> USE DEF IInv
<1>1. request[c] \in Request /\ mem \in Table
  BY DEF LookUp, Asked, TypeOK
<1>2. Outcome(mem, request[c]).answer \in Answer \ {"ok"}
  BY <1>1, OutcomeType DEF LookUp, MustSave
<1>3. TypeOK'
  BY <1>2 DEF LookUp, TypeOK, Stages
<1>4. Mutex' /\ MemoryMatchesFile'
  BY DEF LookUp, Mutex, MemoryMatchesFile, Holding, TypeOK
<1>5. Asked'
  BY <1>2 DEF LookUp, Asked, TypeOK
<1>6. Clone'
  BY DEF LookUp, Clone, Holding, TypeOK
<1> QED
  BY <1>3, <1>4, <1>5, <1>6

\* Taking the mutex is possible only when nobody is inside.
LEMMA LockIInv ==
  ASSUME IInv, NEW c \in Callers, Lock(c)
  PROVE  IInv'
<1> USE DEF IInv
<1>1. request[c] \in Request /\ mem \in Table
  BY DEF Lock, Asked, TypeOK
<1>2. draft' \in Table
  BY <1>1, OutcomeType DEF Lock
<1>3. TypeOK'
  BY <1>2 DEF Lock, TypeOK, Stages
<1>4. \A d \in Callers : pc[d] \notin Holding
  BY NoCallerAssumption DEF Lock, Mutex
<1>5. up
  BY DEF Lock, Mutex
<1>6. Mutex' /\ MemoryMatchesFile'
  BY <1>4, <1>5, NoCallerAssumption DEF Lock, Mutex, MemoryMatchesFile, Holding, TypeOK
<1>7. Asked'
  BY DEF Lock, Asked, TypeOK
<1>8. Clone'
  BY <1>4, <1>5 DEF Lock, Clone, MemoryMatchesFile, Holding, TypeOK
<1> QED
  BY <1>3, <1>6, <1>7, <1>8

\* Everybody else is outside while one caller is inside.
LEMMA Alone ==
  ASSUME IInv, NEW c \in Callers, pc[c] \in Holding
  PROVE  /\ holder = c /\ up
         /\ \A d \in Callers \ {c} : pc[d] \notin Holding
  BY DEF IInv, Mutex, Holding

\* The two steps on the temporary file leave the state file alone.
LEMMA TmpIInv ==
  ASSUME IInv, NEW c \in Callers, OpenTmp(c) \/ WriteTmp(c)
  PROVE  IInv'
<1> USE DEF IInv
<1>1. holder = c /\ up /\ \A d \in Callers \ {c} : pc[d] \notin Holding
  BY Alone DEF OpenTmp, WriteTmp, Holding
<1>2. tmp' \in Contents
  BY ContentsType DEF OpenTmp, WriteTmp, TypeOK
<1>3. TypeOK'
  BY <1>2 DEF OpenTmp, WriteTmp, TypeOK, Stages
<1>4. pc' \in [Callers -> Stages] /\ pc'[c] \in Holding
      /\ \A d \in Callers \ {c} : pc'[d] = pc[d]
  BY DEF OpenTmp, WriteTmp, Holding, Stages, TypeOK
<1>5. Mutex'
  BY <1>1, <1>4 DEF OpenTmp, WriteTmp, Mutex
<1>6. MemoryMatchesFile'
  BY DEF OpenTmp, WriteTmp, MemoryMatchesFile
<1>7. Asked'
  BY DEF OpenTmp, WriteTmp, Asked, TypeOK
<1>8. Clone'
  BY <1>1 DEF OpenTmp, WriteTmp, Clone, Holding, TypeOK
<1> QED
  BY <1>3, <1>5, <1>6, <1>7, <1>8

\* The rename replaces a whole file by a whole file: the clone.
LEMMA RenameIInv ==
  ASSUME IInv, NEW c \in Callers, RenameTmp(c)
  PROVE  IInv'
<1> USE DEF IInv
<1>1. holder = c /\ up /\ \A d \in Callers \ {c} : pc[d] \notin Holding
  BY Alone DEF RenameTmp, Holding
<1>2. file' = Whole(draft) /\ draft \in Table
  BY DEF RenameTmp, Clone, TypeOK
<1>3. file'.whole
  BY <1>2, ContentsType
<1>4. TypeOK'
  BY DEF RenameTmp, TypeOK, Stages
<1>5. Mutex' /\ MemoryMatchesFile'
  BY <1>1, <1>3, NoCallerAssumption DEF RenameTmp, Mutex, MemoryMatchesFile, Holding, TypeOK
<1>6. Asked'
  BY DEF RenameTmp, Asked, TypeOK
<1>7. Clone'
  BY <1>1, <1>2 DEF RenameTmp, Clone, Holding, TypeOK
<1> QED
  BY <1>4, <1>5, <1>6, <1>7

\* Publishing makes the table in memory the one just renamed into place.
LEMMA PublishIInv ==
  ASSUME IInv, NEW c \in Callers, Publish(c)
  PROVE  IInv'
<1> USE DEF IInv
<1>1. holder = c /\ up /\ \A d \in Callers \ {c} : pc[d] \notin Holding
  BY Alone DEF Publish, Holding
<1>2. request[c] \in Request /\ mem \in Table /\ draft \in Table
  BY DEF Publish, Asked, TypeOK
<1>3. file = Whole(draft) /\ file.table = draft
  BY <1>2, ContentsType DEF Publish, Clone
<1>4. Outcome(mem, request[c]).answer \in Answer
  BY <1>2, OutcomeType
<1>5. Outcome(mem, request[c]).answer = "ok" => request[c].op # "is_active"
  BY DEF Outcome, IsActiveOutcome
<1>6. TypeOK'
  BY <1>4, EmptyTableType DEF Publish, TypeOK, Stages
<1>7. Mutex' /\ MemoryMatchesFile'
  BY <1>1, <1>3, NoCallerAssumption DEF Publish, Mutex, MemoryMatchesFile, Holding, TypeOK
<1>8. Asked'
  BY <1>5 DEF Publish, Asked, TypeOK
<1>9. Clone'
  BY <1>1 DEF Publish, Clone, Holding, TypeOK
<1> QED
  BY <1>6, <1>7, <1>8, <1>9

\* A failed write gives the mutex back and leaves memory and file as they were.
LEMMA FailIInv ==
  ASSUME IInv, NEW c \in Callers, PersistFails(c)
  PROVE  IInv'
<1> USE DEF IInv
<1>1. holder = c /\ up /\ \A d \in Callers \ {c} : pc[d] \notin Holding
  BY Alone DEF PersistFails, Holding
<1>2. mem = file.table
  BY DEF PersistFails, Clone
<1>3. TypeOK'
  BY EmptyTableType DEF PersistFails, TypeOK, Stages, Answer
<1>4. Mutex' /\ MemoryMatchesFile'
  BY <1>1, <1>2, NoCallerAssumption DEF PersistFails, Mutex, MemoryMatchesFile, Holding, TypeOK
<1>5. Asked'
  BY DEF PersistFails, Asked, TypeOK
<1>6. Clone'
  BY <1>1 DEF PersistFails, Clone, Holding, TypeOK
<1> QED
  BY <1>3, <1>4, <1>5, <1>6

\* A crash forgets the callers and the memory; open reads the file back.
LEMMA ProcessIInv ==
  ASSUME IInv, Crash \/ Open \/ Tick
  PROVE  IInv'
<1> USE DEF IInv
<1>1. CASE Crash
  <2>1. TypeOK'
    BY <1>1, EmptyTableType DEF Crash, TypeOK, Stages
  <2>2. Mutex' /\ Asked' /\ Clone' /\ MemoryMatchesFile'
    BY <1>1, NoCallerAssumption DEF Crash, Mutex, Asked, Clone, MemoryMatchesFile, Holding
  <2> QED
    BY <2>1, <2>2
<1>2. CASE Open
  <2>1. file.table \in Table
    BY DEF TypeOK, Contents
  <2>2. TypeOK'
    BY <1>2, <2>1 DEF Open, TypeOK
  <2>3. Mutex' /\ Asked' /\ MemoryMatchesFile'
    BY <1>2 DEF Open, Mutex, Asked, MemoryMatchesFile
  <2>4. Clone'
    BY <1>2 DEF Open, Clone, Mutex, Holding
  <2> QED
    BY <2>2, <2>3, <2>4
<1>3. CASE Tick
  <2>1. TypeOK'
    BY <1>3 DEF Tick, TypeOK
  <2>2. Mutex' /\ Asked' /\ Clone' /\ MemoryMatchesFile'
    BY <1>3 DEF Tick, Mutex, Asked, Clone, MemoryMatchesFile
  <2> QED
    BY <2>1, <2>2
<1> QED
  BY <1>1, <1>2, <1>3

\* The invariant is inductive.
LEMMA NextIInv == IInv /\ [Next]_vars => IInv'
<1> SUFFICES ASSUME IInv, [Next]_vars PROVE IInv'
  OBVIOUS
<1>1. CASE UNCHANGED vars
  BY <1>1 DEF vars, IInv, TypeOK, Mutex, Asked, MemoryMatchesFile, Clone
<1>2. CASE Next
  <2>1. ASSUME NEW c \in Callers, CallCreate(c) \/ CallRotate(c) \/ CallIsActive(c)
        PROVE  IInv'
    BY <2>1, CallIInv
  <2>2. ASSUME NEW c \in Callers, OpenTmp(c) \/ WriteTmp(c)
        PROVE  IInv'
    BY <2>2, TmpIInv
  <2> QED
    BY <1>2, <2>1, <2>2, ReturnIInv, LookUpIInv, LockIInv, RenameIInv, PublishIInv,
       FailIInv, ProcessIInv DEF Next
<1> QED
  BY <1>1, <1>2

\* The invariant holds in every behaviour of the store.
THEOREM Invariance == Spec => []IInv
  BY InitIInv, NextIInv, PTL DEF Spec

\* Type correctness.
THEOREM TypeCorrectness == Spec => []TypeOK
  BY Invariance, PTL DEF IInv

\* The state file is readable at every instant, and it is what memory holds
\* whenever the mutex is free.
THEOREM MemoryAndFileAgree == Spec => []MemoryMatchesFile
  BY Invariance, PTL DEF IInv

----------------------------------------------------------------------------
(* The store implements FamilyStore.                                       *)

\* The two modules take their decisions from the same operators.
LEMMA SameDecisions ==
  /\ \A t, r : FS!Outcome(t, r) = Outcome(t, r)
  /\ \A t, r : FS!MustSave(t, r) <=> MustSave(t, r)
  /\ FS!Request = Request /\ FS!NoRequest = NoRequest /\ FS!EmptyTable = EmptyTable
  BY DEF FS!Outcome, FS!CreateOutcome, FS!RotateOutcome, FS!IsActiveOutcome,
         FS!Pruned, FS!Issued, FS!Revoked, FS!Absent, FS!MustSave, FS!Request,
         FS!NoRequest, FS!EmptyTable,
         Outcome, CreateOutcome, RotateOutcome, IsActiveOutcome, Pruned, Issued,
         Revoked, Absent, MustSave, Request, NoRequest, EmptyTable

\* The initial state of the store is the initial state of the promise.
LEMMA InitRefines == Init => FS!StoreInit
<1> SUFFICES ASSUME Init PROVE FS!StoreInit
  OBVIOUS
<1>1. file.table = EmptyTable
  BY EmptyTableType, ContentsType DEF Init
<1>2. Stage = [c \in Callers |-> "idle"] /\ Told = [c \in Callers |-> "none"]
  BY DEF Init, Stage, Told
<1> QED
  BY <1>1, <1>2, SameDecisions DEF FS!StoreInit, Init

\* A call of the code is a call of the promise.
LEMMA SendRefines ==
  ASSUME IInv, NEW c \in Callers, NEW r \in Request, Send(c, r)
  PROVE  FS!Call(c, r)
<1>1. Stage[c] = "idle" /\ Stage' = [Stage EXCEPT ![c] = "called"]
  BY DEF IInv, TypeOK, Send, Stage
<1>2. Told' = Told
  BY DEF IInv, TypeOK, Send, Told
<1> QED
  BY <1>1, <1>2 DEF FS!Call, Send

\* A look-up takes effect at once: the table in memory is the file's.
LEMMA LookUpRefines ==
  ASSUME IInv, NEW c \in Callers, LookUp(c)
  PROVE  FS!Apply(c)
<1> DEFINE o == Outcome(file.table, request[c])
<1>1. mem = file.table
  BY DEF IInv, Mutex, MemoryMatchesFile, LookUp
<1>2. o.table = file.table /\ o.table = file'.table
  BY <1>1 DEF LookUp, MustSave
<1>3. Stage[c] = "called" /\ Stage' = [Stage EXCEPT ![c] = "done"]
  BY DEF IInv, TypeOK, LookUp, Stage
<1>4. Told' = [Told EXCEPT ![c] = o.answer]
  BY <1>1 DEF IInv, TypeOK, LookUp, Told
<1> QED
  BY <1>2, <1>3, <1>4, SameDecisions DEF FS!Apply, LookUp

\* A request that writes takes effect at the rename.
LEMMA RenameRefines ==
  ASSUME IInv, NEW c \in Callers, RenameTmp(c)
  PROVE  FS!Apply(c)
<1> DEFINE o == Outcome(file.table, request[c])
<1>1. mem = file.table /\ draft = o.table /\ draft \in Table
  BY DEF IInv, TypeOK, Clone, RenameTmp, Holding
<1>2. file'.table = o.table
  BY <1>1, ContentsType DEF IInv, Clone, RenameTmp
<1>3. Stage[c] = "called" /\ Stage' = [Stage EXCEPT ![c] = "done"]
  BY DEF IInv, TypeOK, RenameTmp, Stage
<1>4. Told' = [Told EXCEPT ![c] = o.answer]
  BY <1>1 DEF IInv, TypeOK, RenameTmp, Told
<1> QED
  BY <1>2, <1>3, <1>4, SameDecisions DEF FS!Apply, RenameTmp

\* A failed write is a failed request.
LEMMA FailRefines ==
  ASSUME IInv, NEW c \in Callers, PersistFails(c)
  PROVE  FS!Fail(c)
<1>1. mem = file.table /\ MustSave(mem, request[c])
  BY DEF IInv, Clone, PersistFails, Holding
<1>2. Stage[c] = "called" /\ Stage' = [Stage EXCEPT ![c] = "done"]
  BY DEF IInv, TypeOK, PersistFails, Stage
<1>3. Told' = [Told EXCEPT ![c] = "internal"]
  BY DEF IInv, TypeOK, PersistFails, Told
<1> QED
  BY <1>1, <1>2, <1>3, SameDecisions DEF FS!Fail, PersistFails

\* Returns are returns.
LEMMA ReturnRefines ==
  ASSUME IInv, NEW c \in Callers, Return(c)
  PROVE  FS!Return(c)
<1>1. Stage[c] = "done" /\ Stage' = [Stage EXCEPT ![c] = "idle"]
  BY DEF IInv, TypeOK, Return, Stage
<1>2. Told' = [Told EXCEPT ![c] = "none"]
  BY DEF IInv, TypeOK, Return, Told
<1> QED
  BY <1>1, <1>2, SameDecisions DEF FS!Return, Return

\* Between the lock and the rename, and at the publication, nothing happens.
LEMMA InsideRefines ==
  ASSUME IInv, NEW c \in Callers, Lock(c) \/ OpenTmp(c) \/ WriteTmp(c) \/ Publish(c)
  PROVE  UNCHANGED FS!storeVars
<1>1. file' = file /\ request' = request
  BY DEF Lock, OpenTmp, WriteTmp, Publish
<1>2. Stage' = Stage
  BY DEF IInv, TypeOK, Lock, OpenTmp, WriteTmp, Publish, Stage
<1>3. Told' = Told
  <2>1. CASE Publish(c)
    <3>1. \A d \in Callers \ {c} : pc[d] # "renamed"
      BY <2>1, Alone DEF Publish, Holding
    <3> QED
      BY <2>1, <3>1 DEF IInv, TypeOK, Publish, Told
  <2>2. CASE Lock(c) \/ OpenTmp(c) \/ WriteTmp(c)
    BY <2>2 DEF IInv, TypeOK, Lock, OpenTmp, WriteTmp, Told
  <2> QED
    BY <2>1, <2>2
<1> QED
  BY <1>1, <1>2, <1>3 DEF FS!storeVars

\* A crash is the loss of the callers; opening and time change nothing.
LEMMA ProcessRefines ==
  ASSUME IInv, Crash \/ Open \/ Tick
  PROVE  FS!CallersLost \/ UNCHANGED FS!storeVars
<1>1. CASE Crash
  <2>1. /\ Stage' = [c \in Callers |-> "idle"]
        /\ Told' = [c \in Callers |-> "none"]
    BY <1>1 DEF Crash, Stage, Told
  <2> QED
    BY <1>1, <2>1, SameDecisions DEF FS!CallersLost, Crash
<1>2. CASE Tick
  BY <1>2 DEF Tick, FS!storeVars, Stage, Told
<1>3. CASE Open
  <2>1. Told' = Told
    BY <1>3 DEF IInv, Mutex, Open, Told
  <2> QED
    BY <1>3, <2>1 DEF Open, FS!storeVars, Stage
<1> QED
  BY <1>1, <1>2, <1>3

\* Every step of the code is a step of the promise or none.
LEMMA StepRefines == IInv /\ [Next]_vars => [FS!StoreNext]_(FS!storeVars)
<1> SUFFICES ASSUME IInv, [Next]_vars PROVE FS!StoreNext \/ UNCHANGED FS!storeVars
  BY DEF FS!storeVars
<1>1. CASE UNCHANGED vars
  BY <1>1 DEF vars, FS!storeVars, Stage, Told
<1>2. CASE Next
  <2>1. ASSUME NEW c \in Callers, CallCreate(c) \/ CallRotate(c) \/ CallIsActive(c)
        PROVE  FS!StoreNext
    <3>1. PICK r \in Request : Send(c, r)
      BY <2>1 DEF IInv, CallCreate, CallRotate, CallIsActive, Request, TypeOK, Claims
    <3> QED
      BY <3>1, SendRefines, SameDecisions DEF FS!StoreNext
  <2>2. ASSUME NEW c \in Callers, LookUp(c) \/ RenameTmp(c)
        PROVE  FS!StoreNext
    BY <2>2, LookUpRefines, RenameRefines DEF FS!StoreNext
  <2>3. ASSUME NEW c \in Callers, Return(c) \/ PersistFails(c)
        PROVE  FS!StoreNext
    BY <2>3, ReturnRefines, FailRefines DEF FS!StoreNext
  <2>4. ASSUME NEW c \in Callers, Lock(c) \/ OpenTmp(c) \/ WriteTmp(c) \/ Publish(c)
        PROVE  UNCHANGED FS!storeVars
    BY <2>4, InsideRefines
  <2>5. ASSUME Crash \/ Open \/ Tick
        PROVE  FS!StoreNext \/ UNCHANGED FS!storeVars
    BY <2>5, ProcessRefines DEF FS!StoreNext
  <2> QED
    BY <1>2, <2>1, <2>2, <2>3, <2>4, <2>5 DEF Next
<1> QED
  BY <1>1, <1>2

\* The mutex, the clone, the temporary file and the rename together are an
\* atomic, durable table: every request takes effect at one instant between
\* its call and its return, and a crash loses no request that was answered.
THEOREM Refinement == Spec => Linearizable
  BY InitRefines, Invariance, StepRefines, PTL DEF Spec, Linearizable, FS!StoreSpec

----------------------------------------------------------------------------
(* The history of the tokens: the store as a view, whose table is the state *)
(* file and where a request takes effect at the rename.                    *)

View == [table |-> file.table, stage |-> Stage, request |-> request,
         answer |-> Told, handed |-> handed, refused |-> refused,
         drawn |-> drawn, now |-> now]

\* The table in memory is behind the file while the holder has renamed and not
\* yet published.  It does not hold a refused family active then either.
MemoryRefuses ==
  /\ \A f \in refused : mem[f].status # "active"
  /\ \A c \in Callers : pc[c] = "answered" /\ answer[c] = "invalid_grant" =>
       mem[request[c].family].status # "active"

HInv == IInv /\ History(Callers, View) /\ MemoryRefuses

\* The fields of the view, now and after the step.
LEMMA ViewFields ==
  /\ View.table = file.table /\ View.stage = Stage /\ View.request = request
  /\ View.answer = Told /\ View.handed = handed /\ View.refused = refused
  /\ View.drawn = drawn /\ View.now = now
  /\ View'.table = file'.table /\ View'.stage = Stage' /\ View'.request = request'
  /\ View'.answer = Told' /\ View'.handed = handed' /\ View'.refused = refused'
  /\ View'.drawn = drawn' /\ View'.now = now'
  BY DEF View

\* The stage and the answer that the view gives a caller.
LEMMA StageFields ==
  ASSUME NEW c \in Callers
  PROVE  /\ Stage[c] = IF pc[c] = "idle" THEN "idle"
                       ELSE IF pc[c] \in {"renamed", "answered"} THEN "done"
                       ELSE "called"
         /\ Told[c] = IF pc[c] = "renamed" THEN Outcome(mem, request[c]).answer
                      ELSE answer[c]
         /\ Stage'[c] = IF pc'[c] = "idle" THEN "idle"
                        ELSE IF pc'[c] \in {"renamed", "answered"} THEN "done"
                        ELSE "called"
         /\ Told'[c] = IF pc'[c] = "renamed" THEN Outcome(mem', request'[c]).answer
                       ELSE answer'[c]
  BY DEF Stage, Told

\* The store starts with no history.
LEMMA InitHInv == Init => HInv
<1> SUFFICES ASSUME Init PROVE HInv
  OBVIOUS
<1>1. \A c \in Callers : View.stage[c] = "idle"
  BY ViewFields, StageFields DEF Init
<1>2. /\ View.table = EmptyTable /\ View.handed = {} /\ View.refused = {}
      /\ View.now = 0
  BY ViewFields, EmptyTableType, ContentsType DEF Init
<1>3. \A f \in Families : EmptyTable[f] = Absent
  BY DEF EmptyTable
<1>4. WellTyped(Callers, View)
  BY <1>1, <1>2, EmptyTableType DEF WellTyped, InCall, Answered
<1>5. InUseWereDrawn(Callers, View)
  BY <1>1, <1>2, <1>3, EntryFields DEF InUseWereDrawn, InCall
<1>6. TokensApart(Callers, View)
  BY <1>1, <1>2, <1>3, EntryFields DEF TokensApart, InCall
<1>7. FamiliesApart(Callers, View) /\ PresentedWereHanded(Callers, View)
  BY <1>1, <1>2 DEF FamiliesApart, PresentedWereHanded, InCall, Pending
<1>8. /\ Exchanged(Callers, View) /\ LivesWithinFamily(Callers, View)
      /\ RefusedAreDead(Callers, View)
  BY <1>1, <1>2 DEF Exchanged, LivesWithinFamily, RefusedAreDead, Answered
<1>9. MemoryRefuses
  BY DEF Init, MemoryRefuses
<1> QED
  BY <1>4, <1>5, <1>6, <1>7, <1>8, <1>9, InitIInv DEF History, HInv

\* A call of the code is a call of the view.
LEMMA CallView ==
  ASSUME HInv, NEW c \in Callers, CallCreate(c) \/ CallRotate(c) \/ CallIsActive(c)
  PROVE  \E r \in Request : CallStep(Callers, View, View', c, r)
<1>1. PICK r \in Request :
        /\ Send(c, r) /\ r.now = now
        /\ Draws(r) => r.next \notin drawn
        /\ IF r.op = "create" THEN r.family \notin drawn
           ELSE \E h \in handed : /\ h.family = r.family
                                  /\ r.op = "rotate" => h.token = r.presented
        /\ drawn \subseteq drawn'
        /\ r.op = "create" => r.family \in drawn'
        /\ Draws(r) => r.next \in drawn'
  <2>1. CASE CallCreate(c)
    <3>1. PICK f \in Families \ drawn, t \in Tokens \ drawn :
            /\ Send(c, [op |-> "create", family |-> f, presented |-> NoToken,
                        next |-> t, now |-> now])
            /\ drawn' = drawn \cup {f, t}
      BY <2>1 DEF CallCreate
    <3> DEFINE r == [op |-> "create", family |-> f, presented |-> NoToken,
                     next |-> t, now |-> now]
    <3>2. r \in Request
      BY DEF Request, HInv, IInv, TypeOK
    <3> QED
      BY <3>1, <3>2 DEF Draws
  <2>2. CASE CallRotate(c)
    <3>1. PICK h \in handed, t \in Tokens \ drawn :
            /\ Send(c, [op |-> "rotate", family |-> h.family, presented |-> h.token,
                        next |-> t, now |-> now])
            /\ drawn' = drawn \cup {t}
      BY <2>2 DEF CallRotate
    <3> DEFINE r == [op |-> "rotate", family |-> h.family, presented |-> h.token,
                     next |-> t, now |-> now]
    <3>2. r \in Request
      BY DEF Request, HInv, IInv, TypeOK, Claims
    <3> QED
      BY <3>1, <3>2 DEF Draws
  <2>3. CASE CallIsActive(c)
    <3>1. PICK h \in handed :
            /\ Send(c, [op |-> "is_active", family |-> h.family, presented |-> NoToken,
                        next |-> NoToken, now |-> now])
            /\ drawn' = drawn
      BY <2>3 DEF CallIsActive
    <3> DEFINE r == [op |-> "is_active", family |-> h.family, presented |-> NoToken,
                     next |-> NoToken, now |-> now]
    <3>2. r \in Request
      BY DEF Request, HInv, IInv, TypeOK, Claims
    <3> QED
      BY <3>1, <3>2 DEF Draws
  <2> QED
    BY <2>1, <2>2, <2>3
<1>2. r.family \in drawn'
  <2>1. \A h \in handed : h.family \in drawn
    BY ViewFields DEF HInv, History, InUseWereDrawn
  <2> QED
    BY <1>1, <2>1
<1>3. Arises(View, r)
  BY <1>1, ViewFields DEF Arises
<1>4. /\ pc[c] = "idle" /\ pc' = [pc EXCEPT ![c] = "waiting"]
      /\ request' = [request EXCEPT ![c] = r]
      /\ UNCHANGED <<now, answer, mem, file, handed, refused>>
  BY <1>1 DEF Send
<1>5. /\ View.stage[c] = "idle" /\ View'.stage[c] = "called"
      /\ View'.request[c] = r
      /\ OthersStay(Callers, View, View', c)
  BY <1>4, ViewFields, StageFields DEF HInv, IInv, TypeOK, OthersStay
<1>6. ClientsStay(View, View') /\ View'.table = View.table
  BY <1>4, ViewFields DEF ClientsStay
<1>7. /\ View.drawn \subseteq View'.drawn /\ r.family \in View'.drawn
      /\ Draws(r) => r.next \in View'.drawn
  BY <1>1, <1>2, ViewFields
<1>8. CallStep(Callers, View, View', c, r)
  BY <1>3, <1>5, <1>6, <1>7 DEF CallStep
<1> QED
  BY <1>8

\* A look-up and a rename are where a request takes effect in the view.
LEMMA ApplyView ==
  ASSUME HInv, NEW c \in Callers, LookUp(c) \/ RenameTmp(c)
  PROVE  ApplyStep(Callers, View, View', c)
<1> DEFINE o == Outcome(file.table, request[c])
<1>1. /\ pc[c] \in {"waiting", "written"} /\ pc'[c] \in {"answered", "renamed"}
      /\ \A d \in Callers \ {c} : pc'[d] = pc[d] /\ answer'[d] = answer[d]
      /\ UNCHANGED <<now, request, mem, handed, refused, drawn>>
  BY DEF LookUp, RenameTmp, HInv, IInv, TypeOK
<1>2. mem = file.table
  BY DEF LookUp, RenameTmp, HInv, IInv, Mutex, MemoryMatchesFile, Clone
<1>3. file'.table = o.table /\ Told'[c] = o.answer
  <2>1. CASE LookUp(c)
    <3>1. pc'[c] = "answered" /\ answer'[c] = Outcome(mem, request[c]).answer
      BY <2>1 DEF LookUp, HInv, IInv, TypeOK
    <3>2. file' = file /\ Outcome(mem, request[c]).table = mem
      BY <2>1 DEF LookUp, MustSave
    <3> QED
      BY <1>2, <3>1, <3>2, StageFields
  <2>2. CASE RenameTmp(c)
    <3>1. pc'[c] = "renamed"
      BY <2>2 DEF RenameTmp, HInv, IInv, TypeOK
    <3>2. /\ file' = Whole(draft) /\ draft \in Table
          /\ draft = Outcome(mem, request[c]).table
      BY <2>2 DEF RenameTmp, HInv, IInv, TypeOK, Clone, Holding
    <3> QED
      BY <1>1, <1>2, <3>1, <3>2, ContentsType, StageFields
  <2> QED
    BY <2>1, <2>2
<1> HIDE DEF o
<1>4. View.stage[c] = "called" /\ View'.stage[c] = "done"
  BY <1>1, ViewFields, StageFields
<1>5. OthersStay(Callers, View, View', c)
  BY <1>1, ViewFields, StageFields DEF OthersStay
<1>6. ClientsStay(View, View') /\ View'.drawn = View.drawn
  BY <1>1, ViewFields DEF ClientsStay
<1>7. /\ View'.request[c] = View.request[c]
      /\ View'.table = Outcome(View.table, View.request[c]).table
      /\ View'.answer[c] = Outcome(View.table, View.request[c]).answer
  BY <1>1, <1>3, ViewFields DEF o
<1> QED
  BY <1>4, <1>5, <1>6, <1>7 DEF ApplyStep

\* A failed write is a failed request of the view.
LEMMA FailView ==
  ASSUME HInv, NEW c \in Callers, PersistFails(c)
  PROVE  FailStep(Callers, View, View', c)
<1>1. /\ pc[c] \in {"locked", "writing", "written"} /\ pc'[c] = "answered"
      /\ answer'[c] = "internal"
      /\ \A d \in Callers \ {c} : pc'[d] = pc[d] /\ answer'[d] = answer[d]
      /\ UNCHANGED <<now, request, mem, file, handed, refused, drawn>>
  BY DEF PersistFails, HInv, IInv, TypeOK
<1>2. /\ View.stage[c] = "called" /\ View'.stage[c] = "done"
      /\ View'.answer[c] = "internal"
  BY <1>1, ViewFields, StageFields
<1>3. OthersStay(Callers, View, View', c)
  BY <1>1, ViewFields, StageFields DEF OthersStay
<1>4. /\ ClientsStay(View, View') /\ View'.request[c] = View.request[c]
      /\ View'.table = View.table /\ View'.drawn = View.drawn
  BY <1>1, ViewFields DEF ClientsStay
<1> QED
  BY <1>2, <1>3, <1>4 DEF FailStep

\* A return gives the client what the view says it is given.
LEMMA ReturnView ==
  ASSUME HInv, NEW c \in Callers, Return(c)
  PROVE  ReturnStep(Callers, View, View', c)
<1>1. /\ pc[c] = "answered" /\ pc'[c] = "idle"
      /\ \A d \in Callers \ {c} : /\ pc'[d] = pc[d] /\ answer'[d] = answer[d]
                                 /\ request'[d] = request[d]
      /\ UNCHANGED <<now, mem, file, drawn>>
  BY DEF Return, HInv, IInv, TypeOK
<1>2. View.stage[c] = "done" /\ View'.stage[c] = "idle" /\ View.answer[c] = answer[c]
  BY <1>1, ViewFields, StageFields
<1>3. OthersStay(Callers, View, View', c)
  BY <1>1, ViewFields, StageFields DEF OthersStay
<1>4. View'.table = View.table /\ View'.drawn = View.drawn /\ View'.now = View.now
  BY <1>1, ViewFields
<1>5. handed' = IF answer[c] = "ok"
                THEN handed \cup {[token |-> request[c].next, family |-> request[c].family,
                                   expires |-> request[c].now + TTL,
                                   parent |-> request[c].presented]}
                ELSE handed
  BY DEF Return
<1>6. /\ \A h \in View'.handed : h \in View.handed \/
           /\ View.answer[c] = "ok"
           /\ h.token = View.request[c].next /\ h.family = View.request[c].family
           /\ h.expires = View.request[c].now + TTL
           /\ h.parent = View.request[c].presented
      /\ \A g, h \in View'.handed : g \notin View.handed /\ h \notin View.handed => g = h
      /\ View.handed \subseteq View'.handed
  BY <1>2, <1>5, ViewFields
<1>7. \A f \in View'.refused : f \in View.refused \/
        (View.answer[c] = "invalid_grant" /\ f = View.request[c].family)
  BY <1>2, ViewFields DEF Return
<1> QED
  BY <1>2, <1>3, <1>4, <1>6, <1>7 DEF ReturnStep

\* What happens between the lock and the rename, a publication, a crash, an
\* open and the clock leave every caller as the view sees it, or gone.
LEMMA QuietView ==
  ASSUME HInv,
         \/ \E c \in Callers : Lock(c) \/ OpenTmp(c) \/ WriteTmp(c) \/ Publish(c)
         \/ Crash \/ Open \/ Tick
         \/ UNCHANGED vars
  PROVE  QuietStep(Callers, View, View')
<1>1. /\ UNCHANGED <<file, handed, refused, drawn>>
      /\ now \in Nat /\ now' \in Nat /\ now <= now'
  BY TimeAssumption DEF Lock, OpenTmp, WriteTmp, Publish, Crash, Open, Tick, vars,
                        HInv, IInv, TypeOK
<1>2. CASE \E c \in Callers : Lock(c) \/ OpenTmp(c) \/ WriteTmp(c) \/ Publish(c)
  <2>1. PICK c \in Callers : Lock(c) \/ OpenTmp(c) \/ WriteTmp(c) \/ Publish(c)
    BY <1>2
  <2>2. Stage' = Stage /\ Told' = Told /\ request' = request
    BY <2>1, InsideRefines DEF HInv, FS!storeVars
  <2> QED
    BY <1>1, <2>2, ViewFields DEF QuietStep
<1>3. CASE Crash
  BY <1>1, <1>3, ViewFields, StageFields DEF Crash, QuietStep
<1>4. CASE Open \/ Tick
  <2>1. UNCHANGED <<pc, request, answer>> /\ (mem' = mem \/ \A c \in Callers : pc[c] = "idle")
    BY <1>4 DEF Open, Tick, HInv, IInv, Mutex
  <2> QED
    BY <1>1, <2>1, ViewFields, StageFields DEF QuietStep
<1>5. CASE UNCHANGED vars
  BY <1>1, <1>5, ViewFields, StageFields DEF vars, QuietStep
<1> QED
  BY <1>2, <1>3, <1>4, <1>5

\* The history of the view is inductive.
LEMMA NextHistory == HInv /\ [Next]_vars => History(Callers, View')
<1> SUFFICES ASSUME HInv, [Next]_vars PROVE History(Callers, View')
  OBVIOUS
<1>1. History(Callers, View)
  BY DEF HInv
<1>2. ASSUME NEW c \in Callers, CallCreate(c) \/ CallRotate(c) \/ CallIsActive(c)
      PROVE  History(Callers, View')
  <2>1. PICK r \in Request : CallStep(Callers, View, View', c, r)
    BY <1>2, CallView
  <2> QED
    BY <1>1, <2>1, CallHistory
<1>3. ASSUME NEW c \in Callers, LookUp(c) \/ RenameTmp(c)
      PROVE  History(Callers, View')
  BY <1>1, <1>3, ApplyView, ApplyHistory
<1>4. ASSUME NEW c \in Callers, PersistFails(c)
      PROVE  History(Callers, View')
  BY <1>1, <1>4, FailView, FailHistory
<1>5. ASSUME NEW c \in Callers, Return(c)
      PROVE  History(Callers, View')
  BY <1>1, <1>5, ReturnView, ReturnHistory
<1>6. ASSUME \/ \E c \in Callers : Lock(c) \/ OpenTmp(c) \/ WriteTmp(c) \/ Publish(c)
             \/ Crash \/ Open \/ Tick
             \/ UNCHANGED vars
      PROVE  History(Callers, View')
  BY <1>1, <1>6, QuietView, QuietHistory
<1> QED
  BY <1>2, <1>3, <1>4, <1>5, <1>6 DEF Next

\* Memory is what the view's table is, or it is what it was and nobody has
\* been told anything yet.
LEMMA NextMemory == HInv /\ [Next]_vars => MemoryRefuses'
<1> SUFFICES ASSUME HInv, [Next]_vars PROVE MemoryRefuses'
  OBVIOUS
<1>1. History(Callers, View') /\ IInv'
  BY NextHistory, NextIInv DEF HInv
\* Where memory is the file, the history of the view says it.
<1>2. CASE mem' = file'.table
  <2>1. \A f \in refused' : mem'[f].status # "active"
    BY <1>1, <1>2, ViewFields DEF History, RefusedAreDead
  <2>2. ASSUME NEW c \in Callers, pc'[c] = "answered", answer'[c] = "invalid_grant"
        PROVE  mem'[request'[c].family].status # "active"
    <3>1. View'.stage[c] = "done" /\ View'.answer[c] = "invalid_grant"
      BY <2>2, ViewFields, StageFields
    <3> QED
      BY <1>1, <1>2, <3>1, ViewFields DEF History, RefusedAreDead, Answered
  <2> QED
    BY <2>1, <2>2 DEF MemoryRefuses
<1>3. ASSUME UNCHANGED <<mem, refused>>,
             \A c \in Callers : pc'[c] = "answered" /\ answer'[c] = "invalid_grant" =>
               pc[c] = "answered" /\ answer[c] = "invalid_grant" /\ request'[c] = request[c]
      PROVE  MemoryRefuses'
  BY <1>3 DEF HInv, MemoryRefuses
<1>4. ASSUME NEW c \in Callers, CallCreate(c) \/ CallRotate(c) \/ CallIsActive(c)
      PROVE  MemoryRefuses'
  <2>1. \E r : Send(c, r)
    BY <1>4 DEF CallCreate, CallRotate, CallIsActive
  <2> QED
    BY <1>3, <2>1 DEF Send, HInv, IInv, TypeOK
<1>5. ASSUME NEW c \in Callers, Lock(c) \/ OpenTmp(c) \/ WriteTmp(c) \/ RenameTmp(c)
      PROVE  MemoryRefuses'
  BY <1>3, <1>5 DEF Lock, OpenTmp, WriteTmp, RenameTmp, HInv, IInv, TypeOK
<1>6. ASSUME NEW c \in Callers, PersistFails(c)
      PROVE  MemoryRefuses'
  BY <1>3, <1>6 DEF PersistFails, HInv, IInv, TypeOK
<1>7. ASSUME NEW c \in Callers, Return(c)
      PROVE  MemoryRefuses'
  <2>1. /\ pc[c] = "answered" /\ pc'[c] = "idle" /\ mem' = mem
        /\ \A d \in Callers \ {c} : /\ pc'[d] = pc[d] /\ answer'[d] = answer[d]
                                   /\ request'[d] = request[d]
        /\ \A f \in refused' : f \in refused \/
             (answer[c] = "invalid_grant" /\ f = request[c].family)
    BY <1>7 DEF Return, HInv, IInv, TypeOK
  <2> QED
    BY <2>1 DEF HInv, MemoryRefuses
<1>8. ASSUME NEW c \in Callers, LookUp(c)
      PROVE  MemoryRefuses'
  BY <1>2, <1>8 DEF LookUp, HInv, IInv, Mutex, MemoryMatchesFile
<1>9. ASSUME NEW c \in Callers, Publish(c)
      PROVE  MemoryRefuses'
  <2>1. file = Whole(draft) /\ draft \in Table
    BY <1>9 DEF Publish, HInv, IInv, TypeOK, Clone
  <2> QED
    BY <1>2, <1>9, <2>1, ContentsType DEF Publish
<1>10. CASE Crash
  <2>1. \A f \in refused' : mem'[f].status # "active"
    BY <1>1, <1>10, EntryFields DEF Crash, EmptyTable, IInv, TypeOK
  <2> QED
    BY <1>10, <2>1 DEF Crash, MemoryRefuses
<1>11. CASE Open
  BY <1>2, <1>11 DEF Open
<1>12. CASE Tick \/ UNCHANGED vars
  BY <1>3, <1>12 DEF Tick, vars
<1> QED
  BY <1>4, <1>5, <1>6, <1>7, <1>8, <1>9, <1>10, <1>11, <1>12 DEF Next

\* The strengthened invariant is inductive.
LEMMA NextHInv == HInv /\ [Next]_vars => HInv'
<1> SUFFICES ASSUME HInv, [Next]_vars PROVE HInv'
  OBVIOUS
<1>1. IInv' /\ MemoryRefuses'
  BY NextIInv, NextMemory DEF HInv
<1>2. History(Callers, View)'
  BY NextHistory
<1> QED
  BY <1>1, <1>2 DEF HInv

\* It holds in every behaviour of the store.
LEMMA HistoryInvariance == Spec => []HInv
  BY InitHInv, NextHInv, PTL DEF Spec

\* A refresh token is exchanged at most once: whatever is presented at the
\* same time, whichever write fails, wherever the process dies.
THEOREM TokensAreSingleUse == Spec => []SingleUse
<1>1. HInv => SingleUse
  BY ViewFields DEF HInv, History, Exchanged, SingleUse
<1> QED
  BY <1>1, HistoryInvariance, PTL

\* A family of which a client was told invalid_grant is never active again,
\* in memory or on disk, after any number of crashes.
THEOREM RefusalIsFinal == Spec => []RefusedForGood
<1>1. HInv => RefusedForGood
  BY ViewFields DEF HInv, History, RefusedAreDead, MemoryRefuses, RefusedForGood
<1> QED
  BY <1>1, HistoryInvariance, PTL

\* A family is not forgotten while a token of it could be accepted, and the
\* token it can be rotated with expires when it does.
THEOREM FamiliesOutliveTokens == Spec => []TokensExpireFirst
<1>1. HInv => TokensExpireFirst
  BY ViewFields DEF HInv, History, LivesWithinFamily, Lives, TokensExpireFirst
<1> QED
  BY <1>1, HistoryInvariance, PTL

\* An entry of the state file appears, is given a newer token that lives as
\* long, is revoked as it stands, or goes once it has expired: nothing else.
THEOREM EntriesAgeOneWay == Spec => EntryLifecycle
<1>1. HInv /\ [Next]_vars => [EntriesAge]_vars
  <2> SUFFICES ASSUME HInv, [Next]_vars, NEW f \in Families
               PROVE  \/ file'.table[f] = file.table[f]
                      \/ EntryStep(file.table[f], file'.table[f])
    BY DEF EntriesAge
  <2>1. CASE \E c \in Callers : RenameTmp(c)
    <3>1. PICK c \in Callers : RenameTmp(c)
      BY <2>1
    <3>2. ApplyStep(Callers, View, View', c)
      BY <3>1, ApplyView
    <3>3. History(Callers, View)
      BY DEF HInv
    <3>4. \/ file'.table[f] = file.table[f]
          \/ file.table[f].status = "absent" /\ file'.table[f].status = "active"
          \/ /\ file.table[f].status = "active" /\ file'.table[f].status = "active"
             /\ file.table[f].token # file'.table[f].token
             /\ file'.table[f].expires >= file.table[f].expires
          \/ file.table[f].status = "active" /\ file'.table[f] = Revoked(file.table[f])
          \/ file'.table[f].status = "absent" /\ file.table[f].expires <= now
      BY <3>2, <3>3, ApplyEntry, ViewFields
    <3>5. ASSUME file.table[f].status = "active"
          PROVE  Revoked(file.table[f]) = [file.table[f] EXCEPT !.status = "revoked"]
      <4>1. file.table[f] \in [status : {"active", "revoked"}, token : Tokens, expires : Nat]
        BY <3>5, EntryFields DEF HInv, IInv, TypeOK, Contents, Table, Entry
      <4> QED
        BY <4>1 DEF Revoked
    <3> QED
      BY <3>4, <3>5 DEF EntryStep
  <2>2. CASE ~\E c \in Callers : RenameTmp(c)
    <3>1. file' = file
      BY <2>2 DEF Next, vars, CallCreate, CallRotate, CallIsActive, Send, Return, LookUp,
                  Lock, OpenTmp, WriteTmp, Publish, PersistFails, Crash, Open, Tick
    <3> QED
      BY <3>1
  <2> QED
    BY <2>1, <2>2
<1> QED
  BY <1>1, HistoryInvariance, PTL DEF Spec, EntryLifecycle
=============================================================================
