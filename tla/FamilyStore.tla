---------------------------- MODULE FamilyStore ----------------------------
(***************************************************************************)
(* What the refresh-token store promises its callers: one durable table of *)
(* families on which every request takes effect at a single instant        *)
(* between its call and its return, or fails and leaves the table as it    *)
(* was.  A crash takes the callers with it, never the table.               *)
(*                                                                         *)
(* RefreshTokenStore (mutex, memory copy, temporary file, rename) is shown *)
(* to implement this; OAuth is built on it.                                *)
(***************************************************************************)
EXTENDS FamilyTable

CONSTANTS Callers

VARIABLES
  families,   \* the table
  stage,      \* where each caller is: "idle", "called" or "done"
  request,    \* what it asked
  answer      \* what it was told

storeVars == <<families, stage, request, answer>>

NoRequest == [op |-> "none", family |-> "none", presented |-> NoToken,
              next |-> NoToken, now |-> 0]

StoreTypeOK ==
  /\ families \in Table
  /\ stage \in [Callers -> {"idle", "called", "done"}]
  /\ request \in [Callers -> Request \cup {NoRequest}]
  /\ answer \in [Callers -> Answer \cup {"none"}]

StoreInit ==
  /\ families = EmptyTable
  /\ stage = [c \in Callers |-> "idle"]
  /\ request = [c \in Callers |-> NoRequest]
  /\ answer = [c \in Callers |-> "none"]

Call(c, r) ==
  /\ stage[c] = "idle"
  /\ stage' = [stage EXCEPT ![c] = "called"]
  /\ request' = [request EXCEPT ![c] = r]
  /\ UNCHANGED <<families, answer>>

Apply(c) ==
  /\ stage[c] = "called"
  /\ LET o == Outcome(families, request[c])
     IN families' = o.table /\ answer' = [answer EXCEPT ![c] = o.answer]
  /\ stage' = [stage EXCEPT ![c] = "done"]
  /\ UNCHANGED request

\* persist returned an error: the caller is told so and nothing has changed.
Fail(c) ==
  /\ stage[c] = "called"
  /\ MustSave(families, request[c])
  /\ answer' = [answer EXCEPT ![c] = "internal"]
  /\ stage' = [stage EXCEPT ![c] = "done"]
  /\ UNCHANGED <<families, request>>

Return(c) ==
  /\ stage[c] = "done"
  /\ stage' = [stage EXCEPT ![c] = "idle"]
  /\ request' = [request EXCEPT ![c] = NoRequest]
  /\ answer' = [answer EXCEPT ![c] = "none"]
  /\ UNCHANGED families

CallersLost ==
  /\ stage' = [c \in Callers |-> "idle"]
  /\ request' = [c \in Callers |-> NoRequest]
  /\ answer' = [c \in Callers |-> "none"]
  /\ UNCHANGED families

StoreNext ==
  \/ \E c \in Callers :
       \/ \E r \in Request : Call(c, r)
       \/ Apply(c)
       \/ Fail(c)
       \/ Return(c)
  \/ CallersLost

StoreSpec == StoreInit /\ [][StoreNext]_storeVars
=============================================================================
