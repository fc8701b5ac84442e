------------------------------- MODULE Budget -------------------------------
(***************************************************************************)
(* What a limiter of src/src/auth.rs promises: a number of whole tokens    *)
(* for each key, from none to Capacity.  A request is let through for one  *)
(* of them, or refused when there is none.  When tokens come back is left  *)
(* open; a new process starts with all of them.                            *)
(*                                                                         *)
(* RateLimiter (clock, fractions, mutex) is shown to implement this;       *)
(* McpRequest and Inbox take their limiters to be like this.               *)
(***************************************************************************)
EXTENDS Naturals

CONSTANTS
  Callers,   \* requests being checked
  Keys,      \* credentials, and the write budget
  Capacity   \* tokens in a full bucket

VARIABLES
  tokens,   \* whole tokens of each key
  asking,   \* callers inside check()
  passed    \* how many requests this process has let through, for each key

budgetVars == <<tokens, asking, passed>>

BudgetInit ==
  /\ tokens = [k \in Keys |-> Capacity]
  /\ asking = {}
  /\ passed = [k \in Keys |-> 0]

Ask(c) ==
  /\ c \notin asking
  /\ asking' = asking \cup {c}
  /\ UNCHANGED <<tokens, passed>>

Pass(c, k) ==
  /\ c \in asking
  /\ asking' = asking \ {c}
  /\ \E n \in tokens[k] .. Capacity :
       n > 0 /\ tokens' = [tokens EXCEPT ![k] = n - 1]
  /\ passed' = [passed EXCEPT ![k] = @ + 1]

Refuse(c, k) ==
  /\ c \in asking /\ tokens[k] = 0
  /\ asking' = asking \ {c}
  /\ UNCHANGED <<tokens, passed>>

StartAgain ==
  /\ tokens' = [k \in Keys |-> Capacity]
  /\ asking' = {}
  /\ passed' = [k \in Keys |-> 0]

BudgetNext ==
  \/ \E c \in Callers :
       Ask(c) \/ \E k \in Keys : Pass(c, k) \/ Refuse(c, k)
  \/ StartAgain

BudgetSpec == BudgetInit /\ [][BudgetNext]_budgetVars
=============================================================================
