---------------------------- MODULE TokenHistory ----------------------------
(***************************************************************************)
(* What the tokens of the families go through, as one formula over a view  *)
(* of the system: the table, the callers of the store, and what clients    *)
(* hold and were told.  RefreshTokenStore has such a view (its table is    *)
(* the state file) and OAuth has one (its table is FamilyStore's): History *)
(* is the part of their inductive invariants that they share.              *)
(*                                                                         *)
(* A view v has the fields                                                 *)
(*   table, stage, request, answer   as in FamilyStore                     *)
(*   handed    the refresh tokens clients hold, with their claims          *)
(*   refused   the families of which the store told a client invalid_grant *)
(*   drawn     the family and token ids generated so far                   *)
(*   now       the clock                                                   *)
(* and C is the set of callers.                                            *)
(***************************************************************************)
EXTENDS FamilyTable

InCall(v, c)  == v.stage[c] # "idle"
Pending(v, c) == v.stage[c] = "called"
Answered(v, c, a) == v.stage[c] = "done" /\ v.answer[c] = a

\* Requests that were given a fresh token id.
Draws(r) == r.op # "is_active"

WellTyped(C, v) ==
  /\ v.table \in Table
  /\ v.now \in Nat
  /\ v.refused \subseteq Families
  /\ \A h \in v.handed : /\ h.token \in Tokens /\ h.family \in Families
                         /\ h.expires \in Nat /\ h.parent \in Tokens \cup {NoToken}
  /\ \A c \in C : /\ InCall(v, c) => v.request[c] \in Request
                  /\ Answered(v, c, "ok") => Draws(v.request[c])

\* Ids in use were drawn, so the next one drawn is in use nowhere.
InUseWereDrawn(C, v) ==
  /\ \A h \in v.handed : h.token \in v.drawn /\ h.family \in v.drawn
  /\ v.refused \subseteq v.drawn
  /\ \A f \in Families : v.table[f].status # "absent" =>
       f \in v.drawn /\ v.table[f].token \in v.drawn
  /\ \A c \in C : InCall(v, c) =>
       /\ v.request[c].family \in v.drawn
       /\ Draws(v.request[c]) => v.request[c].next \in v.drawn

\* A token is in one hand, in one family, and until its call has taken effect
\* in neither.
TokensApart(C, v) ==
  /\ \A g, h \in v.handed : g.token = h.token => g = h
  /\ \A f, g \in Families :
       v.table[f].status # "absent" /\ v.table[f].token = v.table[g].token => f = g
  /\ \A c \in C : InCall(v, c) /\ Draws(v.request[c]) =>
       /\ \A h \in v.handed : h.token # v.request[c].next
       /\ \A d \in C \ {c} : InCall(v, d) => v.request[d].next # v.request[c].next
       /\ Pending(v, c) => \A f \in Families : v.table[f].token # v.request[c].next

\* Until its family is created nobody knows of it.
FamiliesApart(C, v) ==
  \A c \in C : Pending(v, c) /\ v.request[c].op = "create" =>
    /\ v.table[v.request[c].family].status = "absent"
    /\ \A h \in v.handed : h.family # v.request[c].family
    /\ v.request[c].family \notin v.refused
    /\ \A d \in C \ {c} : InCall(v, d) => v.request[d].family # v.request[c].family

\* What is presented was handed out, by a call that read the clock earlier.
PresentedWereHanded(C, v) ==
  /\ \A h \in v.handed :
       /\ h.expires <= v.now + TTL
       /\ h.parent # NoToken => \E g \in v.handed : g.token = h.parent
  /\ \A c \in C : InCall(v, c) =>
       /\ v.request[c].now <= v.now
       /\ v.request[c].op = "rotate" =>
            \E h \in v.handed : /\ h.token = v.request[c].presented
                                /\ h.family = v.request[c].family
                                /\ h.expires <= v.request[c].now + TTL

\* A token that was exchanged is in no family, and was exchanged once.
Exchanged(C, v) ==
  /\ \A g, h \in v.handed : g.parent = h.parent /\ g.parent # NoToken => g = h
  /\ \A h \in v.handed, f \in Families :
       h.parent # NoToken => v.table[f].token # h.parent
  /\ \A c \in C : Answered(v, c, "ok") /\ v.request[c].op = "rotate" =>
       /\ \A f \in Families : v.table[f].token # v.request[c].presented
       /\ \A h \in v.handed : h.parent # v.request[c].presented
       /\ \A d \in C \ {c} : Answered(v, d, "ok") =>
            v.request[d].presented # v.request[c].presented

\* A token of family f that expires at e lives within its family.
Lives(v, token, f, e) ==
  /\ e <= v.now \/ (v.table[f].status # "absent" /\ e <= v.table[f].expires)
  /\ v.table[f].token = token => e = v.table[f].expires

LivesWithinFamily(C, v) ==
  /\ \A h \in v.handed : Lives(v, h.token, h.family, h.expires)
  /\ \A c \in C : Answered(v, c, "ok") =>
       Lives(v, v.request[c].next, v.request[c].family, v.request[c].now + TTL)

\* A family that was refused is not active.
RefusedAreDead(C, v) ==
  /\ \A f \in v.refused : v.table[f].status # "active"
  /\ \A c \in C : Answered(v, c, "invalid_grant") =>
       v.table[v.request[c].family].status # "active"

History(C, v) ==
  /\ WellTyped(C, v) /\ InUseWereDrawn(C, v) /\ TokensApart(C, v)
  /\ FamiliesApart(C, v) /\ PresentedWereHanded(C, v) /\ Exchanged(C, v)
  /\ LivesWithinFamily(C, v) /\ RefusedAreDead(C, v)

----------------------------------------------------------------------------
(* The steps from a view v to a view w, those of FamilyStore with what the *)
(* clients come to know.                                                   *)

\* Nobody but c notices.
OthersStay(C, v, w, c) ==
  \A d \in C \ {c} : /\ w.stage[d] = v.stage[d] /\ w.request[d] = v.request[d]
                     /\ w.answer[d] = v.answer[d]

ClientsStay(v, w) == w.handed = v.handed /\ w.refused = v.refused /\ w.now = v.now

\* Request r is one that a client can bring about: its fresh ids are fresh,
\* the token it presents was handed out, and so was one of the family it asks for.
Arises(v, r) ==
  /\ r.now = v.now
  /\ Draws(r) => r.next \notin v.drawn
  /\ IF r.op = "create" THEN r.family \notin v.drawn
     ELSE \E h \in v.handed : /\ h.family = r.family
                              /\ r.op = "rotate" => h.token = r.presented

CallStep(C, v, w, c, r) ==
  /\ v.stage[c] = "idle" /\ w.stage[c] = "called" /\ w.request[c] = r
  /\ OthersStay(C, v, w, c) /\ ClientsStay(v, w)
  /\ w.table = v.table
  /\ Arises(v, r)
  /\ v.drawn \subseteq w.drawn /\ r.family \in w.drawn
  /\ Draws(r) => r.next \in w.drawn

ApplyStep(C, v, w, c) ==
  /\ v.stage[c] = "called" /\ w.stage[c] = "done" /\ w.request[c] = v.request[c]
  /\ OthersStay(C, v, w, c) /\ ClientsStay(v, w)
  /\ w.table = Outcome(v.table, v.request[c]).table
  /\ w.answer[c] = Outcome(v.table, v.request[c]).answer
  /\ w.drawn = v.drawn

FailStep(C, v, w, c) ==
  /\ v.stage[c] = "called" /\ w.stage[c] = "done" /\ w.request[c] = v.request[c]
  /\ OthersStay(C, v, w, c) /\ ClientsStay(v, w)
  /\ w.table = v.table
  /\ w.answer[c] = "internal"
  /\ w.drawn = v.drawn

\* The client is told: it has a new token, or knows its family refused.
ReturnStep(C, v, w, c) ==
  /\ v.stage[c] = "done" /\ w.stage[c] = "idle"
  /\ OthersStay(C, v, w, c)
  /\ w.table = v.table /\ w.drawn = v.drawn /\ w.now = v.now
  /\ \A h \in w.handed : h \in v.handed \/
       /\ v.answer[c] = "ok"
       /\ h.token = v.request[c].next /\ h.family = v.request[c].family
       /\ h.expires = v.request[c].now + TTL /\ h.parent = v.request[c].presented
  /\ \A g, h \in w.handed : g \notin v.handed /\ h \notin v.handed => g = h
  /\ v.handed \subseteq w.handed
  /\ \A f \in w.refused : f \in v.refused \/
       (v.answer[c] = "invalid_grant" /\ f = v.request[c].family)

\* The callers are lost, or time passes, or nothing is seen at all.
QuietStep(C, v, w) ==
  /\ \A c \in C : \/ w.stage[c] = "idle"
                  \/ /\ w.stage[c] = v.stage[c] /\ w.request[c] = v.request[c]
                     /\ w.answer[c] = v.answer[c]
  /\ w.table = v.table /\ w.handed = v.handed /\ w.refused = v.refused
  /\ w.drawn = v.drawn
  /\ w.now \in Nat /\ v.now <= w.now
=============================================================================
