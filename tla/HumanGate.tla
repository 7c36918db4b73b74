------------------------------ MODULE HumanGate ------------------------------
(***************************************************************************)
(* What the draft-approval queue promises, without requests, database      *)
(* transactions or mail providers.  A draft is offered for review to one   *)
(* tenant; a user of that tenant may grant it while it is open; mail       *)
(* leaves for a draft only on the strength of a grant; and once a verdict  *)
(* is recorded the draft never opens again.  The promise is deliberately   *)
(* no stronger than what the control plane can keep: a verdict may be      *)
(* replaced by another one, and "sent" is the only verdict that says       *)
(* something about the outside world.                                      *)
(***************************************************************************)
CONSTANTS Drafts, Users, Orgs, UserOrg, NoOrg

VARIABLES
  tenant,     \* the org a draft is offered to, NoOrg before that
  verdict,    \* "absent", "pending_review", or what a reviewer left behind
  granted,    \* <<draft, user>>: the user was let through while it was open
  delivered   \* <<draft, user>>: mail left for the draft on that grant

vars == <<tenant, verdict, granted, delivered>>

Init ==
  /\ tenant = [d \in Drafts |-> NoOrg]
  /\ verdict = [d \in Drafts |-> "absent"]
  /\ granted = {}
  /\ delivered = {}

Offer(d, o) ==
  /\ verdict[d] = "absent"
  /\ tenant' = [tenant EXCEPT ![d] = o]
  /\ verdict' = [verdict EXCEPT ![d] = "pending_review"]
  /\ UNCHANGED <<granted, delivered>>

Grant(d, u) ==
  /\ verdict[d] = "pending_review"
  /\ tenant[d] = UserOrg[u]
  /\ granted' = granted \union {<<d, u>>}
  /\ UNCHANGED <<tenant, verdict, delivered>>

Deliver(d, u) ==
  /\ <<d, u>> \in granted
  /\ delivered' = delivered \union {<<d, u>>}
  /\ UNCHANGED <<tenant, verdict, granted>>

\* "sent" is recorded only after mail left for the draft, "failed" only after
\* somebody's grant was tried, and nothing is recorded on an absent draft.
Conclude(d, v) ==
  /\ verdict[d] # "absent"
  /\ v = "sent" => \E u \in Users : <<d, u>> \in delivered
  /\ v = "failed" => \E u \in Users : <<d, u>> \in granted
  /\ verdict' = [verdict EXCEPT ![d] = v]
  /\ UNCHANGED <<tenant, granted, delivered>>

Next ==
  \E d \in Drafts :
    \/ \E o \in Orgs : Offer(d, o)
    \/ \E u \in Users : Grant(d, u) \/ Deliver(d, u)
    \/ \E v \in {"sent", "failed", "rejected"} : Conclude(d, v)

Spec == Init /\ [][Next]_vars
==============================================================================
