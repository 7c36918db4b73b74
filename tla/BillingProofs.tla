---------------------------- MODULE BillingProofs ----------------------------
(***************************************************************************)
(* Proofs about plans and customers, for any number of orgs, requests,     *)
(* processes, customers, subscriptions and events.                         *)
(***************************************************************************)
EXTENDS Billing, TLAPS

------------------------------------------------------------------------------
(* Types.                                                                   *)

LEMMA HasStep ==
  ASSUME TypeOK, NEW r \in Requests, requests[r].step # "idle"
  PROVE  requests[r] \in Checkout \union Hook
  BY DEF TypeOK, Idle

LEMMA NotIdle ==
  ASSUME NEW job \in Checkout \union Hook
  PROVE  job # Idle /\ job.step # "idle" /\ job.org \in Orgs
         /\ job.old \in OrgRow /\ job.new \in OrgRow
  BY DEF Idle, Checkout, Hook

LEMMA OnlyCheckouts ==
  ASSUME TypeOK, NEW r \in Requests,
         requests[r].step \in {"customer", "session", "late_commit"}
  PROVE  requests[r] \in Checkout
  BY DEF TypeOK, Idle, Hook

LEMMA WrittenRow ==
  ASSUME NEW job \in Checkout \union Hook, NEW row \in OrgRow
  PROVE  Written(job, row) \in OrgRow
<1>1. job.old \in OrgRow /\ job.new \in OrgRow
  BY NotIdle
<1> QED
  BY <1>1 DEF Written, OrgRow

LEMMA EventRow ==
  ASSUME NEW row \in OrgRow, NEW e \in Event
  PROVE  AfterEvent(row, e) \in OrgRow
<1>1. "trial" \in Tiers /\ e.tier \in Tiers
  BY DEF Event, Tiers
<1>2. CASE e.type = "completed"
  BY <1>1, <1>2 DEF AfterEvent, OrgRow, Event
<1>3. CASE e.type = "updated"
  BY <1>1, <1>3 DEF AfterEvent, OrgRow, Event
<1>4. CASE e.type = "deleted"
  BY <1>1, <1>4 DEF AfterEvent, OrgRow, Event
<1> QED
  BY <1>2, <1>3, <1>4 DEF Event

LEMMA TypeInit == Init => TypeOK
  BY ProcessAssumption, ModesAssumption DEF Init, TypeOK, OrgRow, Tiers

LEMMA TypeTell ==
  ASSUME TypeOK, NEW s \in Subs, subs[s] # Unused,
         NEW type \in {"completed", "updated", "deleted"}, NEW plan \in Plans,
         NEW status \in Statuses,
         Tell(s, type, plan, status)
  PROVE  TypeOK'
<1>1. subs[s] \in Session
  BY DEF TypeOK
<1>2. [subs[s] EXCEPT !.status = status, !.tier = plan,
                      !.had = subs[s].had \union {plan}] \in Session
  BY <1>1 DEF Session
<1>3. subs' = [subs EXCEPT ![s] =
        [subs[s] EXCEPT !.status = status, !.tier = plan, !.had = subs[s].had \union {plan}]]
  BY DEF Tell, TypeOK
<1>4. subs' \in [Subs -> Session \union {Unused}]
  BY <1>2, <1>3 DEF TypeOK
<1>5. sent' \in 0..MaxEvents /\ sent' \in 1..MaxEvents
  BY ModesAssumption DEF Tell, TypeOK
<1>6. [n |-> sent', type |-> type, sub |-> s, org |-> subs[s].org,
       customer |-> subs[s].customer, tier |-> plan, status |-> status] \in Event
  BY <1>1, <1>5 DEF Event, Session
<1>7. events' \subseteq Event
  BY <1>6 DEF Tell, TypeOK
<1> QED
  BY <1>4, <1>5, <1>7 DEF Tell, TypeOK

\* Stripe tells of the tier and status it leaves the subscription with.
StripeActs(s) ==
  \/ Pay(s) \/ Lapse(s) \/ Cancel(s)
  \/ \E plan \in Plans, status \in Statuses : ChangePlan(s, plan, status)

LEMMA StripeTells ==
  ASSUME TypeOK, NEW s \in Subs, StripeActs(s)
  PROVE  /\ subs[s] # Unused
         /\ \E type \in {"completed", "updated", "deleted"}, plan \in Plans,
               status \in Statuses : Tell(s, type, plan, status)
<1>1. subs[s] # Unused
  BY DEF StripeActs, Pay, Lapse, Cancel, ChangePlan, Unused, Statuses
<1>2. subs[s] \in Session
  BY <1>1 DEF TypeOK
<1>3. subs[s].tier \in Plans
  BY <1>2 DEF Session
<1> QED
  BY <1>1, <1>3 DEF StripeActs, Pay, Lapse, Cancel, ChangePlan, Statuses

\* A checkout session is opened for a customer.
SessionHasCustomer ==
  \A r \in Requests : requests[r].step = "session" => requests[r].new.customer # None

LEMMA TypeNext == TypeOK /\ SessionHasCustomer /\ [Next]_vars => TypeOK'
<1> SUFFICES ASSUME TypeOK, SessionHasCustomer, [Next]_vars PROVE TypeOK'
  OBVIOUS
<1>0. ASSUME NEW r \in Requests, NEW job \in Checkout \union Hook \union {Idle}, Update(r, job)
      PROVE  requests' \in [Requests -> Checkout \union Hook \union {Idle}]
  BY <1>0 DEF Update, TypeOK
<1>1. ASSUME NEW r \in Requests, NEW o \in Orgs, NEW plan \in Plans, CheckoutRead(r, o, plan)
      PROVE  TypeOK'
  <2>1. [step |-> IF orgs[o].customer = None THEN "customer" ELSE "session",
         org |-> o, plan |-> plan, sub |-> None,
         old |-> orgs[o], new |-> orgs[o]] \in Checkout
    BY DEF TypeOK, Checkout
  <2>2. requests' \in [Requests -> Checkout \union Hook \union {Idle}]
    BY <1>1, <2>1 DEF CheckoutRead, Update, TypeOK
  <2> QED
    BY <1>1, <2>2 DEF CheckoutRead, TypeOK, stripe
<1>2. ASSUME NEW r \in Requests, CreateCustomer(r) PROVE TypeOK'
  <2>1. requests[r] \in Checkout
    BY <1>2, OnlyCheckouts DEF CreateCustomer
  <2>2. PICK c \in Customers :
          /\ customers' = [customers EXCEPT ![c] = requests[r].org]
          /\ Update(r, [requests[r] EXCEPT !.step = "session",
                          !.new = AfterCheckout(requests[r].new, c, requests[r].plan)])
    BY <1>2 DEF CreateCustomer
  <2>3. AfterCheckout(requests[r].new, c, requests[r].plan) \in OrgRow
    BY <2>1 DEF AfterCheckout, Checkout, OrgRow
  <2>4. [requests[r] EXCEPT !.step = "session",
           !.new = AfterCheckout(requests[r].new, c, requests[r].plan)] \in Checkout
    BY <2>1, <2>3 DEF Checkout
  <2>5. requests' \in [Requests -> Checkout \union Hook \union {Idle}]
    BY <2>2, <2>4 DEF Update, TypeOK
  <2>6. customers' \in [Customers -> Orgs \union {None}]
    BY <2>1, <2>2 DEF TypeOK, Checkout
  <2> QED
    BY <1>2, <2>5, <2>6 DEF CreateCustomer, TypeOK
<1>3. ASSUME NEW r \in Requests, NoCustomer(r) PROVE TypeOK'
  BY <1>3, <1>0 DEF NoCustomer, TypeOK, stripe
<1>4. ASSUME NEW r \in Requests, OpenSession(r) PROVE TypeOK'
  <2>1. requests[r] \in Checkout
    BY <1>4, OnlyCheckouts DEF OpenSession
  <2>2. PICK s \in Subs :
          /\ subs' = [subs EXCEPT ![s] =
               [org |-> requests[r].org, customer |-> requests[r].new.customer,
                tier |-> requests[r].plan, status |-> "open", had |-> {}]]
          /\ Update(r, [requests[r] EXCEPT !.step = "flush", !.sub = s])
    BY <1>4 DEF OpenSession
  <2>3. [requests[r] EXCEPT !.step = "flush", !.sub = s] \in Checkout
    BY <2>1 DEF Checkout
  <2>4. requests' \in [Requests -> Checkout \union Hook \union {Idle}]
    BY <2>2, <2>3 DEF Update, TypeOK
  <2>5. requests[r].new.customer \in Customers
    BY <1>4, <2>1 DEF SessionHasCustomer, OpenSession, Checkout, OrgRow
  <2>6. [org |-> requests[r].org, customer |-> requests[r].new.customer,
         tier |-> requests[r].plan, status |-> "open", had |-> {}] \in Session
    BY <2>1, <2>5 DEF Checkout, Session
  <2>7. subs' \in [Subs -> Session \union {Unused}]
    BY <2>2, <2>6 DEF TypeOK
  <2> QED
    BY <1>4, <2>4, <2>7, ProcessAssumption DEF OpenSession, Configured, TypeOK
<1>5. ASSUME NEW r \in Requests, NEW step \in {"late_commit", "flush", "commit"}, Goto(r, step),
             \/ requests[r].step = "session"
             \/ step = "commit" /\ requests[r].step = "flush"
      PROVE  requests' \in [Requests -> Checkout \union Hook \union {Idle}]
  <2>1. [requests[r] EXCEPT !.step = step] \in Checkout \union Hook
    <3>1. CASE requests[r].step = "session"
      <4>1. requests[r] \in Checkout
        BY <3>1, OnlyCheckouts
      <4> QED
        BY <4>1 DEF Checkout
    <3>2. CASE step = "commit" /\ requests[r].step = "flush"
      <4>1. requests[r] \in Checkout \union Hook
        BY <3>2, HasStep
      <4>2. CASE requests[r] \in Checkout
        BY <3>2, <4>2 DEF Checkout
      <4>3. CASE requests[r] \in Hook
        BY <3>2, <4>3 DEF Hook
      <4> QED
        BY <4>1, <4>2, <4>3
    <3> QED
      BY <1>5, <3>1, <3>2
  <2>2. requests' = [requests EXCEPT ![r] = [requests[r] EXCEPT !.step = step]]
    BY <1>5 DEF Goto
  <2> QED
    BY <2>1, <2>2 DEF TypeOK
<1>6. ASSUME NEW r \in Requests, NoSession(r) PROVE TypeOK'
  <2>1. requests' \in [Requests -> Checkout \union Hook \union {Idle}]
    BY <1>5, <1>6 DEF NoSession
  <2> QED
    BY <1>6, <2>1, ProcessAssumption DEF NoSession, Configured, TypeOK, stripe
<1>7. ASSUME NEW r \in Requests, requests[r] \in Checkout \union Hook,
             orgs' = [orgs EXCEPT ![requests[r].org] = Written(requests[r], orgs[requests[r].org])]
      PROVE  orgs' \in [Orgs -> OrgRow]
  <2>1. requests[r].org \in Orgs
    BY <1>7, NotIdle
  <2>2. Written(requests[r], orgs[requests[r].org]) \in OrgRow
    BY <1>7, <2>1, WrittenRow DEF TypeOK
  <2> QED
    BY <1>7, <2>2 DEF TypeOK
<1>8. ASSUME NEW r \in Requests, LateCommit(r) PROVE TypeOK'
  <2>1. requests[r] \in Checkout \union Hook
    BY <1>8, HasStep DEF LateCommit
  <2>2. orgs' \in [Orgs -> OrgRow]
    BY <1>7, <1>8, <2>1 DEF LateCommit
  <2>3. requests' \in [Requests -> Checkout \union Hook \union {Idle}]
    BY <1>0, <1>8 DEF LateCommit
  <2> QED
    BY <1>8, <2>2, <2>3 DEF LateCommit, TypeOK, stripe
<1>9. ASSUME NEW r \in Requests, NEW e \in events, HookRead(r, e) PROVE TypeOK'
  <2>1. PICK o \in Orgs :
          Update(r, [step |-> "flush", org |-> o, event |-> e,
                     old |-> orgs[o], new |-> AfterEvent(orgs[o], e)])
    BY <1>9 DEF HookRead
  <2>2. e \in Event /\ orgs[o] \in OrgRow
    BY DEF TypeOK
  <2>3. AfterEvent(orgs[o], e) \in OrgRow
    BY <2>2, EventRow
  <2>4. [step |-> "flush", org |-> o, event |-> e,
         old |-> orgs[o], new |-> AfterEvent(orgs[o], e)] \in Hook
    BY <2>2, <2>3 DEF Hook
  <2>5. requests' \in [Requests -> Checkout \union Hook \union {Idle}]
    BY <2>1, <2>4 DEF Update, TypeOK
  <2>6. loop' \in [Processes -> Requests \union {None}]
    BY <1>9 DEF HookRead, TypeOK
  <2> QED
    BY <1>9, <2>5, <2>6 DEF HookRead, TypeOK, stripe
<1>10. ASSUME NEW r \in Requests, NEW e \in events, HookIgnores(r, e) PROVE TypeOK'
  BY <1>10 DEF HookIgnores, Answered, TypeOK
<1>11. ASSUME NEW r \in Requests, Flush(r) PROVE TypeOK'
  <2>1. requests' \in [Requests -> Checkout \union Hook \union {Idle}]
    BY <1>5, <1>11 DEF Flush
  <2>2. loop' \in [Processes -> Requests \union {None}]
    BY <1>11 DEF Flush, Freed, TypeOK
  <2> QED
    BY <1>11, <2>1, <2>2 DEF Flush, TypeOK, stripe
<1>12. ASSUME NEW r \in Requests, Commit(r) PROVE TypeOK'
  <2>1. requests[r] \in Checkout \union Hook
    BY <1>12, HasStep DEF Commit
  <2>2. orgs' \in [Orgs -> OrgRow]
    BY <1>7, <1>12, <2>1 DEF Commit
  <2>3. requests' \in [Requests -> Checkout \union Hook \union {Idle}]
    BY <1>0, <1>12 DEF Commit
  <2>4. events' \subseteq Event
    BY <1>12 DEF Commit, Answered, TypeOK
  <2> QED
    BY <1>12, <2>2, <2>3, <2>4 DEF Commit, TypeOK
<1>13. ASSUME NEW s \in Subs, StripeActs(s) PROVE TypeOK'
  BY <1>13, StripeTells, TypeTell
<1>14. ASSUME NEW p \in Processes, Crash(p) PROVE TypeOK'
  BY <1>14, ProcessAssumption DEF Crash, TypeOK, stripe
<1>15. ASSUME NEW p \in Processes, NEW o \in Orgs, OpenPortal(p, o) PROVE TypeOK'
  BY <1>15 DEF OpenPortal, TypeOK, stripe
<1>16. CASE UNCHANGED vars
  BY <1>16 DEF vars, stripe, TypeOK
<1> QED
  BY <1>1, <1>2, <1>3, <1>4, <1>6, <1>8, <1>9, <1>10, <1>11, <1>12, <1>13, <1>14, <1>15, <1>16
     DEF Next, CallsStripe, StripeActs

LEMMA SessionNext == TypeOK /\ SessionHasCustomer /\ [Next]_vars => SessionHasCustomer'
<1> SUFFICES ASSUME TypeOK, SessionHasCustomer, [Next]_vars,
                    NEW r \in Requests, requests'[r].step = "session"
             PROVE  requests'[r].new.customer # None
  BY DEF SessionHasCustomer
<1>0. Idle.step # "session" /\ None \notin Customers
  BY ProcessAssumption DEF Idle
<1>1. ASSUME NEW q \in Requests, NEW job, requests' = [requests EXCEPT ![q] = job],
             job.step = "session" => job.new.customer # None
      PROVE  requests'[r].new.customer # None
  BY <1>1 DEF TypeOK, SessionHasCustomer
<1>2. ASSUME NEW q \in Requests, NEW o \in Orgs, NEW plan \in Plans, CheckoutRead(q, o, plan)
      PROVE  requests'[r].new.customer # None
  <2> DEFINE begun == [step |-> IF orgs[o].customer = None THEN "customer" ELSE "session",
                       org |-> o, plan |-> plan, sub |-> None,
                       old |-> orgs[o], new |-> orgs[o]]
  <2>1. begun.step = "session" => begun.new.customer # None
    OBVIOUS
  <2>2. requests' = [requests EXCEPT ![q] = begun]
    BY <1>2 DEF CheckoutRead, Update
  <2>3. PICK job : job = begun
    OBVIOUS
  <2> QED
    BY <1>1, <2>1, <2>2, <2>3
<1>3. ASSUME NEW q \in Requests, CreateCustomer(q) PROVE requests'[r].new.customer # None
  <2>1. requests[q] \in Checkout
    BY <1>3, OnlyCheckouts DEF CreateCustomer
  <2>2. PICK c \in Customers :
          Update(q, [requests[q] EXCEPT !.step = "session",
                       !.new = AfterCheckout(requests[q].new, c, requests[q].plan)])
    BY <1>3 DEF CreateCustomer
  <2>3. AfterCheckout(requests[q].new, c, requests[q].plan).customer = c
    BY <2>1 DEF AfterCheckout, Checkout, OrgRow
  <2>4. PICK job : job = [requests[q] EXCEPT !.step = "session",
                            !.new = AfterCheckout(requests[q].new, c, requests[q].plan)]
    OBVIOUS
  <2>5. job.new.customer = c
    BY <2>1, <2>3, <2>4 DEF Checkout
  <2> QED
    BY <1>0, <1>1, <2>2, <2>4, <2>5 DEF Update
<1>4. ASSUME NEW q \in Requests, NEW step \in {"late_commit", "commit"}, requests[q].step # "idle",
             Goto(q, step)
      PROVE  requests'[r].new.customer # None
  <2>1. requests[q] \in Checkout \union Hook
    BY <1>4, HasStep
  <2>2. PICK job : job = [requests[q] EXCEPT !.step = step]
    OBVIOUS
  <2>3. job.step = step
    BY <2>1, <2>2 DEF Checkout, Hook
  <2> QED
    BY <1>1, <1>4, <2>2, <2>3 DEF Goto
<1>5. ASSUME NEW q \in Requests, Update(q, Idle) PROVE requests'[r].new.customer # None
  BY <1>0, <1>1, <1>5 DEF Update
<1>6. ASSUME NEW q \in Requests, OpenSession(q) PROVE requests'[r].new.customer # None
  <2>1. requests[q] \in Checkout
    BY <1>6, OnlyCheckouts DEF OpenSession
  <2>2. PICK s \in Subs : Update(q, [requests[q] EXCEPT !.step = "flush", !.sub = s])
    BY <1>6 DEF OpenSession
  <2>3. PICK job : job = [requests[q] EXCEPT !.step = "flush", !.sub = s]
    OBVIOUS
  <2>4. job.step = "flush"
    BY <2>1, <2>3 DEF Checkout
  <2> QED
    BY <1>1, <2>2, <2>3, <2>4 DEF Update
<1>7. ASSUME NEW q \in Requests, NEW e \in events, HookRead(q, e)
      PROVE  requests'[r].new.customer # None
  <2>1. PICK o \in Orgs :
          Update(q, [step |-> "flush", org |-> o, event |-> e,
                     old |-> orgs[o], new |-> AfterEvent(orgs[o], e)])
    BY <1>7 DEF HookRead
  <2>2. PICK job : job = [step |-> "flush", org |-> o, event |-> e,
                          old |-> orgs[o], new |-> AfterEvent(orgs[o], e)]
    OBVIOUS
  <2> QED
    BY <1>1, <2>1, <2>2 DEF Update
<1>8. ASSUME NEW p \in Processes, Crash(p) PROVE requests'[r].new.customer # None
  BY <1>0, <1>8 DEF Crash, SessionHasCustomer
<1>9. CASE UNCHANGED requests
  BY <1>9 DEF SessionHasCustomer
<1> QED
  BY <1>2, <1>3, <1>4, <1>5, <1>6, <1>7, <1>8, <1>9
     DEF Next, CallsStripe, NoCustomer, NoSession, LateCommit, HookIgnores, Flush, Commit,
         Pay, Lapse, Cancel, ChangePlan, Tell, OpenPortal, vars

\* Every reachable state has the types of the columns, sessions and events.
THEOREM TypeCorrect == Spec => [](TypeOK /\ SessionHasCustomer)
<1>1. Init => TypeOK /\ SessionHasCustomer
  BY TypeInit DEF Init, SessionHasCustomer, Idle
<1>2. TypeOK /\ SessionHasCustomer /\ [Next]_vars => (TypeOK /\ SessionHasCustomer)'
  BY TypeNext, SessionNext
<1> QED
  BY <1>1, <1>2, PTL DEF Spec

------------------------------------------------------------------------------
(* Whose customer, whose subscription, whose money.  Stripe never gives a    *)
(* customer or a subscription to another org and never takes a payment back, *)
(* so a request may still write what was true when it read.                  *)

Paid(o, plan) == \E s \in Subs : subs[s] # Unused /\ subs[s].org = o /\ plan \in subs[s].had

\* The columns of a row that is written, or to be written, for an org.
Belongs(o, row) ==
  /\ row.customer # None => customers[row.customer] = o
  /\ row.subscription # None =>
       subs[row.subscription] # Unused /\ subs[row.subscription].org = o
  /\ row.tier # "trial" => Paid(o, row.tier)

RowsBelong == \A o \in Orgs : Belongs(o, orgs[o])

WritesBelong ==
  \A r \in Requests : requests[r] # Idle => Belongs(requests[r].org, requests[r].new)

SubsBelong == \A s \in Subs : subs[s] # Unused => customers[subs[s].customer] = subs[s].org

EventsBelong ==
  \A e \in events :
    /\ customers[e.customer] = e.org
    /\ subs[e.sub] # Unused /\ subs[e.sub].org = e.org
    /\ e.tier \in subs[e.sub].had

BInv == /\ TypeOK /\ SessionHasCustomer
        /\ RowsBelong /\ WritesBelong /\ SubsBelong /\ EventsBelong

StripeKeeps ==
  /\ \A c \in Customers : customers[c] # None => customers'[c] = customers[c]
  /\ \A s \in Subs : subs[s] # Unused =>
       /\ subs'[s] # Unused
       /\ subs'[s].org = subs[s].org /\ subs'[s].customer = subs[s].customer
       /\ subs[s].had \subseteq subs'[s].had

LEMMA SessionInUse ==
  ASSUME NEW session \in Session
  PROVE  session # Unused /\ session.org \in Orgs /\ session.customer \in Customers
  BY DEF Session, Unused

\* A session or an event that Stripe adds is of the customer and the org it is
\* for.
LEMMA TellKeeps ==
  ASSUME BInv, NEW s \in Subs, subs[s] # Unused,
         NEW type \in {"completed", "updated", "deleted"}, NEW plan \in Plans,
         NEW status \in Statuses,
         Tell(s, type, plan, status)
  PROVE  StripeKeeps /\ SubsBelong' /\ EventsBelong'
<1>1. subs[s] \in Session
  BY DEF BInv, TypeOK
<1>2. \A t \in Subs \ {s} : subs'[t] = subs[t]
  BY DEF Tell, BInv, TypeOK
<1>3. /\ subs'[s].org = subs[s].org /\ subs'[s].customer = subs[s].customer
      /\ subs'[s].had = subs[s].had \union {plan} /\ subs'[s].status = status
  <2>1. subs'[s] = [subs[s] EXCEPT !.status = status, !.tier = plan,
                                   !.had = subs[s].had \union {plan}]
    BY DEF Tell, BInv, TypeOK
  <2> QED
    BY <1>1, <2>1 DEF Session
<1>4. subs'[s] # Unused
  BY <1>3 DEF Unused, Statuses
<1>5. UNCHANGED customers
  BY DEF Tell
<1>6. StripeKeeps
  BY <1>2, <1>3, <1>4, <1>5 DEF StripeKeeps
<1>7. SubsBelong'
  BY <1>2, <1>3, <1>5 DEF BInv, SubsBelong
<1>8. EventsBelong'
  <2> SUFFICES ASSUME NEW e \in events'
               PROVE  /\ customers'[e.customer] = e.org
                      /\ subs'[e.sub] # Unused /\ subs'[e.sub].org = e.org
                      /\ e.tier \in subs'[e.sub].had
    BY DEF EventsBelong
  <2>1. CASE e \in events
    <3>1. e.sub \in Subs
      BY <2>1 DEF BInv, TypeOK, Event
    <3> QED
      BY <1>5, <1>6, <2>1, <3>1 DEF BInv, EventsBelong, StripeKeeps
  <2>2. CASE e \notin events
    <3>1. e.sub = s /\ e.org = subs[s].org /\ e.customer = subs[s].customer /\ e.tier = plan
      BY <2>2 DEF Tell
    <3> QED
      BY <1>3, <1>4, <1>5, <3>1 DEF BInv, SubsBelong
  <2> QED
    BY <2>1, <2>2
<1> QED
  BY <1>6, <1>7, <1>8

LEMMA StripeStep ==
  ASSUME BInv, [Next]_vars
  PROVE  StripeKeeps /\ SubsBelong' /\ EventsBelong'
<1>1. CASE UNCHANGED <<customers, subs>> /\ events' \subseteq events
  BY <1>1 DEF BInv, StripeKeeps, SubsBelong, EventsBelong
<1>2. ASSUME NEW s \in Subs, StripeActs(s) PROVE StripeKeeps /\ SubsBelong' /\ EventsBelong'
  BY <1>2, StripeTells, TellKeeps DEF BInv
<1>3. ASSUME NEW r \in Requests, CreateCustomer(r)
      PROVE  StripeKeeps /\ SubsBelong' /\ EventsBelong'
  <2>1. PICK c \in Customers :
          customers[c] = None /\ customers' = [customers EXCEPT ![c] = requests[r].org]
    BY <1>3 DEF CreateCustomer
  <2>2. UNCHANGED <<subs, events>>
    BY <1>3 DEF CreateCustomer
  <2>3. \A d \in Customers : customers[d] # None => customers'[d] = customers[d]
    BY <2>1 DEF BInv, TypeOK
  <2>4. \A s \in Subs : subs[s] # Unused =>
          subs[s].customer \in Customers /\ customers[subs[s].customer] # None
    <3> SUFFICES ASSUME NEW s \in Subs, subs[s] # Unused
                 PROVE  subs[s].customer \in Customers /\ customers[subs[s].customer] # None
      OBVIOUS
    <3>1. subs[s].org \in Orgs /\ subs[s].customer \in Customers
      BY SessionInUse DEF BInv, TypeOK
    <3> QED
      BY <3>1, ProcessAssumption DEF BInv, SubsBelong
  <2>5. \A e \in events : e.customer \in Customers /\ customers[e.customer] # None
    BY ProcessAssumption DEF BInv, EventsBelong, TypeOK, Event
  <2> QED
    BY <2>2, <2>3, <2>4, <2>5 DEF BInv, StripeKeeps, SubsBelong, EventsBelong
<1>4. ASSUME NEW r \in Requests, OpenSession(r)
      PROVE  StripeKeeps /\ SubsBelong' /\ EventsBelong'
  <2>1. requests[r] \in Checkout
    BY <1>4, OnlyCheckouts DEF OpenSession, BInv
  <2>2. PICK s \in Subs :
          /\ subs[s] = Unused
          /\ subs' = [subs EXCEPT ![s] =
               [org |-> requests[r].org, customer |-> requests[r].new.customer,
                tier |-> requests[r].plan, status |-> "open", had |-> {}]]
    BY <1>4 DEF OpenSession
  <2>3. customers[requests[r].new.customer] = requests[r].org
    <3>1. requests[r] # Idle /\ requests[r].new.customer # None
      BY <1>4, <2>1, NotIdle DEF OpenSession, BInv, SessionHasCustomer
    <3> QED
      BY <3>1 DEF BInv, WritesBelong, Belongs
  <2>4. \A t \in Subs \ {s} : subs'[t] = subs[t]
    BY <2>2 DEF BInv, TypeOK
  <2>5. subs'[s].org = requests[r].org /\ subs'[s].customer = requests[r].new.customer
    BY <2>2 DEF BInv, TypeOK
  <2>6. UNCHANGED <<customers, events>>
    BY <1>4 DEF OpenSession
  <2>7. StripeKeeps
    BY <2>2, <2>4, <2>6 DEF StripeKeeps
  <2>8. SubsBelong'
    BY <2>3, <2>4, <2>5, <2>6 DEF BInv, SubsBelong
  <2>9. EventsBelong'
    <3>1. \A e \in events : e.sub \in Subs /\ e.sub # s
      BY <2>2 DEF BInv, TypeOK, Event, EventsBelong
    <3> QED
      BY <2>4, <2>6, <3>1 DEF BInv, EventsBelong
  <2> QED
    BY <2>7, <2>8, <2>9
<1> QED
  BY <1>1, <1>2, <1>3, <1>4
     DEF Next, CheckoutRead, CallsStripe, NoCustomer, NoSession, LateCommit, HookRead,
         HookIgnores, Answered, Flush, Commit, StripeActs, OpenPortal, Crash, stripe, vars

\* What belongs to an org keeps doing so.
LEMMA BelongsKept ==
  ASSUME StripeKeeps, NEW o \in Orgs, NEW row \in OrgRow, Belongs(o, row)
  PROVE  Belongs(o, row)'
<1>1. row.customer # None => customers'[row.customer] = o
  BY ProcessAssumption DEF Belongs, StripeKeeps, OrgRow
<1>2. row.subscription # None =>
        subs'[row.subscription] # Unused /\ subs'[row.subscription].org = o
  BY DEF Belongs, StripeKeeps, OrgRow
<1>3. row.tier # "trial" => Paid(o, row.tier)'
  BY DEF Belongs, StripeKeeps, Paid
<1> QED
  BY <1>1, <1>2, <1>3 DEF Belongs

LEMMA WrittenBelongs ==
  ASSUME NEW o \in Orgs, NEW job \in Checkout \union Hook, NEW row \in OrgRow,
         Belongs(o, job.new), Belongs(o, row)
  PROVE  Belongs(o, Written(job, row))
<1>1. /\ Written(job, row).tier \in {row.tier, job.new.tier}
      /\ Written(job, row).customer \in {row.customer, job.new.customer}
      /\ Written(job, row).subscription \in {row.subscription, job.new.subscription}
  BY DEF Written
<1> QED
  BY <1>1 DEF Belongs

LEMMA RowsNext ==
  ASSUME BInv, [Next]_vars
  PROVE  RowsBelong'
<1>1. \A o \in Orgs : orgs[o] \in OrgRow /\ Belongs(o, orgs[o])
  BY DEF BInv, TypeOK, RowsBelong
<1>2. StripeKeeps
  BY StripeStep
<1>3. CASE UNCHANGED orgs
  <2> SUFFICES ASSUME NEW o \in Orgs PROVE Belongs(o, orgs[o])'
    BY DEF RowsBelong
  <2>1. PICK row : row = orgs[o]
    OBVIOUS
  <2>2. Belongs(o, row)'
    BY <1>1, <1>2, <2>1, BelongsKept
  <2> QED
    BY <1>3, <2>1, <2>2 DEF Belongs
<1>4. ASSUME NEW r \in Requests, requests[r].step \in {"late_commit", "commit"},
             orgs' = [orgs EXCEPT ![requests[r].org] = Written(requests[r], orgs[requests[r].org])]
      PROVE  RowsBelong'
  <2> SUFFICES ASSUME NEW o \in Orgs PROVE Belongs(o, orgs[o])'
    BY DEF RowsBelong
  <2>1. /\ requests[r] \in Checkout \union Hook /\ requests[r].org \in Orgs
        /\ Belongs(requests[r].org, requests[r].new)
    BY <1>4, HasStep, NotIdle DEF BInv, WritesBelong
  <2>2. PICK row \in OrgRow : row = orgs'[o] /\ Belongs(o, row)
    <3>1. CASE o = requests[r].org
      BY <1>1, <1>4, <2>1, <3>1, WrittenBelongs, WrittenRow DEF BInv, TypeOK
    <3>2. CASE o # requests[r].org
      BY <1>1, <1>4, <3>2 DEF BInv, TypeOK
    <3> QED
      BY <3>1, <3>2
  <2>3. Belongs(o, row)'
    BY <1>2, <2>2, BelongsKept
  <2> QED
    BY <2>2, <2>3 DEF Belongs
<1> QED
  BY <1>3, <1>4
     DEF Next, CheckoutRead, CallsStripe, CreateCustomer, NoCustomer, OpenSession, NoSession,
         LateCommit, HookRead, HookIgnores, Flush, Commit, Pay, Lapse, Cancel, ChangePlan, Tell,
         OpenPortal, Crash, stripe, vars

\* What an event makes of a row belongs to the org whose row it is: the org of
\* the checkout, or the one that has the event's customer.
LEMMA EventBelongs ==
  ASSUME BInv, NEW e \in events, NEW o \in Orgs, Concerns(e, o)
  PROVE  Belongs(o, AfterEvent(orgs[o], e))
<1>1. e \in Event /\ orgs[o] \in OrgRow /\ Belongs(o, orgs[o])
  BY DEF BInv, TypeOK, RowsBelong
<1>2. e.customer \in Customers /\ e.sub \in Subs /\ e.type \in {"completed", "updated", "deleted"}
  BY <1>1 DEF Event
<1>3. /\ customers[e.customer] = e.org
      /\ subs[e.sub] # Unused /\ subs[e.sub].org = e.org
      /\ e.tier \in subs[e.sub].had
  BY DEF BInv, EventsBelong
<1>4. e.org = o
  <2>1. CASE e.type = "completed"
    BY <2>1 DEF Concerns
  <2>2. CASE e.type # "completed"
    <3>1. orgs[o].customer = e.customer /\ e.customer # None
      BY <1>2, <2>2, ProcessAssumption DEF Concerns
    <3> QED
      BY <1>1, <1>3, <3>1 DEF Belongs
  <2> QED
    BY <2>1, <2>2
<1>5. Paid(o, e.tier)
  BY <1>2, <1>3, <1>4 DEF Paid
<1>6. CASE e.type = "completed"
  <2>1. AfterEvent(orgs[o], e) =
          [tier |-> e.tier, customer |-> e.customer, subscription |-> e.sub]
    BY <1>6 DEF AfterEvent
  <2> QED
    BY <1>3, <1>4, <1>5, <2>1 DEF Belongs
<1>7. CASE e.type = "updated"
  <2>1. PICK tier \in {"trial", e.tier} : AfterEvent(orgs[o], e) = [orgs[o] EXCEPT !.tier = tier]
    BY <1>7 DEF AfterEvent
  <2>2. /\ [orgs[o] EXCEPT !.tier = tier].tier = tier
        /\ [orgs[o] EXCEPT !.tier = tier].customer = orgs[o].customer
        /\ [orgs[o] EXCEPT !.tier = tier].subscription = orgs[o].subscription
    BY <1>1 DEF OrgRow
  <2> QED
    BY <1>1, <1>5, <2>1, <2>2 DEF Belongs
<1>8. CASE e.type = "deleted"
  <2>1. AfterEvent(orgs[o], e) = [orgs[o] EXCEPT !.tier = "trial", !.subscription = None]
    BY <1>8 DEF AfterEvent
  <2>2. /\ [orgs[o] EXCEPT !.tier = "trial", !.subscription = None].tier = "trial"
        /\ [orgs[o] EXCEPT !.tier = "trial", !.subscription = None].customer = orgs[o].customer
        /\ [orgs[o] EXCEPT !.tier = "trial", !.subscription = None].subscription = None
    BY <1>1 DEF OrgRow
  <2> QED
    BY <1>1, <2>1, <2>2 DEF Belongs
<1> QED
  BY <1>2, <1>6, <1>7, <1>8

LEMMA WritesNext ==
  ASSUME BInv, [Next]_vars
  PROVE  WritesBelong'
<1>1. StripeKeeps
  BY StripeStep
<1>2. ASSUME NEW r \in Requests, requests[r] # Idle, NEW o, NEW row,
             o = requests[r].org, row = requests[r].new
      PROVE  o \in Orgs /\ row \in OrgRow /\ Belongs(o, row) /\ Belongs(o, row)'
  <2>1. requests[r] \in Checkout \union Hook
    BY <1>2 DEF BInv, TypeOK
  <2>2. o \in Orgs /\ row \in OrgRow /\ Belongs(o, row)
    BY <1>2, <2>1, NotIdle DEF BInv, WritesBelong
  <2> QED
    BY <1>1, <2>2, BelongsKept
<1>3. ASSUME \A r \in Requests :
               \/ requests'[r] = Idle
               \/ /\ requests[r] # Idle
                  /\ requests'[r].org = requests[r].org /\ requests'[r].new = requests[r].new
      PROVE  WritesBelong'
  <2> SUFFICES ASSUME NEW r \in Requests, requests'[r] # Idle
               PROVE  Belongs(requests[r].org, requests[r].new)'
    BY DEF WritesBelong
  <2>1. PICK o, row : o = requests[r].org /\ row = requests[r].new
    OBVIOUS
  <2>2. Belongs(o, row)' /\ requests'[r].org = o /\ requests'[r].new = row
    BY <1>2, <1>3, <2>1
  <2> QED
    BY <2>2 DEF Belongs
<1>4. ASSUME NEW q \in Requests, NEW o, NEW row,
             \A r \in Requests \ {q} : requests'[r] = requests[r],
             requests'[q].org = o, requests'[q].new = row, Belongs(o, row)'
      PROVE  WritesBelong'
  <2> SUFFICES ASSUME NEW r \in Requests, requests'[r] # Idle
               PROVE  Belongs(requests[r].org, requests[r].new)'
    BY DEF WritesBelong
  <2>1. CASE r = q
    BY <1>4, <2>1 DEF Belongs
  <2>2. CASE r # q
    <3>1. PICK p, old : p = requests[r].org /\ old = requests[r].new
      OBVIOUS
    <3>2. Belongs(p, old)' /\ requests'[r].org = p /\ requests'[r].new = old
      BY <1>2, <1>4, <2>2, <3>1
    <3> QED
      BY <3>2 DEF Belongs
  <2> QED
    BY <2>1, <2>2
<1>5. ASSUME NEW r \in Requests, NEW o \in Orgs, NEW plan \in Plans, CheckoutRead(r, o, plan)
      PROVE  WritesBelong'
  <2>1. PICK row \in OrgRow : row = orgs[o] /\ Belongs(o, row)
    BY DEF BInv, TypeOK, RowsBelong
  <2>2. requests'[r].org = o /\ requests'[r].new = row
    BY <1>5, <2>1 DEF CheckoutRead, Update, BInv, TypeOK
  <2>3. \A q \in Requests \ {r} : requests'[q] = requests[q]
    BY <1>5 DEF CheckoutRead, Update, BInv, TypeOK
  <2> QED
    BY <1>1, <1>4, <2>1, <2>2, <2>3, BelongsKept
<1>6. ASSUME NEW r \in Requests, NEW e \in events, HookRead(r, e) PROVE WritesBelong'
  <2>1. PICK o \in Orgs :
          /\ Concerns(e, o)
          /\ Update(r, [step |-> "flush", org |-> o, event |-> e,
                        old |-> orgs[o], new |-> AfterEvent(orgs[o], e)])
    BY <1>6 DEF HookRead
  <2>2. PICK row \in OrgRow : row = AfterEvent(orgs[o], e) /\ Belongs(o, row)
    BY <2>1, EventBelongs, EventRow DEF BInv, TypeOK
  <2>3. requests'[r].org = o /\ requests'[r].new = row
    BY <2>1, <2>2 DEF Update, BInv, TypeOK
  <2>4. \A q \in Requests \ {r} : requests'[q] = requests[q]
    BY <2>1 DEF Update, BInv, TypeOK
  <2> QED
    BY <1>1, <1>4, <2>2, <2>3, <2>4, BelongsKept
<1>7. ASSUME NEW r \in Requests, CreateCustomer(r) PROVE WritesBelong'
  <2>1. requests[r] \in Checkout /\ requests[r] # Idle
    BY <1>7, OnlyCheckouts, NotIdle DEF CreateCustomer, BInv
  <2>2. PICK c \in Customers :
          /\ customers[c] = None
          /\ customers' = [customers EXCEPT ![c] = requests[r].org]
          /\ Update(r, [requests[r] EXCEPT !.step = "session",
                          !.new = AfterCheckout(requests[r].new, c, requests[r].plan)])
    BY <1>7 DEF CreateCustomer
  <2>3. PICK o, old : o = requests[r].org /\ old = requests[r].new
    OBVIOUS
  <2>4. o \in Orgs /\ old \in OrgRow /\ Belongs(o, old)'
    BY <1>2, <2>1, <2>3
  <2>5. PICK row : row = [old EXCEPT !.customer = c]
    OBVIOUS
  <2>6. row.customer = c /\ row.subscription = old.subscription /\ row.tier = old.tier
    BY <2>4, <2>5 DEF OrgRow
  <2>7. customers'[c] = o
    BY <2>2, <2>3 DEF BInv, TypeOK
  <2>8. Belongs(o, row)'
    BY <2>4, <2>6, <2>7 DEF Belongs
  <2>9. requests' = [requests EXCEPT ![r] = [requests[r] EXCEPT !.step = "session", !.new = row]]
    BY <2>2, <2>3, <2>5 DEF Update, AfterCheckout
  <2>10. requests'[r].org = o /\ requests'[r].new = row
    BY <2>1, <2>3, <2>9 DEF Checkout, BInv, TypeOK
  <2>11. \A q \in Requests \ {r} : requests'[q] = requests[q]
    BY <2>9 DEF BInv, TypeOK
  <2> QED
    BY <1>4, <2>8, <2>10, <2>11
<1>8. ASSUME NEW r \in Requests, OpenSession(r) PROVE WritesBelong'
  <2>1. requests[r] \in Checkout /\ requests[r] # Idle
    BY <1>8, OnlyCheckouts, NotIdle DEF OpenSession, BInv
  <2>2. PICK s \in Subs :
          requests' = [requests EXCEPT ![r] = [requests[r] EXCEPT !.step = "flush", !.sub = s]]
    BY <1>8 DEF OpenSession, Update
  <2>3. requests'[r].org = requests[r].org /\ requests'[r].new = requests[r].new
    BY <2>1, <2>2 DEF Checkout, BInv, TypeOK
  <2>4. \A q \in Requests \ {r} : requests'[q] = requests[q]
    BY <2>2 DEF BInv, TypeOK
  <2> QED
    BY <1>3, <2>1, <2>3, <2>4, Zenon DEF Idle
<1>9. ASSUME NEW r \in Requests, NEW step \in {"late_commit", "commit"},
             requests[r].step # "idle", Goto(r, step)
      PROVE  WritesBelong'
  <2>1. requests[r] \in Checkout \union Hook /\ requests[r] # Idle
    BY <1>9, HasStep, NotIdle DEF BInv
  <2>2. requests' = [requests EXCEPT ![r] = [requests[r] EXCEPT !.step = step]]
    BY <1>9 DEF Goto
  <2>3. requests'[r].org = requests[r].org /\ requests'[r].new = requests[r].new
    BY <2>1, <2>2 DEF Checkout, Hook, BInv, TypeOK
  <2>4. \A q \in Requests \ {r} : requests'[q] = requests[q]
    BY <2>2 DEF BInv, TypeOK
  <2> QED
    BY <1>3, <2>1, <2>3, <2>4, Zenon DEF Idle
<1>10. ASSUME \A r \in Requests : requests'[r] \in {requests[r], Idle} PROVE WritesBelong'
  BY <1>3, <1>10
<1>11. ASSUME NEW r \in Requests, Update(r, Idle) PROVE WritesBelong'
  BY <1>10, <1>11 DEF Update, BInv, TypeOK
<1>12. ASSUME NEW p \in Processes, Crash(p) PROVE WritesBelong'
  BY <1>10, <1>12 DEF Crash
<1>13. CASE UNCHANGED requests
  BY <1>10, <1>13
<1> QED
  BY <1>5, <1>6, <1>7, <1>8, <1>9, <1>11, <1>12, <1>13
     DEF Next, CallsStripe, NoCustomer, NoSession, LateCommit, HookIgnores, Flush, Commit,
         Pay, Lapse, Cancel, ChangePlan, Tell, OpenPortal, vars

LEMMA BInvInit == Init => BInv
<1> SUFFICES ASSUME Init PROVE BInv
  OBVIOUS
<1>1. TypeOK /\ SessionHasCustomer
  BY TypeInit DEF Init, SessionHasCustomer, Idle
<1>2. RowsBelong
  BY DEF Init, RowsBelong, Belongs
<1>3. WritesBelong /\ SubsBelong /\ EventsBelong
  BY DEF Init, WritesBelong, SubsBelong, EventsBelong
<1> QED
  BY <1>1, <1>2, <1>3 DEF BInv

LEMMA BInvNext == BInv /\ [Next]_vars => BInv'
  BY TypeNext, SessionNext, StripeStep, RowsNext, WritesNext DEF BInv

\* No event, checkout or late commit puts another org's customer or subscription
\* into a row, also when events are repeated, reordered or lost
\* (billing_webhook's look-up by customer).
THEOREM CustomersApart == Spec => []CustomersKeptApart
<1>1. BInv => CustomersKeptApart
  BY DEF BInv, RowsBelong, Belongs, CustomersKeptApart
<1> QED
  BY <1>1, BInvInit, BInvNext, PTL DEF Spec

\* No org gets the limits of a plan it never had for.
THEOREM TierPaid == Spec => []TierWasSubscribed
<1>1. BInv => TierWasSubscribed
  BY DEF BInv, RowsBelong, Belongs, Paid, TierWasSubscribed
<1> QED
  BY <1>1, BInvInit, BInvNext, PTL DEF Spec

------------------------------------------------------------------------------
(* Plans of the orgs that have one subscription at a time and their events   *)
(* in order.  What is still to come decides the plan: the row of an org with *)
(* no event left, and the latest event of one that has some, say what Stripe *)
(* has; the request at work, of which there is one at most, will write that  *)
(* row or the effect of the first event, and loaded the row as it is.        *)

EventsOf(o) == {e \in events : e.org = o}

SubOf(s, o) == subs[s] # Unused /\ subs[s].org = o

\* A subscription that may still change the org's plan.
Current(s, o) ==
  SubOf(s, o) /\ (subs[s].status # "canceled" \/ \E e \in EventsOf(o) : e.sub = s)

EventsNumbered ==
  \A e \in events :
    /\ e.n <= sent /\ e.customer = subs[e.sub].customer /\ subs[e.sub].status # "open"
    /\ \A d \in events : /\ d.n = e.n => d = e
                         /\ e.type = "completed" /\ d.sub = e.sub => e.n <= d.n

HooksOwn == \A r \in Requests : requests[r] \in Hook => requests[r].event.org = requests[r].org

For(r, o) == requests[r] # Idle /\ requests[r].org = o

OneRequest(o) ==
  \A r \in Requests : For(r, o) =>
    requests[r].old = orgs[o] /\ \A q \in Requests : For(q, o) => q = r

\* A job that applies the first event of the org.
Applies(job, o) ==
  /\ job.event \in EventsOf(o) /\ \A d \in EventsOf(o) : job.event.n <= d.n
  /\ job.new = AfterEvent(orgs[o], job.event)

\* A checkout of an org that has no subscription but the one it opens.
Fresh(job, o) ==
  /\ EventsOf(o) = {}
  /\ job.new.tier = orgs[o].tier
  /\ job.step \in {"customer", "session", "late_commit"} => job.sub = None
  /\ \A s \in Subs : Current(s, o) => job.sub = s /\ subs[s].status = "open"

RequestsApply(o) ==
  \A r \in Requests : For(r, o) =>
    /\ requests[r] \in Hook => Applies(requests[r], o)
    /\ requests[r] \in Checkout => Fresh(requests[r], o)

OneSub(o) == \A s, t \in Subs : Current(s, o) /\ Current(t, o) => s = t

\* The row has the customer of the subscription, or the first event gives it.
CustomerKnown(o) ==
  \A s \in Subs : Current(s, o) /\ subs[s].status # "open" =>
    \/ orgs[o].customer = subs[s].customer
    \/ \E e \in EventsOf(o) : e.type = "completed" /\ e.sub = s

TierAfter(e) ==
  IF e.type = "deleted" \/ (e.type = "updated" /\ e.status = "unpaid") THEN "trial" ELSE e.tier

PlanIs(o, tier) ==
  /\ Running(o) = {} => tier = "trial"
  /\ \A s \in Running(o) : tier = subs[s].tier

PlanKnown(o) ==
  /\ EventsOf(o) = {} => PlanIs(o, orgs[o].tier)
  /\ \A e \in EventsOf(o) : (\A d \in EventsOf(o) : d.n <= e.n) => PlanIs(o, TierAfter(e))

OrgInv(o) ==
  OneRequest(o) /\ RequestsApply(o) /\ OneSub(o) /\ CustomerKnown(o) /\ PlanKnown(o)

PlanInv == EventsNumbered /\ HooksOwn /\ \A o \in Patient \intersect InOrder : OrgInv(o)

LEMMA Kinds ==
  /\ \A job \in Checkout : "event" \notin DOMAIN job /\ job # Idle /\ job \notin Hook
  /\ \A job \in Hook : "event" \in DOMAIN job /\ job # Idle /\ job \notin Checkout
  BY DEF Checkout, Hook, Idle

LEMMA HookKind ==
  ASSUME TypeOK, NEW r \in Requests
  PROVE  /\ IsHook(r) <=> requests[r] \in Hook
         /\ requests[r] # Idle => requests[r] \in Checkout \union Hook
  BY Kinds DEF IsHook, TypeOK

LEMMA EventTier ==
  ASSUME NEW row \in OrgRow, NEW e \in Event
  PROVE  /\ AfterEvent(row, e).tier = TierAfter(e)
         /\ AfterEvent(row, e).customer =
              IF e.type = "completed" THEN e.customer ELSE row.customer
<1>1. CASE e.type = "completed"
  BY <1>1 DEF AfterEvent, TierAfter
<1>2. CASE e.type = "updated"
  BY <1>2 DEF AfterEvent, TierAfter, OrgRow
<1>3. CASE e.type = "deleted"
  BY <1>3 DEF AfterEvent, TierAfter, OrgRow
<1> QED
  BY <1>1, <1>2, <1>3 DEF Event

\* A session that loaded the row as it is leaves the row it means.
LEMMA WrittenWhole ==
  ASSUME NEW job \in Checkout \union Hook
  PROVE  Written(job, job.old) = job.new
<1>1. job.old \in OrgRow /\ job.new \in OrgRow
  BY NotIdle
<1>2. Written(job, job.old) = [tier |-> job.new.tier, customer |-> job.new.customer,
                               subscription |-> job.new.subscription]
  BY DEF Written
<1> QED
  BY <1>1, <1>2 DEF OrgRow

LEMMA EventOrg ==
  ASSUME BInv, NEW e \in events, NEW o \in Orgs, Concerns(e, o)
  PROVE  e.org = o
<1>1. CASE e.type = "completed"
  BY <1>1 DEF Concerns
<1>2. CASE e.type # "completed"
  <2>1. e.customer \in Customers
    BY DEF BInv, TypeOK, Event
  <2>2. orgs[o].customer = e.customer /\ e.customer # None
    BY <1>2, <2>1, ProcessAssumption DEF Concerns
  <2> QED
    BY <2>2 DEF BInv, RowsBelong, EventsBelong, Belongs
<1> QED
  BY <1>1, <1>2

------------------------------------------------------------------------------
(* Steps that leave an org, or all but its requests, alone.                 *)

SettledSame(o) ==
  /\ orgs'[o] = orgs[o]
  /\ EventsOf(o)' = EventsOf(o)
  /\ \A s \in Subs : SubOf(s, o) \/ SubOf(s, o)' => subs'[s] = subs[s]

Quiet(o) ==
  /\ SettledSame(o)
  /\ \A r \in Requests : For(r, o)' => requests'[r] = requests[r]

LEMMA SettledFacts ==
  ASSUME NEW o, SettledSame(o)
  PROVE  /\ \A s \in Subs : Current(s, o)' <=> Current(s, o)
         /\ \A s \in Subs : Current(s, o)' => subs'[s] = subs[s]
         /\ Running(o)' = Running(o)
         /\ \A s \in Running(o) : subs'[s] = subs[s]
<1>1. \A s \in Subs : SubOf(s, o)' <=> SubOf(s, o)
  BY DEF SettledSame, SubOf
<1>2. \A s \in Subs : Current(s, o)' <=> Current(s, o)
  BY <1>1 DEF SettledSame, Current
<1>3. \A s \in Subs : Current(s, o)' => subs'[s] = subs[s]
  BY DEF SettledSame, Current
<1>4. Running(o) = {s \in Subs : SubOf(s, o) /\ subs[s].status \in {"active", "past_due"}}
  BY DEF Running, SubOf
<1>5. Running(o)' = {s \in Subs : SubOf(s, o)' /\ subs'[s].status \in {"active", "past_due"}}
  BY DEF Running, SubOf
<1>6. Running(o)' = Running(o) /\ \A s \in Running(o) : subs'[s] = subs[s]
  BY <1>1, <1>4, <1>5 DEF SettledSame
<1> QED
  BY <1>2, <1>3, <1>6

LEMMA SettledKept ==
  ASSUME NEW o, SettledSame(o), OrgInv(o)
  PROVE  OneSub(o)' /\ CustomerKnown(o)' /\ PlanKnown(o)'
<1>1. OneSub(o)'
  BY SettledFacts DEF OrgInv, OneSub
<1>2. CustomerKnown(o)'
  BY SettledFacts DEF OrgInv, CustomerKnown, SettledSame
<1>3. \A tier : PlanIs(o, tier) => PlanIs(o, tier)'
  BY SettledFacts DEF PlanIs
<1>4. PlanKnown(o)'
  BY <1>3, SettledFacts DEF OrgInv, PlanKnown, SettledSame, TierAfter
<1> QED
  BY <1>1, <1>2, <1>4

LEMMA JobKept ==
  ASSUME NEW o, SettledSame(o), NEW job
  PROVE  /\ Applies(job, o) => Applies(job, o)'
         /\ Fresh(job, o) => Fresh(job, o)'
<1>1. Applies(job, o) => Applies(job, o)'
  BY DEF Applies, SettledSame, AfterEvent
<1>2. Fresh(job, o) => Fresh(job, o)'
  BY SettledFacts DEF Fresh, SettledSame
<1> QED
  BY <1>1, <1>2

LEMMA QuietKeeps ==
  ASSUME NEW o, Quiet(o), OrgInv(o)
  PROVE  OrgInv(o)'
<1>1. SettledSame(o) /\ \A r \in Requests : For(r, o)' => requests'[r] = requests[r]
  BY DEF Quiet
<1>2. \A r \in Requests : For(r, o)' => For(r, o) /\ requests'[r] = requests[r]
  BY <1>1 DEF For
<1>3. OneRequest(o)'
  BY <1>1, <1>2 DEF OrgInv, OneRequest, SettledSame
<1>4. RequestsApply(o)'
  <2> SUFFICES ASSUME NEW r \in Requests, For(r, o)'
               PROVE  /\ requests'[r] \in Hook => Applies(requests[r], o)'
                      /\ requests'[r] \in Checkout => Fresh(requests[r], o)'
    BY DEF RequestsApply
  <2> PICK job : job = requests[r]
    OBVIOUS
  <2>1. requests'[r] = job /\ For(r, o)
    BY <1>2
  <2>2. /\ job \in Hook => Applies(job, o)
        /\ job \in Checkout => Fresh(job, o)
    BY <2>1 DEF OrgInv, RequestsApply
  <2>3. /\ job \in Hook => Applies(job, o)'
        /\ job \in Checkout => Fresh(job, o)'
    BY <1>1, <2>2, JobKept
  <2> QED
    BY <2>1, <2>3 DEF Applies, Fresh
<1> QED
  BY <1>1, <1>3, <1>4, SettledKept DEF OrgInv

\* The one request of an org goes on.
LEMMA RequestKeeps ==
  ASSUME TypeOK, NEW o, SettledSame(o), OrgInv(o), NEW r \in Requests, NEW job,
         requests' = [requests EXCEPT ![r] = job],
         \A q \in Requests : For(q, o) => q = r,
         job.old = orgs[o],
         job \in Hook => Applies(job, o),
         job \in Checkout => Fresh(job, o)
  PROVE  OrgInv(o)'
<1>1. requests'[r] = job /\ \A q \in Requests \ {r} : requests'[q] = requests[q]
  BY DEF TypeOK
<1>2. \A q \in Requests : For(q, o)' => q = r
  BY <1>1 DEF For
<1>3. OneRequest(o)'
  BY <1>1, <1>2 DEF OneRequest, SettledSame
<1>4. /\ job \in Hook => Applies(job, o)'
      /\ job \in Checkout => Fresh(job, o)'
  BY JobKept
<1>5. RequestsApply(o)'
  BY <1>1, <1>2, <1>4 DEF RequestsApply, Applies, Fresh
<1> QED
  BY <1>3, <1>5, SettledKept DEF OrgInv

LEMMA SettledWhen ==
  ASSUME UNCHANGED <<orgs, events, subs>>, NEW o
  PROVE  SettledSame(o)
  BY DEF SettledSame, EventsOf

\* A request of another org, or one that ends.
LEMMA OtherRequest ==
  ASSUME TypeOK, NEW o, SettledSame(o), OrgInv(o), NEW r \in Requests, NEW job,
         requests' = [requests EXCEPT ![r] = job],
         job # Idle => job.org # o
  PROVE  OrgInv(o)'
<1>1. Quiet(o)
  BY DEF Quiet, For, TypeOK
<1> QED
  BY <1>1, QuietKeeps

------------------------------------------------------------------------------
(* The steps of an org's requests.                                          *)

LEMMA CheckoutPlan ==
  ASSUME TypeOK, NEW o \in Patient, OrgInv(o),
         NEW r \in Requests, NEW p \in Orgs, NEW plan \in Plans, CheckoutRead(r, p, plan)
  PROVE  OrgInv(o)'
<1> PICK job : job = [step |-> IF orgs[p].customer = None THEN "customer" ELSE "session",
                      org |-> p, plan |-> plan, sub |-> None,
                      old |-> orgs[p], new |-> orgs[p]]
  OBVIOUS
<1>1. requests' = [requests EXCEPT ![r] = job] /\ SettledSame(o)
  BY SettledWhen DEF CheckoutRead, Update, stripe
<1>2. CASE p # o
  BY <1>1, <1>2, OtherRequest
<1>3. CASE p = o
  <2>1. ~Live(o)
    BY <1>3 DEF CheckoutRead
  <2>2. EventsOf(o) = {} /\ (\A q \in Requests : ~For(q, o)) /\ (\A s \in Subs : ~Current(s, o))
    BY <2>1 DEF Live, Underway, EventsOf, For, Current, SubOf
  <2>3. job \in Checkout /\ job \notin Hook
    <3>1. job \in Checkout
      BY <1>3 DEF TypeOK, Checkout
    <3> QED
      BY <3>1, Kinds
  <2>4. Fresh(job, o)
    BY <1>3, <2>2 DEF Fresh
  <2>5. job.old = orgs[o]
    BY <1>3
  <2> QED
    BY <1>1, <2>2, <2>3, <2>4, <2>5, RequestKeeps
<1> QED
  BY <1>2, <1>3

LEMMA CustomerPlan ==
  ASSUME TypeOK, NEW o, OrgInv(o), NEW r \in Requests, CreateCustomer(r)
  PROVE  OrgInv(o)'
<1>1. requests[r] \in Checkout /\ requests[r].step = "customer" /\ SettledSame(o)
  BY OnlyCheckouts, SettledWhen DEF CreateCustomer
<1> PICK c \in Customers :
       Update(r, [requests[r] EXCEPT !.step = "session",
                    !.new = AfterCheckout(requests[r].new, c, requests[r].plan)])
  BY DEF CreateCustomer
<1> PICK job : job = [requests[r] EXCEPT !.step = "session",
                        !.new = AfterCheckout(requests[r].new, c, requests[r].plan)]
  OBVIOUS
<1>2. requests' = [requests EXCEPT ![r] = job]
  BY DEF Update
<1>3. AfterCheckout(requests[r].new, c, requests[r].plan).tier = requests[r].new.tier
  BY <1>1 DEF AfterCheckout, Checkout, OrgRow
<1>4. /\ job.org = requests[r].org /\ job.old = requests[r].old /\ job.sub = requests[r].sub
      /\ job.step = "session" /\ job.new.tier = requests[r].new.tier
  BY <1>1, <1>3 DEF Checkout
<1>5. job \notin Hook
  BY <1>4 DEF Hook
<1>6. CASE requests[r].org # o
  BY <1>1, <1>2, <1>4, <1>6, OtherRequest
<1>7. CASE requests[r].org = o
  <2>1. For(r, o)
    BY <1>1, <1>7, Kinds DEF For
  <2>2. requests[r].old = orgs[o] /\ \A q \in Requests : For(q, o) => q = r
    BY <2>1 DEF OrgInv, OneRequest
  <2>3. Fresh(requests[r], o)
    BY <1>1, <2>1 DEF OrgInv, RequestsApply
  <2>4. Fresh(job, o)
    BY <1>1, <1>4, <2>3 DEF Fresh
  <2> QED
    BY <1>1, <1>2, <1>4, <1>5, <2>2, <2>4, RequestKeeps
<1> QED
  BY <1>6, <1>7

LEMMA GotoPlan ==
  ASSUME TypeOK, NEW o, OrgInv(o), NEW r \in Requests, NEW step, Goto(r, step),
         UNCHANGED <<orgs, events, subs>>,
         \/ requests[r].step = "session" /\ step = "late_commit"
         \/ requests[r].step = "flush" /\ step = "commit"
  PROVE  OrgInv(o)'
<1>1. requests[r] \in Checkout \union Hook /\ SettledSame(o)
  BY HasStep, SettledWhen
<1> PICK job : job = [requests[r] EXCEPT !.step = step]
  OBVIOUS
<1>2. requests' = [requests EXCEPT ![r] = job]
  BY DEF Goto
<1>3. /\ job.org = requests[r].org /\ job.old = requests[r].old /\ job.new = requests[r].new
      /\ job.step = step
      /\ requests[r] \in Checkout => job.sub = requests[r].sub /\ job \notin Hook
      /\ requests[r] \in Hook => job.event = requests[r].event /\ job \notin Checkout
  BY <1>1, Kinds DEF Checkout, Hook
<1>4. CASE requests[r].org # o
  BY <1>1, <1>2, <1>3, <1>4, OtherRequest
<1>5. CASE requests[r].org = o
  <2>1. For(r, o)
    BY <1>1, <1>5, NotIdle DEF For
  <2>2. requests[r].old = orgs[o] /\ \A q \in Requests : For(q, o) => q = r
    BY <2>1 DEF OrgInv, OneRequest
  <2>3. requests[r] \in Hook => Applies(job, o) /\ job \notin Checkout
    BY <1>3, <2>1 DEF OrgInv, RequestsApply, Applies
  <2>4. requests[r] \in Checkout => Fresh(job, o) /\ job \notin Hook
    BY <1>3, <2>1 DEF OrgInv, RequestsApply, Fresh
  <2> QED
    BY <1>1, <1>2, <1>3, <2>2, <2>3, <2>4, RequestKeeps
<1> QED
  BY <1>4, <1>5

LEMMA HookPlan ==
  ASSUME BInv, PlanInv, NEW o \in Patient \intersect InOrder,
         NEW r \in Requests, NEW e \in events, HookRead(r, e)
  PROVE  OrgInv(o)'
<1> PICK p \in Orgs :
      /\ Concerns(e, p)
      /\ Update(r, [step |-> "flush", org |-> p, event |-> e,
                    old |-> orgs[p], new |-> AfterEvent(orgs[p], e)])
  BY DEF HookRead
<1> PICK job : job = [step |-> "flush", org |-> p, event |-> e,
                      old |-> orgs[p], new |-> AfterEvent(orgs[p], e)]
  OBVIOUS
<1>1. requests' = [requests EXCEPT ![r] = job] /\ SettledSame(o) /\ TypeOK /\ OrgInv(o)
  BY SettledWhen DEF HookRead, Update, stripe, BInv, PlanInv
<1>2. CASE p # o
  BY <1>1, <1>2, OtherRequest
<1>3. CASE p = o
  <2>1. e.org = o
    BY <1>3, EventOrg
  <2>2. /\ \A d \in events : d.org = o => e.n <= d.n
        /\ \A q \in Requests : IsHook(q) => requests[q].event.org # o
    BY <2>1 DEF HookRead, Delivered
  <2>3. ASSUME NEW q \in Requests, For(q, o) PROVE FALSE
    <3>1. requests[q] \in Checkout \union Hook
      BY <1>1, <2>3, HookKind DEF For
    <3>2. CASE requests[q] \in Hook
      BY <1>1, <2>2, <2>3, <3>2, HookKind DEF PlanInv, HooksOwn, For
    <3>3. CASE requests[q] \in Checkout
      <4>1. EventsOf(o) = {}
        BY <1>1, <2>3, <3>3 DEF OrgInv, RequestsApply, Fresh
      <4> QED
        BY <2>1, <4>1 DEF EventsOf
    <3> QED
      BY <3>1, <3>2, <3>3
  <2>4. Applies(job, o)
    BY <1>3, <2>1, <2>2 DEF Applies, EventsOf
  <2>5. job \notin Checkout /\ job.old = orgs[o]
    BY <1>3 DEF Checkout
  <2> QED
    BY <1>1, <2>3, <2>4, <2>5, RequestKeeps
<1> QED
  BY <1>2, <1>3

\* The session that is opened is the only subscription of the org.
LEMMA SessionPlan ==
  ASSUME TypeOK, NEW o, OrgInv(o), NEW r \in Requests, OpenSession(r)
  PROVE  OrgInv(o)'
<1>1. requests[r] \in Checkout /\ requests[r].step = "session"
  BY OnlyCheckouts DEF OpenSession
<1> PICK t \in Subs :
      /\ subs[t] = Unused
      /\ subs' = [subs EXCEPT ![t] =
           [org |-> requests[r].org, customer |-> requests[r].new.customer,
            tier |-> requests[r].plan, status |-> "open", had |-> {}]]
      /\ Update(r, [requests[r] EXCEPT !.step = "flush", !.sub = t])
  BY DEF OpenSession
<1> PICK job : job = [requests[r] EXCEPT !.step = "flush", !.sub = t]
  OBVIOUS
<1>2. requests' = [requests EXCEPT ![r] = job] /\ UNCHANGED <<orgs, events>>
  BY DEF Update, OpenSession
<1>3. /\ job.org = requests[r].org /\ job.old = requests[r].old /\ job.new = requests[r].new
      /\ job.step = "flush" /\ job.sub = t
  BY <1>1 DEF Checkout
<1>4. /\ subs'[t].org = requests[r].org /\ subs'[t].status = "open" /\ subs'[t] # Unused
      /\ \A s \in Subs \ {t} : subs'[s] = subs[s]
  BY DEF TypeOK, Unused
<1>5. CASE requests[r].org # o
  <2>1. SettledSame(o)
    BY <1>2, <1>4, <1>5 DEF SettledSame, EventsOf, SubOf
  <2> QED
    BY <1>2, <1>3, <1>5, <2>1, OtherRequest
<1>6. CASE requests[r].org = o
  <2>1. For(r, o)
    BY <1>1, <1>6, Kinds DEF For
  <2>2. requests[r].old = orgs[o] /\ \A q \in Requests : For(q, o) => q = r
    BY <2>1 DEF OrgInv, OneRequest
  <2>3. Fresh(requests[r], o)
    BY <1>1, <2>1 DEF OrgInv, RequestsApply
  <2>4. EventsOf(o) = {} /\ EventsOf(o)' = {}
    BY <1>2, <2>3 DEF Fresh, EventsOf
  <2>5. \A s \in Subs : ~Current(s, o)
    <3>1. None \notin Subs
      BY ProcessAssumption
    <3> QED
      BY <1>1, <2>3, <3>1 DEF Fresh
  <2>6. \A s \in Subs : Current(s, o)' => s = t
    BY <1>4, <2>4, <2>5 DEF Current, SubOf
  <2>7. requests'[r] = job /\ \A q \in Requests \ {r} : requests'[q] = requests[q]
    BY <1>2 DEF TypeOK
  <2>8. \A q \in Requests : For(q, o)' => q = r
    BY <2>2, <2>7 DEF For
  <2>9. OneRequest(o)'
    BY <1>2, <1>3, <2>2, <2>7, <2>8 DEF OneRequest
  <2>10. Fresh(job, o)' /\ job \notin Hook
    <3>1. job.new.tier = orgs'[o].tier
      BY <1>2, <1>3, <2>3 DEF Fresh
    <3>2. job \notin Hook
      BY <1>1, Kinds DEF Checkout, Hook
    <3> QED
      BY <1>3, <1>4, <2>4, <2>6, <3>1, <3>2 DEF Fresh
  <2>11. RequestsApply(o)'
    BY <2>7, <2>8, <2>10 DEF RequestsApply, Fresh
  <2>12. OneSub(o)' /\ CustomerKnown(o)'
    BY <1>4, <2>6 DEF OneSub, CustomerKnown
  <2>13. PlanKnown(o)'
    <3>1. Running(o) = {} /\ Running(o)' = {}
      <4>1. \A s \in Running(o) : Current(s, o)
        BY DEF Running, Current, SubOf
      <4>2. \A s \in Running(o)' : s \in Subs /\ s # t /\ s \in Running(o)
        BY <1>4 DEF Running
      <4> QED
        BY <2>5, <4>1, <4>2 DEF Running
    <3>2. orgs[o].tier = "trial"
      BY <2>4, <3>1 DEF OrgInv, PlanKnown, PlanIs
    <3> QED
      BY <1>2, <2>4, <3>1, <3>2 DEF PlanKnown, PlanIs
  <2> QED
    BY <2>9, <2>11, <2>12, <2>13 DEF OrgInv
<1> QED
  BY <1>5, <1>6

\* A request that ends writes its row; an event that is applied is gone.
LEMMA WritePlan ==
  ASSUME BInv, PlanInv, NEW o \in Patient \intersect InOrder, NEW r \in Requests,
         LateCommit(r) \/ Commit(r)
  PROVE  OrgInv(o)'
<1>1. /\ requests[r] \in Checkout \union Hook /\ TypeOK /\ OrgInv(o)
      /\ requests[r].step \in {"late_commit", "commit"}
  BY HasStep DEF LateCommit, Commit, BInv, PlanInv
<1>2. /\ orgs' = [orgs EXCEPT ![requests[r].org] = Written(requests[r], orgs[requests[r].org])]
      /\ requests' = [requests EXCEPT ![r] = Idle] /\ UNCHANGED subs
  BY DEF LateCommit, Commit, Update, stripe
<1>3. requests[r] \in Checkout => UNCHANGED events
  BY <1>1, HookKind, Kinds DEF LateCommit, Commit, stripe
<1>4. requests[r] \in Hook =>
        /\ requests[r].event.org = requests[r].org
        /\ \/ events' = events \ {requests[r].event}
           \/ requests[r].event.org \notin InOrder /\ UNCHANGED events
  <2>1. requests[r] \in Hook => requests[r].step = "commit" /\ IsHook(r)
    BY <1>1, HookKind DEF Hook
  <2>2. ~LateCommit(r) \/ requests[r].step = "late_commit"
    BY DEF LateCommit
  <2> QED
    BY <2>1, <2>2 DEF Commit, Answered, PlanInv, HooksOwn
<1>5. requests'[r] = Idle /\ \A q \in Requests \ {r} : requests'[q] = requests[q]
  BY <1>1, <1>2 DEF TypeOK
<1>6. o \in Orgs
  BY ModesAssumption
<1>7. CASE requests[r].org # o
  <2>1. EventsOf(o)' = EventsOf(o)
    BY <1>1, <1>3, <1>4, <1>7 DEF EventsOf
  <2>2. SettledSame(o)
    BY <1>1, <1>2, <1>7, <2>1 DEF SettledSame, TypeOK
  <2> QED
    BY <1>1, <1>2, <2>2, OtherRequest
<1>8. CASE requests[r].org = o
  <2>1. For(r, o)
    BY <1>1, <1>8, NotIdle DEF For
  <2>2. requests[r].old = orgs[o] /\ \A q \in Requests : For(q, o) => q = r
    BY <1>1, <2>1 DEF OrgInv, OneRequest
  <2>3. \A q \in Requests : ~For(q, o)'
    BY <1>5, <2>2 DEF For
  <2>4. OneRequest(o)' /\ RequestsApply(o)'
    BY <2>3 DEF OneRequest, RequestsApply
  <2>5. orgs'[o] = requests[r].new
    <3>1. Written(requests[r], requests[r].old) = requests[r].new
      BY <1>1, WrittenWhole
    <3>2. orgs' = [orgs EXCEPT ![o] = requests[r].new]
      BY <1>2, <1>8, <2>2, <3>1
    <3> QED
      BY <1>1, <1>6, <3>2 DEF TypeOK
  <2>6. Running(o)' = Running(o)
    BY <1>2 DEF Running
  <2>7. \A tier : PlanIs(o, tier) => PlanIs(o, tier)'
    BY <1>2, <2>6 DEF PlanIs
  <2>8. CASE requests[r] \in Checkout
    <3>1. Fresh(requests[r], o)
      BY <1>1, <2>1, <2>8 DEF OrgInv, RequestsApply
    <3>2. EventsOf(o) = {} /\ EventsOf(o)' = {}
      BY <1>3, <2>8, <3>1 DEF Fresh, EventsOf
    <3>3. \A s \in Subs : Current(s, o)' <=> Current(s, o)
      BY <1>2, <3>2 DEF Current, SubOf
    <3>4. OneSub(o)'
      BY <1>1, <3>3 DEF OrgInv, OneSub
    <3>5. CustomerKnown(o)'
      BY <1>2, <3>1, <3>3 DEF CustomerKnown, Fresh
    <3>6. PlanIs(o, orgs[o].tier) /\ orgs'[o].tier = orgs[o].tier
      BY <1>1, <2>5, <3>1, <3>2 DEF OrgInv, PlanKnown, Fresh
    <3>7. PlanIs(o, orgs[o].tier)'
      <4> PICK tier : tier = orgs[o].tier
        OBVIOUS
      <4>1. PlanIs(o, tier)'
        BY <2>7, <3>6
      <4> QED
        BY <3>6, <4>1 DEF PlanIs
    <3>8. PlanKnown(o)'
      BY <3>2, <3>7 DEF PlanKnown, PlanIs
    <3> QED
      BY <2>4, <3>4, <3>5, <3>8 DEF OrgInv
  <2>9. CASE requests[r] \in Hook
    <3> PICK e \in events : e = requests[r].event
      BY <1>1, <2>1, <2>9 DEF OrgInv, RequestsApply, Applies, EventsOf
    <3>1. /\ e \in EventsOf(o) /\ \A d \in EventsOf(o) : e.n <= d.n
          /\ requests[r].new = AfterEvent(orgs[o], e)
      BY <1>1, <2>1, <2>9 DEF OrgInv, RequestsApply, Applies
    <3>2. e \in Event /\ orgs[o] \in OrgRow
      BY <1>1, <1>6 DEF TypeOK
    <3>3. EventsOf(o)' = EventsOf(o) \ {e}
      BY <1>4, <1>8, <2>9, <3>1 DEF EventsOf
    <3>4. /\ orgs'[o].tier = TierAfter(e)
          /\ orgs'[o].customer = IF e.type = "completed" THEN e.customer ELSE orgs[o].customer
      BY <2>5, <3>1, <3>2, EventTier
    <3>5. \A s \in Subs : Current(s, o)' => Current(s, o)
      BY <1>2, <3>3 DEF Current, SubOf
    <3>6. OneSub(o)'
      BY <1>1, <3>5 DEF OrgInv, OneSub
    <3>7. Current(e.sub, o) /\ e.sub \in Subs /\ e.customer = subs[e.sub].customer
      <4>1. e.sub \in Subs /\ subs[e.sub] # Unused /\ subs[e.sub].org = o
        BY <3>1, <3>2 DEF BInv, EventsBelong, EventsOf, Event
      <4> QED
        BY <3>1, <4>1 DEF Current, SubOf, PlanInv, EventsNumbered
    <3>8. CustomerKnown(o)'
      <4> SUFFICES ASSUME NEW s \in Subs, Current(s, o)', subs'[s].status # "open"
                   PROVE  \/ orgs'[o].customer = subs'[s].customer
                          \/ \E d \in EventsOf(o)' : d.type = "completed" /\ d.sub = s
        BY DEF CustomerKnown
      <4>1. s = e.sub
        BY <1>1, <3>5, <3>7 DEF OrgInv, OneSub
      <4>2. CASE e.type = "completed"
        BY <1>2, <3>4, <3>7, <4>1, <4>2
      <4>3. CASE e.type # "completed"
        <5>1. \/ orgs[o].customer = subs[s].customer
              \/ \E d \in EventsOf(o) : d.type = "completed" /\ d.sub = s
          BY <1>1, <1>2, <3>5 DEF OrgInv, CustomerKnown
        <5> QED
          BY <1>2, <3>3, <3>4, <4>3, <5>1
      <4> QED
        BY <4>2, <4>3
    <3>9. PlanKnown(o)'
      <4>1. ASSUME EventsOf(o)' = {} PROVE PlanIs(o, orgs[o].tier)'
        <5>1. \A d \in EventsOf(o) : d = e /\ d.n <= e.n
          BY <3>1, <3>2, <3>3, <4>1 DEF Event
        <5>2. PlanIs(o, TierAfter(e))
          BY <1>1, <3>1, <5>1 DEF OrgInv, PlanKnown
        <5> PICK tier : tier = TierAfter(e)
          OBVIOUS
        <5>3. PlanIs(o, tier)' /\ orgs'[o].tier = tier
          BY <2>7, <3>4, <5>2
        <5> QED
          BY <5>3 DEF PlanIs
      <4>2. ASSUME NEW d \in EventsOf(o)', \A f \in EventsOf(o)' : f.n <= d.n
            PROVE  PlanIs(o, TierAfter(d))'
        <5>1. d \in EventsOf(o) /\ e.n <= d.n
          BY <3>1, <3>3, <4>2
        <5>2. \A f \in EventsOf(o) : f.n <= d.n
          BY <3>3, <4>2, <5>1
        <5>3. PlanIs(o, TierAfter(d))
          BY <1>1, <5>1, <5>2 DEF OrgInv, PlanKnown
        <5> PICK tier : tier = TierAfter(d)
          OBVIOUS
        <5>4. PlanIs(o, tier)'
          BY <2>7, <5>3
        <5> QED
          BY <5>4 DEF PlanIs, TierAfter
      <4> QED
        BY <4>1, <4>2 DEF PlanKnown, PlanIs, TierAfter
    <3> QED
      BY <2>4, <3>6, <3>8, <3>9 DEF OrgInv
  <2> QED
    BY <1>1, <2>8, <2>9
<1> QED
  BY <1>7, <1>8

\* An event of an org whose events come in order always finds its row: until the
\* row has the customer, the completed checkout is still to come, and first.
LEMMA NoneIgnored ==
  ASSUME BInv, PlanInv, NEW o \in Patient \intersect InOrder, NEW r \in Requests,
         NEW e \in events, HookIgnores(r, e)
  PROVE  e.org # o
<1> SUFFICES ASSUME e.org = o PROVE FALSE
  OBVIOUS
<1>1. Delivered(e) /\ \A p \in Orgs : ~Concerns(e, p)
  BY DEF HookIgnores
<1>2. o \in Orgs /\ e \in Event
  BY ModesAssumption DEF BInv, TypeOK
<1>3. e.type # "completed" /\ orgs[o].customer # e.customer
  BY <1>1, <1>2 DEF Concerns
<1>4. /\ e.sub \in Subs /\ subs[e.sub] # Unused /\ subs[e.sub].org = o
      /\ e.customer = subs[e.sub].customer /\ subs[e.sub].status # "open"
  BY <1>2 DEF Event, BInv, EventsBelong, PlanInv, EventsNumbered
<1>5. Current(e.sub, o)
  BY <1>4 DEF Current, SubOf, EventsOf
<1> PICK d \in EventsOf(o) : d.type = "completed" /\ d.sub = e.sub
  BY <1>3, <1>4, <1>5 DEF PlanInv, OrgInv, CustomerKnown
<1>6. d \in events /\ d.org = o /\ d.n <= e.n
  BY DEF EventsOf, PlanInv, EventsNumbered
<1>7. e.n <= d.n
  BY <1>1, <1>6 DEF Delivered
<1>8. d.n = e.n
  BY <1>2, <1>6, <1>7 DEF BInv, TypeOK, Event
<1> QED
  BY <1>3, <1>6, <1>8 DEF PlanInv, EventsNumbered

------------------------------------------------------------------------------
(* The steps of Stripe.                                                     *)

\* How Stripe may tell of a subscription in the state it is in.
Tells(s, type, plan, status) ==
  /\ Tell(s, type, plan, status)
  /\ subs[s] # Unused
  /\ type = "completed" <=> subs[s].status = "open"
  /\ type # "completed" => subs[s].status \in Statuses \ {"canceled"}
  /\ type = "completed" => status = "active" /\
       \A r \in Requests : requests[r] # Idle /\ ~IsHook(r) => requests[r].sub # s
  /\ type = "updated" => status \in Statuses \ {"canceled"}
  /\ type = "deleted" => status = "canceled"

LEMMA StripeTellsHow ==
  ASSUME TypeOK, NEW s \in Subs, StripeActs(s)
  PROVE  \E type \in {"completed", "updated", "deleted"}, plan \in Plans,
            status \in Statuses : Tells(s, type, plan, status)
<1>1. subs[s] # Unused
  BY StripeTells
<1>2. subs[s].tier \in Plans
  BY <1>1 DEF TypeOK, Session
<1>3. CASE Pay(s)
  BY <1>1, <1>2, <1>3 DEF Pay, Tells, Statuses
<1>4. ASSUME NEW plan \in Plans, NEW status \in Statuses, ChangePlan(s, plan, status)
      PROVE  Tells(s, "updated", plan, status)
  BY <1>1, <1>4 DEF ChangePlan, Tells, Statuses
<1>5. CASE Lapse(s)
  BY <1>1, <1>2, <1>5 DEF Lapse, Tells, Statuses
<1>6. CASE Cancel(s)
  BY <1>1, <1>2, <1>6 DEF Cancel, Tells, Statuses
<1> QED
  BY <1>3, <1>4, <1>5, <1>6 DEF StripeActs

\* What a subscription and the events are after Stripe told.
LEMMA Told ==
  ASSUME BInv, NEW s \in Subs, NEW type, NEW plan, NEW status, Tells(s, type, plan, status)
  PROVE  /\ subs'[s].org = subs[s].org /\ subs'[s].customer = subs[s].customer
         /\ subs'[s].status = status /\ subs'[s].tier = plan /\ subs'[s] # Unused
         /\ \A t \in Subs \ {s} : subs'[t] = subs[t]
         /\ sent \in Nat /\ sent' = sent + 1 /\ UNCHANGED <<orgs, requests>>
         /\ \E e : /\ events' = events \union {e} /\ e.n = sent + 1 /\ e.type = type /\ e.sub = s
                   /\ e.org = subs[s].org /\ e.customer = subs[s].customer
                   /\ e.tier = plan /\ e.status = status
<1>1. subs[s] \in Session /\ sent \in Nat
  BY ModesAssumption DEF Tells, BInv, TypeOK
<1>2. subs'[s] = [subs[s] EXCEPT !.status = status, !.tier = plan,
                                 !.had = subs[s].had \union {plan}]
  BY DEF Tells, Tell, BInv, TypeOK
<1>3. /\ subs'[s].org = subs[s].org /\ subs'[s].customer = subs[s].customer
      /\ subs'[s].status = status /\ subs'[s].tier = plan
  BY <1>1, <1>2 DEF Session
<1>4. subs'[s] # Unused
  BY <1>1, <1>2 DEF Session, Unused
<1>5. /\ \A t \in Subs \ {s} : subs'[t] = subs[t]
      /\ sent' = sent + 1 /\ UNCHANGED <<orgs, requests>>
  BY DEF Tells, Tell, BInv, TypeOK
<1> PICK e : e = [n |-> sent + 1, type |-> type, sub |-> s, org |-> subs[s].org,
                  customer |-> subs[s].customer, tier |-> plan, status |-> status]
  OBVIOUS
<1>6. events' = events \union {e}
  BY <1>5 DEF Tells, Tell
<1>7. /\ e.n = sent + 1 /\ e.type = type /\ e.sub = s
      /\ e.org = subs[s].org /\ e.customer = subs[s].customer
      /\ e.tier = plan /\ e.status = status
  OBVIOUS
<1> QED
  BY <1>1, <1>3, <1>4, <1>5, <1>6, <1>7

LEMMA TellNumbers ==
  ASSUME BInv, PlanInv, NEW s \in Subs, NEW type, NEW plan,
         NEW status \in Statuses,
         Tells(s, type, plan, status)
  PROVE  EventsNumbered'
<1> PICK e : /\ events' = events \union {e} /\ e.n = sent + 1 /\ e.type = type /\ e.sub = s
             /\ e.org = subs[s].org /\ e.customer = subs[s].customer
             /\ e.tier = plan /\ e.status = status
  BY Told
<1>1. \A d \in events : d.n \in Nat /\ d.n <= sent /\ d.sub \in Subs /\ subs[d.sub] # Unused
  BY DEF BInv, TypeOK, Event, PlanInv, EventsNumbered, EventsBelong
<1>2. \A t \in Subs : subs[t] # Unused => subs'[t].customer = subs[t].customer
  BY Told
<1>3. \A t \in Subs : subs[t] # Unused /\ subs[t].status # "open" => subs'[t].status # "open"
  BY Told DEF Tells, Statuses
<1>4. ASSUME NEW d \in events
      PROVE  /\ d.n <= sent' /\ d.customer = subs'[d.sub].customer
             /\ subs'[d.sub].status # "open"
    BY <1>1, <1>2, <1>3, Told DEF PlanInv, EventsNumbered
<1>5. e.n <= sent' /\ e.customer = subs'[e.sub].customer /\ subs'[e.sub].status # "open"
  BY Told DEF Statuses
<1>6. \A d \in events : d.n # e.n /\ d.n <= e.n
  BY <1>1, Told
<1>7. ASSUME NEW d \in events, e.type = "completed", d.sub = e.sub PROVE FALSE
  BY <1>7 DEF PlanInv, EventsNumbered, Tells
<1>8. ASSUME NEW f \in events', NEW d \in events'
      PROVE  /\ d.n = f.n => d = f
             /\ f.type = "completed" /\ d.sub = f.sub => f.n <= d.n
  <2>1. CASE f \in events /\ d \in events
    BY <2>1 DEF PlanInv, EventsNumbered
  <2>2. CASE f \in events /\ d = e
    BY <1>6, <2>2
  <2>3. CASE f = e /\ d \in events
    BY <1>6, <1>7, <2>3
  <2>4. CASE f = e /\ d = e
    BY <2>4, Told
  <2> QED
    BY <2>1, <2>2, <2>3, <2>4
<1> QED
  BY <1>4, <1>5, <1>8 DEF EventsNumbered

LEMMA TellPlan ==
  ASSUME BInv, PlanInv, NEW o \in Patient \intersect InOrder, NEW s \in Subs,
         NEW type \in {"completed", "updated", "deleted"}, NEW plan,
         NEW status \in Statuses,
         Tells(s, type, plan, status)
  PROVE  OrgInv(o)'
<1> PICK e : /\ events' = events \union {e} /\ e.n = sent + 1 /\ e.type = type /\ e.sub = s
             /\ e.org = subs[s].org /\ e.customer = subs[s].customer
             /\ e.tier = plan /\ e.status = status
  BY Told
<1>1. OrgInv(o) /\ TypeOK /\ subs[s] # Unused
  BY DEF PlanInv, BInv, Tells
<1>2. CASE subs[s].org # o
  <2>1. EventsOf(o)' = EventsOf(o)
    BY <1>2 DEF EventsOf
  <2>2. SettledSame(o)
    BY <1>2, <2>1, Told DEF SettledSame, SubOf
  <2>3. Quiet(o)
    BY <2>2, Told DEF Quiet
  <2> QED
    BY <1>1, <2>3, QuietKeeps
<1>3. CASE subs[s].org = o
  <2>1. Current(s, o)
    BY <1>1, <1>3 DEF Current, SubOf, Tells
  <2>2. EventsOf(o)' = EventsOf(o) \union {e}
    BY <1>3 DEF EventsOf
  <2>3. \A d \in EventsOf(o) : d.n \in Nat /\ d.n <= sent /\ sent \in Nat
    BY Told DEF EventsOf, BInv, TypeOK, Event, PlanInv, EventsNumbered
  <2>4. \A t \in Subs : Current(t, o)' => t = s
    <3>1. \A t \in Subs : Current(t, o) => t = s
      BY <1>1, <2>1 DEF OrgInv, OneSub
    <3>2. \A t \in Subs : Current(t, o)' => t = s \/ Current(t, o)
      BY <2>2, Told DEF Current, SubOf
    <3> QED
      BY <3>1, <3>2
  <2>5. OneSub(o)'
    BY <2>4 DEF OneSub
  <2>6. ASSUME NEW r \in Requests, For(r, o) PROVE requests[r] \in Hook
    <3>1. CASE requests[r] \in Checkout
      <4>1. Fresh(requests[r], o)
        BY <1>1, <2>6, <3>1 DEF OrgInv, RequestsApply
      <4>2. requests[r].sub = s /\ subs[s].status = "open"
        BY <2>1, <4>1 DEF Fresh
      <4>3. requests[r] # Idle /\ ~IsHook(r)
        BY <1>1, <3>1, HookKind, Kinds
      <4> QED
        BY <4>2, <4>3 DEF Tells
    <3> QED
      BY <1>1, <2>6, <3>1, HookKind DEF For
  <2>7. OneRequest(o)'
    BY <1>1, Told DEF OrgInv, OneRequest, For
  <2>8. RequestsApply(o)'
    <3> SUFFICES ASSUME NEW r \in Requests, For(r, o)
                 PROVE  /\ requests[r] \in Hook => Applies(requests[r], o)'
                        /\ requests[r] \notin Checkout
      BY Told DEF RequestsApply, For
    <3> PICK job : job = requests[r]
      OBVIOUS
    <3>1. job \in Hook /\ job \notin Checkout
      BY <2>6, Kinds
    <3>2. Applies(job, o)
      BY <1>1, <3>1 DEF OrgInv, RequestsApply
    <3>3. /\ job.event \in EventsOf(o) /\ \A d \in EventsOf(o) : job.event.n <= d.n
          /\ job.new = AfterEvent(orgs[o], job.event)
      BY <3>2 DEF Applies
    <3>4. job.event.n <= e.n
      BY <2>3, <3>3, Told
    <3>5. UNCHANGED orgs
      BY Told
    <3>6. Applies(job, o)'
      BY <2>2, <3>3, <3>4, <3>5 DEF Applies, AfterEvent
    <3> QED
      BY <3>1, <3>6, Told DEF Applies
  <2>9. CustomerKnown(o)'
    <3> SUFFICES ASSUME NEW t \in Subs, Current(t, o)', subs'[t].status # "open"
                 PROVE  \/ orgs'[o].customer = subs'[t].customer
                        \/ \E d \in EventsOf(o)' : d.type = "completed" /\ d.sub = t
      BY DEF CustomerKnown
    <3>1. t = s
      BY <2>4
    <3>2. CASE type = "completed"
      BY <2>2, <3>1, <3>2
    <3>3. CASE type # "completed"
      <4>1. \/ orgs[o].customer = subs[s].customer
            \/ \E d \in EventsOf(o) : d.type = "completed" /\ d.sub = s
        BY <1>1, <2>1, <3>3 DEF OrgInv, CustomerKnown, Tells
      <4> QED
        BY <2>2, <3>1, <4>1, Told
    <3> QED
      BY <3>2, <3>3
  <2>10. Running(o)' = IF status \in {"active", "past_due"} THEN {s} ELSE {}
    <3>1. \A t \in Subs : t \in Running(o)' => Current(t, o)' /\ t = s
      BY <2>4 DEF Running, Current, SubOf
    <3>2. s \in Running(o)' <=> status \in {"active", "past_due"}
      BY <1>3, Told DEF Running
    <3>3. Running(o)' \subseteq Subs
      BY DEF Running
    <3> QED
      BY <3>1, <3>2, <3>3
  <2>11. TierAfter(e) = IF status \in {"active", "past_due"} THEN plan ELSE "trial"
    BY DEF TierAfter, Tells, Statuses
  <2>12. PlanIs(o, TierAfter(e))'
    <3> PICK tier : tier = TierAfter(e)
      OBVIOUS
    <3>1. /\ Running(o)' = {} => tier = "trial"
          /\ \A t \in Running(o)' : tier = subs'[t].tier
      BY <2>10, <2>11, Told
    <3> QED
      BY <3>1 DEF PlanIs, TierAfter
  <2>13. PlanKnown(o)'
    <3>1. ASSUME NEW d \in EventsOf(o)', \A f \in EventsOf(o)' : f.n <= d.n PROVE d = e
      BY <2>2, <2>3, <3>1
    <3> QED
      BY <2>2, <2>12, <3>1 DEF PlanKnown
  <2> QED
    BY <2>5, <2>7, <2>8, <2>9, <2>13 DEF OrgInv
<1> QED
  BY <1>2, <1>3

------------------------------------------------------------------------------
(* The numbers of the events, and whose rows the hooks write.               *)

LEMMA NumbersKept ==
  ASSUME PlanInv, BInv, events' \subseteq events, UNCHANGED sent,
         \A s \in Subs : subs[s] # Unused => subs'[s] = subs[s]
  PROVE  EventsNumbered'
<1>1. \A e \in events : subs'[e.sub] = subs[e.sub]
  BY DEF BInv, TypeOK, Event, EventsBelong
<1> QED
  BY <1>1 DEF PlanInv, EventsNumbered

LEMMA NumbersNext ==
  ASSUME BInv, PlanInv, [Next]_vars
  PROVE  EventsNumbered'
<1>1. CASE UNCHANGED <<subs, sent>> /\ events' \subseteq events
  BY <1>1, NumbersKept
<1>2. ASSUME NEW s \in Subs, StripeActs(s) PROVE EventsNumbered'
  BY <1>2, StripeTellsHow, TellNumbers DEF BInv
<1>3. ASSUME NEW r \in Requests, OpenSession(r) PROVE EventsNumbered'
  <2>1. UNCHANGED <<events, sent>>
    BY <1>3 DEF OpenSession
  <2>2. \A s \in Subs : subs[s] # Unused => subs'[s] = subs[s]
    BY <1>3 DEF OpenSession, BInv, TypeOK
  <2> QED
    BY <2>1, <2>2, NumbersKept
<1> QED
  BY <1>1, <1>2, <1>3
     DEF Next, CheckoutRead, CallsStripe, CreateCustomer, NoCustomer, NoSession, LateCommit,
         HookRead, HookIgnores, Answered, Flush, Commit, StripeActs, OpenPortal, Crash, stripe,
         vars

LEMMA HooksNext ==
  ASSUME BInv, PlanInv, [Next]_vars
  PROVE  HooksOwn'
<1>1. TypeOK /\ HooksOwn
  BY DEF BInv, PlanInv
<1>2. ASSUME NEW q \in Requests, NEW job, requests' = [requests EXCEPT ![q] = job],
             job \in Hook => job.event.org = job.org
      PROVE  HooksOwn'
  BY <1>1, <1>2 DEF TypeOK, HooksOwn
<1>3. ASSUME NEW q \in Requests, Update(q, Idle) PROVE HooksOwn'
  BY <1>2, <1>3, Kinds DEF Update
<1>4. ASSUME NEW q \in Requests, NEW o \in Orgs, NEW plan \in Plans, CheckoutRead(q, o, plan)
      PROVE  HooksOwn'
  <2> PICK job : job = [step |-> IF orgs[o].customer = None THEN "customer" ELSE "session",
                        org |-> o, plan |-> plan, sub |-> None,
                        old |-> orgs[o], new |-> orgs[o]]
    OBVIOUS
  <2>1. job \notin Hook
    BY DEF Hook
  <2> QED
    BY <1>2, <1>4, <2>1 DEF CheckoutRead, Update
<1>5. ASSUME NEW q \in Requests, CreateCustomer(q) \/ OpenSession(q) PROVE HooksOwn'
  <2>1. requests[q] \in Checkout
    BY <1>1, <1>5, OnlyCheckouts DEF CreateCustomer, OpenSession
  <2>2. ASSUME NEW c \in Customers,
               Update(q, [requests[q] EXCEPT !.step = "session",
                            !.new = AfterCheckout(requests[q].new, c, requests[q].plan)])
        PROVE  HooksOwn'
    <3> PICK job : job = [requests[q] EXCEPT !.step = "session",
                            !.new = AfterCheckout(requests[q].new, c, requests[q].plan)]
      OBVIOUS
    <3>1. job \notin Hook
      BY <2>1, Kinds DEF Checkout, Hook
    <3> QED
      BY <1>2, <2>2, <3>1 DEF Update
  <2>3. ASSUME NEW s \in Subs, Update(q, [requests[q] EXCEPT !.step = "flush", !.sub = s])
        PROVE  HooksOwn'
    <3> PICK job : job = [requests[q] EXCEPT !.step = "flush", !.sub = s]
      OBVIOUS
    <3>1. job \notin Hook
      BY <2>1, Kinds DEF Checkout, Hook
    <3> QED
      BY <1>2, <2>3, <3>1 DEF Update
  <2> QED
    BY <1>5, <2>2, <2>3 DEF CreateCustomer, OpenSession
<1>6. ASSUME NEW q \in Requests, NEW step \in {"late_commit", "commit"},
             requests[q].step # "idle", Goto(q, step)
      PROVE  HooksOwn'
  <2>1. requests[q] \in Checkout \union Hook
    BY <1>1, <1>6, HasStep
  <2> PICK job : job = [requests[q] EXCEPT !.step = step]
    OBVIOUS
  <2>2. requests' = [requests EXCEPT ![q] = job]
    BY <1>6 DEF Goto
  <2>3. /\ requests[q] \in Checkout => job \notin Hook
        /\ requests[q] \in Hook => job.event = requests[q].event /\ job.org = requests[q].org
    BY Kinds DEF Checkout, Hook
  <2> QED
    BY <1>1, <1>2, <2>1, <2>2, <2>3 DEF HooksOwn
<1>7. ASSUME NEW q \in Requests, NEW e \in events, HookRead(q, e) PROVE HooksOwn'
  <2> PICK o \in Orgs : /\ Concerns(e, o)
                        /\ Update(q, [step |-> "flush", org |-> o, event |-> e,
                                      old |-> orgs[o], new |-> AfterEvent(orgs[o], e)])
    BY <1>7 DEF HookRead
  <2> PICK job : job = [step |-> "flush", org |-> o, event |-> e,
                        old |-> orgs[o], new |-> AfterEvent(orgs[o], e)]
    OBVIOUS
  <2>1. job.event.org = job.org
    BY EventOrg
  <2> QED
    BY <1>2, <2>1 DEF Update
<1>8. CASE \A q \in Requests : requests'[q] \in {requests[q], Idle}
  BY <1>1, <1>8, Kinds DEF HooksOwn
<1>9. ASSUME NEW p \in Processes, Crash(p) PROVE HooksOwn'
  BY <1>8, <1>9 DEF Crash
<1>10. CASE UNCHANGED requests
  BY <1>8, <1>10
<1> QED
  BY <1>3, <1>4, <1>5, <1>6, <1>7, <1>9, <1>10
     DEF Next, CallsStripe, NoCustomer, NoSession, LateCommit, HookIgnores, Flush, Commit,
         Pay, Lapse, Cancel, ChangePlan, Tell, OpenPortal, vars

LEMMA OrgNext ==
  ASSUME BInv, PlanInv, [Next]_vars, NEW o \in Patient \intersect InOrder
  PROVE  OrgInv(o)'
<1>1. TypeOK /\ OrgInv(o) /\ o \in Patient
  BY DEF BInv, PlanInv
<1>2. ASSUME NEW r \in Requests, NoCustomer(r) PROVE OrgInv(o)'
  <2>1. SettledSame(o)
    BY <1>2, SettledWhen DEF NoCustomer, stripe
  <2>2. requests' = [requests EXCEPT ![r] = Idle]
    BY <1>2 DEF NoCustomer, Update
  <2> QED
    BY <1>1, <2>1, <2>2, OtherRequest
<1>3. ASSUME NEW r \in Requests, NoSession(r) \/ Flush(r) PROVE OrgInv(o)'
  BY <1>1, <1>3, GotoPlan DEF NoSession, Flush, stripe
<1>4. ASSUME NEW r \in Requests, NEW e \in events, HookIgnores(r, e) PROVE OrgInv(o)'
  <2>1. e.org # o
    BY <1>4, NoneIgnored
  <2>2. SettledSame(o)
    BY <1>4, <2>1 DEF HookIgnores, Answered, SettledSame, EventsOf
  <2>3. Quiet(o)
    BY <1>4, <2>2 DEF Quiet, HookIgnores
  <2> QED
    BY <1>1, <2>3, QuietKeeps
<1>5. ASSUME NEW s \in Subs, StripeActs(s) PROVE OrgInv(o)'
  BY <1>1, <1>5, StripeTellsHow, TellPlan
<1>6. CASE /\ UNCHANGED <<orgs, events, subs>>
           /\ \A q \in Requests : requests'[q] \in {requests[q], Idle}
  <2>1. SettledSame(o)
    BY <1>6, SettledWhen
  <2>2. Quiet(o)
    BY <1>6, <2>1 DEF Quiet, For
  <2> QED
    BY <1>1, <2>2, QuietKeeps
<1>7. ASSUME NEW p \in Processes, Crash(p) PROVE OrgInv(o)'
  BY <1>6, <1>7 DEF Crash, stripe
<1>8. ASSUME NEW p \in Processes, NEW q \in Orgs, OpenPortal(p, q) PROVE OrgInv(o)'
  BY <1>6, <1>8 DEF OpenPortal, stripe
<1>9. CASE UNCHANGED vars
  BY <1>6, <1>9 DEF vars, stripe
<1>10. ASSUME NEW r \in Requests, NEW p \in Orgs, NEW plan \in Plans, CheckoutRead(r, p, plan)
       PROVE  OrgInv(o)'
  BY <1>1, <1>10, CheckoutPlan
<1>11. ASSUME NEW r \in Requests, CreateCustomer(r) \/ OpenSession(r) PROVE OrgInv(o)'
  BY <1>1, <1>11, CustomerPlan, SessionPlan
<1> QED
  BY <1>2, <1>3, <1>4, <1>5, <1>7, <1>8, <1>9, <1>10, <1>11, HookPlan, WritePlan
     DEF Next, CallsStripe, StripeActs

\* Of an org that begins no checkout while it has one, or a plan, and whose events
\* arrive once and in order: when nothing is under way for it, its plan is that of
\* its active subscription, and trial without one, wherever a process crashed, a
\* call to Stripe failed or a checkout was given up before (billing_webhook).
THEOREM PlanFollows == Spec => []PlanFollowsStripe
<1>1. Init => PlanInv
  <2> SUFFICES ASSUME Init PROVE PlanInv
    OBVIOUS
  <2>1. EventsNumbered /\ HooksOwn
    BY Kinds DEF Init, EventsNumbered, HooksOwn
  <2> SUFFICES ASSUME NEW o \in Patient \intersect InOrder PROVE OrgInv(o)
    BY <2>1 DEF PlanInv
  <2>2. /\ \A r \in Requests : ~For(r, o)
        /\ \A s \in Subs : ~Current(s, o)
        /\ EventsOf(o) = {} /\ Running(o) = {} /\ orgs[o].tier = "trial"
    BY ModesAssumption DEF Init, For, Current, SubOf, EventsOf, Running
  <2>3. OneRequest(o) /\ RequestsApply(o) /\ OneSub(o) /\ CustomerKnown(o)
    BY <2>2 DEF OneRequest, RequestsApply, OneSub, CustomerKnown
  <2>4. PlanKnown(o)
    BY <2>2 DEF PlanKnown, PlanIs
  <2> QED
    BY <2>3, <2>4 DEF OrgInv
<1>2. BInv /\ PlanInv /\ [Next]_vars => PlanInv'
  BY NumbersNext, HooksNext, OrgNext DEF PlanInv
<1>3. BInv /\ PlanInv => PlanFollowsStripe
  <2> SUFFICES ASSUME PlanInv, NEW o \in Patient \intersect InOrder, ~Underway(o)
               PROVE  /\ Running(o) = {} => orgs[o].tier = "trial"
                      /\ Running(o) # {} => \E s \in Running(o) : orgs[o].tier = subs[s].tier
    BY DEF PlanFollowsStripe
  <2>1. EventsOf(o) = {}
    BY DEF Underway, EventsOf
  <2>2. PlanIs(o, orgs[o].tier)
    BY <2>1 DEF PlanInv, OrgInv, PlanKnown
  <2> QED
    BY <2>2 DEF PlanIs
<1> QED
  BY <1>1, <1>2, <1>3, BInvInit, BInvNext, PTL DEF Spec
==============================================================================
