-------------------------------- MODULE Billing --------------------------------
(***************************************************************************)
(* The plan of an org: the checkout and portal routes (api/v1/billing.py), *)
(* the webhook that follows Stripe's events                                *)
(* (api/internal/billing_webhook.py) and the org's row.  Stripe itself is  *)
(* modelled from how these use it.                                         *)
(*                                                                         *)
(* The routes run in threads of a server process.  The webhook handler is  *)
(* a coroutine that works with the blocking session: while it waits for a  *)
(* row, the event loop of its process stands still.  Every session commits *)
(* in the teardown of get_session, which the event loop has to start.  The *)
(* audit rows written along the way are left out, but for the share lock   *)
(* on the org's row that their foreign key takes.                          *)
(***************************************************************************)
EXTENDS Naturals

CONSTANTS
  Orgs, Customers, Subs, Requests, Processes,
  ProcessOf,
  KeyInEnvironment, \* processes where STRIPE_API_KEY is set, as the library reads it
  Patient,          \* orgs that begin no checkout while they have one, or a plan
  InOrder,          \* orgs whose events arrive once, one after the other
  Crashable,
  StripeFails,      \* orgs whose calls Stripe's API may answer with an error
  MaxEvents,
  None              \* no customer, no subscription, no request

ASSUME ProcessAssumption ==
  /\ ProcessOf \in [Requests -> Processes]
  /\ KeyInEnvironment \subseteq Processes /\ Crashable \subseteq Processes
  /\ None \notin Customers \union Subs \union Requests \union Orgs
ASSUME ModesAssumption ==
  /\ Patient \subseteq Orgs /\ InOrder \subseteq Orgs
  /\ StripeFails \subseteq Orgs /\ MaxEvents \in Nat

Plans == {"starter", "pro"}
Tiers == Plans \union {"trial"}

VARIABLES
  orgs,        \* the orgs table, as committed
  configured,  \* processes where stripe.api_key is set
  loop,        \* the request that keeps a process's event loop busy
  requests,
  customers,   \* Stripe: the org a customer was created for
  subs,        \* Stripe: checkout sessions and the subscriptions they become
  events,      \* Stripe: events not yet delivered for the last time
  sent         \* number of events so far

stripe == <<customers, subs, events, sent>>
vars == <<orgs, configured, loop, requests, stripe>>

OrgRow == [tier : Tiers, customer : Customers \union {None},
           subscription : Subs \union {None}]
\* "past_due" stands for every status but active that keeps the plan, "unpaid"
\* for those that end it.  had: the plans the subscription has stood for.
Statuses == {"active", "past_due", "unpaid", "canceled"}
Session == [org : Orgs, customer : Customers, tier : Plans,
            status : Statuses \union {"open"}, had : SUBSET Plans]
Unused == [status |-> "unused"]
Event == [n : 1..MaxEvents, type : {"completed", "updated", "deleted"},
          sub : Subs, org : Orgs, customer : Customers, tier : Plans,
          status : Statuses]

Idle == [step |-> "idle"]
\* old: the row as loaded; new: as the session leaves it.
Checkout == [step : {"customer", "session", "late_commit", "flush", "commit"}, org : Orgs,
             plan : Plans, sub : Subs \union {None}, old : OrgRow, new : OrgRow]
Hook == [step : {"flush", "commit"}, org : Orgs, event : Event, old : OrgRow, new : OrgRow]

TypeOK ==
  /\ orgs \in [Orgs -> OrgRow]
  /\ configured \subseteq Processes
  /\ loop \in [Processes -> Requests \union {None}]
  /\ requests \in [Requests -> Checkout \union Hook \union {Idle}]
  /\ customers \in [Customers -> Orgs \union {None}]
  /\ subs \in [Subs -> Session \union {Unused}]
  /\ events \subseteq Event
  /\ sent \in 0..MaxEvents

Init ==
  /\ orgs = [o \in Orgs |-> [tier |-> "trial", customer |-> None, subscription |-> None]]
  /\ configured = KeyInEnvironment
  /\ loop = [p \in Processes |-> None]
  /\ requests = [r \in Requests |-> Idle]
  /\ customers = [c \in Customers |-> None]
  /\ subs = [s \in Subs |-> Unused]
  /\ events = {}
  /\ sent = 0

LoopFree(r) == loop[ProcessOf[r]] = None
Update(r, job) == requests' = [requests EXCEPT ![r] = job]
Goto(r, step) == requests' = [requests EXCEPT ![r].step = step]
Configured(r) == configured' = configured \union {ProcessOf[r]}
IsHook(r) == requests[r] # Idle /\ "event" \in DOMAIN requests[r]

------------------------------------------------------------------------------
(* Locks on the org's row: a session that has flushed keeps its lock until  *)
(* it commits.  Writing the unique customer id takes the strongest one; a   *)
(* session that only inserts an audit row shares the row with writers of    *)
(* other columns.                                                           *)

LockMode(j) ==
  CASE j.new.customer # j.old.customer -> "key"
    [] j.new.customer = j.old.customer /\ j.new # j.old -> "row"
    [] OTHER -> "share"

Conflict(m, n) == m = "key" \/ n = "key" \/ (m = "row" /\ n = "row")

RowFree(r) ==
  \A s \in Requests \ {r} :
    /\ requests[s] # Idle /\ requests[s].step = "commit"
    /\ requests[s].org = requests[r].org
    => ~Conflict(LockMode(requests[s]), LockMode(requests[r]))

\* An UPDATE names the columns whose value differs from the loaded one.
Written(j, row) ==
  LET Column(old, new, now) == IF new = old THEN now ELSE new
  IN [tier |-> Column(j.old.tier, j.new.tier, row.tier),
      customer |-> Column(j.old.customer, j.new.customer, row.customer),
      subscription |-> Column(j.old.subscription, j.new.subscription, row.subscription)]

------------------------------------------------------------------------------
(* start_checkout: a customer if the org has none, then a checkout session. *)

Underway(o) ==
  \/ \E r \in Requests : requests[r] # Idle /\ requests[r].org = o
  \/ \E e \in events : e.org = o

Live(o) ==
  \/ Underway(o)
  \/ \E s \in Subs : subs[s] # Unused /\ subs[s].org = o /\ subs[s].status # "canceled"

CheckoutRead(r, o, plan) ==
  /\ requests[r] = Idle
  /\ LoopFree(r)
  /\ o \in Patient => ~Live(o)
  /\ Update(r, [step |-> IF orgs[o].customer = None THEN "customer" ELSE "session",
                org |-> o, plan |-> plan, sub |-> None,
                old |-> orgs[o], new |-> orgs[o]])
  /\ UNCHANGED <<orgs, configured, loop, stripe>>

\* A mistake to catch: the plan is granted when the checkout begins.
UpgradedAtOnce(row, c, plan) == [row EXCEPT !.customer = c, !.tier = plan]
AfterCheckout(row, c, plan) == [row EXCEPT !.customer = c]

\* The only call to Stripe that is made without setting the key first.
CreateCustomer(r) ==
  LET j == requests[r]
  IN /\ j.step = "customer"
     /\ ProcessOf[r] \in configured
     /\ \E c \in Customers :
          /\ customers[c] = None
          /\ customers' = [customers EXCEPT ![c] = j.org]
          /\ Update(r, [j EXCEPT !.step = "session",
                                 !.new = AfterCheckout(j.new, c, j.plan)])
     /\ UNCHANGED <<orgs, configured, loop, subs, events, sent>>

\* 502, with nothing to commit.
NoCustomer(r) ==
  /\ requests[r].step = "customer"
  /\ requests[r].org \in StripeFails \/ ProcessOf[r] \notin configured
  /\ Update(r, Idle)
  /\ UNCHANGED <<orgs, configured, loop, stripe>>

OpenSession(r) ==
  LET j == requests[r]
  IN /\ j.step = "session"
     /\ Configured(r)
     /\ \E s \in Subs :
          /\ subs[s] = Unused
          /\ subs' = [subs EXCEPT ![s] =
               [org |-> j.org, customer |-> j.new.customer, tier |-> j.plan,
                status |-> "open", had |-> {}]]
          /\ Update(r, [j EXCEPT !.step = "flush", !.sub = s])
     /\ UNCHANGED <<orgs, loop, customers, events, sent>>

\* 502 again, but a new customer is committed: the event loop starts the
\* teardown, whose commit then waits for the row in a thread.
NoSession(r) ==
  /\ requests[r].step = "session"
  /\ requests[r].org \in StripeFails
  /\ Configured(r)
  /\ LoopFree(r)
  /\ Goto(r, "late_commit")
  /\ UNCHANGED <<orgs, loop, stripe>>

LateCommit(r) ==
  /\ requests[r].step = "late_commit"
  /\ RowFree(r)
  /\ orgs' = [orgs EXCEPT ![requests[r].org] = Written(requests[r], @)]
  /\ Update(r, Idle)
  /\ UNCHANGED <<configured, loop, stripe>>

\* start_portal_session keeps nothing, but sets the key.
OpenPortal(p, o) ==
  /\ loop[p] = None
  /\ orgs[o].customer # None
  /\ configured' = configured \union {p}
  /\ UNCHANGED <<orgs, loop, requests, stripe>>

------------------------------------------------------------------------------
(* Stripe: customers pay, change or lose their subscription, and an event   *)
(* tells of it.  The checkout page is known once the route has answered.    *)

Tell(s, type, plan, status) ==
  /\ sent < MaxEvents
  /\ sent' = sent + 1
  /\ subs' = [subs EXCEPT ![s].status = status, ![s].tier = plan, ![s].had = @ \union {plan}]
  /\ events' = events \union
       {[n |-> sent', type |-> type, sub |-> s, org |-> subs[s].org,
         customer |-> subs[s].customer, tier |-> plan, status |-> status]}
  /\ UNCHANGED <<orgs, configured, loop, requests, customers>>

Pay(s) ==
  /\ subs[s].status = "open"
  /\ \A r \in Requests : requests[r] # Idle /\ ~IsHook(r) => requests[r].sub # s
  /\ Tell(s, "completed", subs[s].tier, "active")

\* The plan or the status changes.  The plan may change while it is past due.
ChangePlan(s, plan, status) ==
  /\ subs[s].status \in Statuses \ {"canceled"}
  /\ status \in {"active", "past_due"}
  /\ Tell(s, "updated", plan, status)

Lapse(s) ==
  /\ subs[s].status \in {"active", "past_due"}
  /\ Tell(s, "updated", subs[s].tier, "unpaid")

Cancel(s) ==
  /\ subs[s].status \in Statuses \ {"canceled"}
  /\ Tell(s, "deleted", subs[s].tier, "canceled")

------------------------------------------------------------------------------
(* billing_webhook.                                                         *)

\* Mistakes to catch: an event reaches another org's row; a deleted
\* subscription leaves the plan as it was, or no plan at all.
AnyOrg(e, o) == TRUE
StillSubscribed(row, e) ==
  CASE e.type = "completed" ->
         [tier |-> e.tier, customer |-> e.customer, subscription |-> e.sub]
    [] e.type = "updated" ->
         [row EXCEPT !.tier = IF e.status = "unpaid" THEN "trial" ELSE e.tier]
    [] e.type = "deleted" -> [row EXCEPT !.subscription = None]
NoPlan(row, e) ==
  CASE e.type = "completed" ->
         [tier |-> e.tier, customer |-> e.customer, subscription |-> e.sub]
    [] e.type = "updated" ->
         [row EXCEPT !.tier = IF e.status = "unpaid" THEN "trial" ELSE e.tier]
    [] e.type = "deleted" -> [row EXCEPT !.tier = "none", !.subscription = None]

\* A completed checkout names the org; the other events are looked up by the
\* customer the org's row has at the moment.
Concerns(e, o) ==
  IF e.type = "completed" THEN o = e.org ELSE orgs[o].customer = e.customer

AfterEvent(row, e) ==
  CASE e.type = "completed" ->
         [tier |-> e.tier, customer |-> e.customer, subscription |-> e.sub]
    [] e.type = "updated" ->
         [row EXCEPT !.tier = IF e.status = "unpaid" THEN "trial" ELSE e.tier]
    [] e.type = "deleted" -> [row EXCEPT !.tier = "trial", !.subscription = None]

Delivered(e) ==
  /\ e \in events
  /\ e.org \in InOrder =>
       /\ \A d \in events : d.org = e.org => e.n <= d.n
       /\ \A r \in Requests : IsHook(r) => requests[r].event.org # e.org

\* Stripe is answered with 200: it may send the event once more all the same.
Answered(e) ==
  \/ events' = events \ {e}
  \/ e.org \notin InOrder /\ UNCHANGED events

HookRead(r, e) ==
  /\ requests[r] = Idle
  /\ LoopFree(r)
  /\ Delivered(e)
  /\ \E o \in Orgs :
       /\ Concerns(e, o)
       /\ Update(r, [step |-> "flush", org |-> o, event |-> e,
                     old |-> orgs[o], new |-> AfterEvent(orgs[o], e)])
  /\ loop' = [loop EXCEPT ![ProcessOf[r]] = r]
  /\ UNCHANGED <<orgs, configured, stripe>>

\* No org has this customer (any more, or yet): 200 and nothing done.
HookIgnores(r, e) ==
  /\ requests[r] = Idle
  /\ LoopFree(r)
  /\ Delivered(e)
  /\ \A o \in Orgs : ~Concerns(e, o)
  /\ Answered(e)
  /\ UNCHANGED <<orgs, configured, loop, requests, customers, subs, sent>>

------------------------------------------------------------------------------
(* The audit row flushes the session; get_session's teardown commits it.    *)

Freed(r) == [loop EXCEPT ![ProcessOf[r]] = IF @ = r THEN None ELSE @]

Flush(r) ==
  /\ requests[r].step = "flush"
  /\ RowFree(r)
  /\ Goto(r, "commit")
  /\ loop' = Freed(r)
  /\ UNCHANGED <<orgs, configured, stripe>>

Commit(r) ==
  /\ requests[r].step = "commit"
  /\ LoopFree(r)
  /\ orgs' = [orgs EXCEPT ![requests[r].org] = Written(requests[r], @)]
  /\ Update(r, Idle)
  /\ IF IsHook(r) THEN Answered(requests[r].event) ELSE UNCHANGED events
  /\ UNCHANGED <<configured, loop, customers, subs, sent>>

Crash(p) ==
  /\ p \in Crashable
  /\ requests' = [r \in Requests |-> IF ProcessOf[r] = p THEN Idle ELSE requests[r]]
  /\ configured' = (configured \ {p}) \union (KeyInEnvironment \intersect {p})
  /\ loop' = [loop EXCEPT ![p] = None]
  /\ UNCHANGED <<orgs, stripe>>

------------------------------------------------------------------------------
CallsStripe(r) == CreateCustomer(r) \/ NoCustomer(r) \/ OpenSession(r) \/ NoSession(r)

Next ==
  \/ \E r \in Requests :
       \/ \E o \in Orgs, plan \in Plans : CheckoutRead(r, o, plan)
       \/ CallsStripe(r)
       \/ LateCommit(r)
       \/ \E e \in events : HookRead(r, e) \/ HookIgnores(r, e)
       \/ Flush(r)
       \/ Commit(r)
  \/ \E s \in Subs :
       \/ Pay(s) \/ Lapse(s) \/ Cancel(s)
       \/ \E plan \in Plans, status \in Statuses : ChangePlan(s, plan, status)
  \/ \E p \in Processes : Crash(p) \/ \E o \in Orgs : OpenPortal(p, o)

Spec == Init /\ [][Next]_vars

\* Threads run, Stripe's API answers, and PostgreSQL queues the sessions that
\* wait for a row.
Fairness ==
  \A r \in Requests :
    /\ WF_vars(CallsStripe(r))
    /\ WF_vars(Commit(r))
    /\ SF_vars(Flush(r))
    /\ SF_vars(LateCommit(r))

FairSpec == Spec /\ Fairness

------------------------------------------------------------------------------
(* Properties                                                               *)

\* An org's row names a customer that was created for this org, and a
\* subscription it checked out itself: no event changes another org's row.
CustomersKeptApart ==
  \A o \in Orgs :
    /\ orgs[o].customer # None => customers[orgs[o].customer] = o
    /\ orgs[o].subscription # None => subs[orgs[o].subscription].org = o

\* An org has a plan's limits only if a subscription of its own stood for that
\* plan at some time: whatever the order, repetition or loss of events and
\* requests.
TierWasSubscribed ==
  \A o \in Orgs :
    orgs[o].tier # "trial" =>
      \E s \in Subs : /\ subs[s] # Unused /\ subs[s].org = o
                      /\ orgs[o].tier \in subs[s].had

Running(o) ==
  {s \in Subs : /\ subs[s] # Unused /\ subs[s].org = o
                /\ subs[s].status \in {"active", "past_due"}}

\* Once nothing is under way for an org, its plan is that of the
\* subscription that is active or past due, and trial without one
\* (billing_webhook).  It takes events in order and one subscription at a time:
\* events carry no order, and a deleted one ends the plan whichever
\* subscription it was.
PlanFollowsStripe ==
  \A o \in Patient \intersect InOrder :
    ~Underway(o) =>
      /\ Running(o) = {} => orgs[o].tier = "trial"
      /\ Running(o) # {} => \E s \in Running(o) : orgs[o].tier = subs[s].tier

\* "Liveness - process is up.  Deliberately does not touch the database"
\* (healthz in main.py): the event loop never waits for the database for ever.
LoopIsFreed ==
  \A p \in Processes : loop[p] # None ~> loop[p] = None
==============================================================================
