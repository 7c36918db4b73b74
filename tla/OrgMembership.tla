---------------------------- MODULE OrgMembership ----------------------------
(***************************************************************************)
(* The members of an org (api/v1/orgs.py): invitations within the seats of *)
(* a plan that the billing webhook changes at any time (Billing.tla), role *)
(* changes and removals, by org admins authorised by the claims of an      *)
(* access token (core/security.py) that outlives what it claims.  Each     *)
(* request checks first and writes when it commits; nothing is locked in   *)
(* between.  The audit row that goes with every write is in the same       *)
(* transaction and left out here.                                          *)
(***************************************************************************)
EXTENDS Naturals, FiniteSets

CONSTANTS
  Orgs, Emails, Requests,
  Users,           \* primary keys of the users table
  Email,           \* the address an account is opened for
  Founder,         \* the first admin of an org
  PlanSeats,       \* the seats of the plan tiers (PLAN_LIMITS)
  TrialSeats,      \* those of the tier an org starts with
  Orderly,         \* orgs whose requests do not overlap with each other
  Subscribers,     \* bound: orgs whose plan changes
  Referable,       \* bound: users who connect a mailbox or review a draft
  MaxTokens,       \* bound on the tokens that are valid at the same time
  NoAccount,       \* no row yet with this key
  Removed          \* no row any more: keys are never used twice

ASSUME UsersAssumption ==
  /\ IsFiniteSet(Users)
  /\ Email \in [Users -> Emails]
  /\ Founder \in [Orgs -> Users]
  /\ \A o, q \in Orgs : Email[Founder[o]] = Email[Founder[q]] => o = q
ASSUME SeatsAssumption == PlanSeats \subseteq Nat \ {0} /\ TrialSeats \in PlanSeats
ASSUME OrderlyAssumption == Orderly \subseteq Orgs
ASSUME BoundsAssumption ==
  /\ Subscribers \subseteq Orgs /\ Referable \subseteq Users
  /\ MaxTokens \in Nat /\ IsFiniteSet(Requests)

VARIABLES
  users,       \* the users table, as committed
  referenced,  \* users whom a mailbox or a reviewed draft refers to
  tokens,      \* access tokens that have not expired
  seats,       \* the seats of the plan_tier of each org
  requests,
  adminsEver   \* history: <<user, org>> such that the user was org_admin

vars == <<users, referenced, tokens, requests, adminsEver, seats>>

Roles == {"member", "org_admin"}
Account == [org : Orgs, role : Roles]
ASSUME RowsAssumption ==
  NoAccount # Removed /\ NoAccount \notin Account /\ Removed \notin Account

Token == [user : Users, org : Orgs, role : Roles]
Idle == [step |-> "idle"]
Invitation == [step : {"invite"}, org : Orgs, actor : Users, email : Emails, role : Roles,
               widest : PlanSeats]  \* history: the largest plan since the check
Change == [step : {"change", "remove"}, org : Orgs, actor : Users,
           user : Users, old : Roles, role : Roles]

TypeOK ==
  /\ users \in [Users -> Account \union {NoAccount, Removed}]
  /\ referenced \subseteq Users
  /\ tokens \subseteq Token
  /\ seats \in [Orgs -> PlanSeats]
  /\ requests \in [Requests -> Invitation \union Change \union {Idle}]
  /\ adminsEver \subseteq Users \X Orgs

Exists(u) == users[u] \notin {NoAccount, Removed}
Members(o) == {u \in Users : Exists(u) /\ users[u].org = o}
Admins(o) == {u \in Members(o) : users[u].role = "org_admin"}

Init ==
  /\ users \in [Users -> Account \union {NoAccount}]
  /\ \A u \in Users : Exists(u) <=> \E o \in Orgs : u = Founder[o]
  /\ \A o \in Orgs : users[Founder[o]] = [org |-> o, role |-> "org_admin"]
  /\ referenced = {}
  /\ tokens = {}
  /\ seats = [o \in Orgs |-> TrialSeats]
  /\ requests = [r \in Requests |-> Idle]
  /\ adminsEver = {<<Founder[o], o>> : o \in Orgs}

------------------------------------------------------------------------------
(* Tokens.  A login copies org and role into the claims; nothing but their  *)
(* expiry takes them back.                                                  *)

Login(u) ==
  /\ Exists(u)
  /\ Cardinality(tokens) < MaxTokens
  /\ tokens' = tokens \union {[user |-> u, org |-> users[u].org, role |-> users[u].role]}
  /\ UNCHANGED <<users, referenced, requests, adminsEver, seats>>

Expire(t) ==
  /\ t \in tokens
  /\ tokens' = tokens \ {t}
  /\ UNCHANGED <<users, referenced, requests, adminsEver, seats>>

\* The user connects a mailbox or reviews a draft.
Refer(u) ==
  /\ Exists(u)
  /\ u \in Referable \ referenced
  /\ referenced' = referenced \union {u}
  /\ UNCHANGED <<users, tokens, requests, adminsEver, seats>>

------------------------------------------------------------------------------
(* The checks.                                                              *)

\* Mistakes to catch: any role is assigned; accounts of other orgs are found;
\* the last admin may go; an org takes one seat more than its plan has.
AnyRole(role) == TRUE
AnyAccount(t, u) == Exists(u)
AnyAdminMayGo(o, u) == TRUE
OneSeatMore(o) == Cardinality(Members(o)) <= seats[o]

\* Platform admins are not made here.
Assignable(role) == role \in {"member", "org_admin"}

AdminToken(t) == t \in tokens /\ t.role = "org_admin"

InOrgOf(t, u) == u \in Members(t.org)

NotLastAdmin(o, u) == Admins(o) \ {u} # {}

SeatLeft(o) == Cardinality(Members(o)) < seats[o]

EmailTaken(e) == \E u \in Users : Exists(u) /\ Email[u] = e

Busy(o) == \E r \in Requests : requests[r] # Idle /\ requests[r].org = o

Start(r, job) ==
  /\ requests[r] = Idle
  /\ job.org \in Orderly => ~Busy(job.org)
  /\ requests' = [requests EXCEPT ![r] = job]
  /\ UNCHANGED <<users, referenced, tokens, adminsEver, seats>>

InviteRead(r, t, e, role) ==
  /\ AdminToken(t)
  /\ Assignable(role)
  /\ ~EmailTaken(e)
  /\ SeatLeft(t.org)
  /\ Start(r, [step |-> "invite", org |-> t.org, actor |-> t.user,
               email |-> e, role |-> role, widest |-> seats[t.org]])

ChangeRoleRead(r, t, u, role) ==
  /\ AdminToken(t)
  /\ Assignable(role)
  /\ InOrgOf(t, u)
  /\ users[u].role = "org_admin" /\ role # "org_admin" => NotLastAdmin(t.org, u)
  /\ Start(r, [step |-> "change", org |-> t.org, actor |-> t.user,
               user |-> u, old |-> users[u].role, role |-> role])

RemoveRead(r, t, u) ==
  /\ AdminToken(t)
  /\ InOrgOf(t, u)
  /\ users[u].role = "org_admin" => NotLastAdmin(t.org, u)
  /\ Start(r, [step |-> "remove", org |-> t.org, actor |-> t.user,
               user |-> u, old |-> users[u].role, role |-> users[u].role])

------------------------------------------------------------------------------
(* The writes.                                                              *)

Finish(r) ==
  /\ requests' = [requests EXCEPT ![r] = Idle]
  /\ adminsEver' = adminsEver \union
       {p \in Users \X Orgs : users'[p[1]] = [org |-> p[2], role |-> "org_admin"]}
  /\ UNCHANGED <<referenced, tokens, seats>>

\* The address is unique: the slower of two invitations fails.
InviteCommit(r, u) ==
  LET j == requests[r]
  IN /\ j.step = "invite"
     /\ users[u] = NoAccount /\ Email[u] = j.email
     /\ ~EmailTaken(j.email)
     /\ users' = [users EXCEPT ![u] = [org |-> j.org, role |-> j.role]]
     /\ Finish(r)

\* Setting the role the row had when it was loaded writes nothing.
ChangeRoleCommit(r) ==
  LET j == requests[r]
  IN /\ j.step = "change"
     /\ j.role # j.old => Exists(j.user)
     /\ users' = IF j.role = j.old THEN users
                 ELSE [users EXCEPT ![j.user].role = j.role]
     /\ Finish(r)

\* Foreign keys keep referenced users; deleting a row that is gone does nothing.
RemoveCommit(r) ==
  LET j == requests[r]
  IN /\ j.step = "remove"
     /\ j.user \notin referenced
     /\ users' = [users EXCEPT ![j.user] = Removed]
     /\ Finish(r)

\* The flush fails and the session rolls back.
Rollback(r) ==
  LET j == requests[r]
  IN /\ \/ j.step = "invite" /\ EmailTaken(j.email)
        \/ j.step = "change" /\ j.role # j.old /\ ~Exists(j.user)
        \/ j.step = "remove" /\ j.user \in referenced
     /\ requests' = [requests EXCEPT ![r] = Idle]
     /\ UNCHANGED <<users, referenced, tokens, adminsEver, seats>>

Write(r) ==
  \/ \E u \in Users : InviteCommit(r, u)
  \/ ChangeRoleCommit(r) \/ RemoveCommit(r) \/ Rollback(r)

------------------------------------------------------------------------------
(* The billing webhook: an upgrade, a downgrade, or back to the trial plan,  *)
(* in a request of Stripe's that no tenant waits for.                        *)

Widen(job, o, n) ==
  IF job \in Invitation /\ job.org = o /\ job.widest < n THEN [job EXCEPT !.widest = n] ELSE job

ChangePlan(o, n) ==
  /\ seats' = [seats EXCEPT ![o] = n]
  /\ requests' = [r \in Requests |-> Widen(requests[r], o, n)]
  /\ UNCHANGED <<users, referenced, tokens, adminsEver>>

------------------------------------------------------------------------------
Next ==
  \/ \E u \in Users : Login(u) \/ Refer(u)
  \/ \E t \in tokens : Expire(t)
  \/ \E r \in Requests :
       \/ \E t \in tokens, role \in Roles \union {"platform_admin"} :
            \/ \E e \in Emails : InviteRead(r, t, e, role)
            \/ \E u \in Users : ChangeRoleRead(r, t, u, role)
       \/ \E t \in tokens, u \in Users : RemoveRead(r, t, u)
       \/ Write(r)
  \/ \E o \in Subscribers, n \in PlanSeats : ChangePlan(o, n)

Spec == Init /\ [][Next]_vars

------------------------------------------------------------------------------
(* Properties                                                               *)

\* "Cannot remove the last org_admin" (_ensure_not_last_org_admin): the check
\* keeps an admin in every org whose requests come one after the other,
\* whoever sends them and however stale the token is.
AdminRemainsInTurn == \A o \in Orderly : Admins(o) # {}

\* An org takes in a member only by an invitation that found a seat free
\* (enforce_plan_limit), in a plan the org had at some time from that check to the
\* commit: an invitation checked after the webhook has lowered the plan below the
\* org's size adds nobody.  Invitations that overlap may each count the same free
\* seat, and then outgrow the plan by one member for each further request the
\* server serves at a time; in an orderly org they do not.  (A plan that is
\* lowered sends nobody away: an org may well have more members than its present
\* plan has seats.)
Lanes(o) == IF o \in Orderly THEN 1 ELSE Cardinality(Requests)

SeatLimitKept ==
  [][\A o \in Orgs :
       Cardinality(Members(o)') > Cardinality(Members(o)) =>
         \E r \in Requests :
           /\ requests[r] \in Invitation /\ requests[r].org = o
           /\ requests'[r] = Idle
           /\ Cardinality(Members(o)') < requests[r].widest + Lanes(o)]_vars

\* An account comes, changes or goes only by a request of its own org, from
\* somebody who was an admin of that org at some time: at the login that gave
\* out the token, if not any more (require_org_admin, the look-ups by org_id).
AdminsChangeMembers ==
  [][\A u \in Users :
       users'[u] # users[u] =>
         \E r \in Requests :
           /\ requests[r] # Idle /\ requests'[r] = Idle
           /\ <<requests[r].actor, requests[r].org>> \in adminsEver
           /\ Exists(u) => users[u].org = requests[r].org
           /\ Exists(u)' => users'[u].org = requests[r].org]_vars
==============================================================================
