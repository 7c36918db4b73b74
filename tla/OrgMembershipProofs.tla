------------------------- MODULE OrgMembershipProofs -------------------------
(***************************************************************************)
(* Proofs about the members of an org, for any number of orgs, accounts,   *)
(* tokens and overlapping requests.                                        *)
(***************************************************************************)
EXTENDS OrgMembership, FiniteSetTheorems, TLAPS

------------------------------------------------------------------------------
(* Types.                                                                   *)

LEMMA TypeInit == Init => TypeOK
  BY UsersAssumption, SeatsAssumption DEF Init, TypeOK

LEMMA TypeNext == TypeOK /\ [Next]_vars => TypeOK'
<1> SUFFICES ASSUME TypeOK, [Next]_vars PROVE TypeOK'
  OBVIOUS
<1> USE DEF TypeOK
<1>1. ASSUME NEW u \in Users, Login(u) PROVE TypeOK'
  <2>1. [user |-> u, org |-> users[u].org, role |-> users[u].role] \in Token
    BY <1>1 DEF Login, Exists, Account, Token
  <2> QED
    BY <1>1, <2>1 DEF Login
<1>2. ASSUME NEW u \in Users, Refer(u) PROVE TypeOK'
  BY <1>2 DEF Refer
<1>3. ASSUME NEW t \in tokens, Expire(t) PROVE TypeOK'
  BY <1>3 DEF Expire
<1>4. ASSUME NEW r \in Requests, NEW t \in tokens,
             NEW role \in Roles \union {"platform_admin"}, NEW e \in Emails,
             InviteRead(r, t, e, role)
      PROVE  TypeOK'
  BY <1>4 DEF InviteRead, Start, Assignable, Invitation, Token, Roles
<1>5. ASSUME NEW r \in Requests, NEW t \in tokens,
             NEW role \in Roles \union {"platform_admin"}, NEW u \in Users,
             ChangeRoleRead(r, t, u, role)
      PROVE  TypeOK'
  <2>1. users[u] \in Account
    BY <1>5 DEF ChangeRoleRead, InOrgOf, Members, Exists
  <2> QED
    BY <1>5, <2>1 DEF ChangeRoleRead, Start, Assignable, Change, Token, Roles, Account
<1>6. ASSUME NEW r \in Requests, NEW t \in tokens, NEW u \in Users, RemoveRead(r, t, u)
      PROVE  TypeOK'
  <2>1. users[u] \in Account
    BY <1>6 DEF RemoveRead, InOrgOf, Members, Exists
  <2> QED
    BY <1>6, <2>1 DEF RemoveRead, Start, Change, Token, Account
<1>7. ASSUME NEW r \in Requests, Write(r) PROVE TypeOK'
  <2>1. ASSUME NEW u \in Users, InviteCommit(r, u) PROVE TypeOK'
    <3>1. [org |-> requests[r].org, role |-> requests[r].role] \in Account
      BY <2>1 DEF InviteCommit, Idle, Invitation, Change, Account
    <3> QED
      BY <2>1, <3>1 DEF InviteCommit, Finish
  <2>2. CASE ChangeRoleCommit(r)
    <3>1. requests[r].user \in Users /\ requests[r].role \in Roles
      BY <2>2 DEF ChangeRoleCommit, Idle, Invitation, Change
    <3>2. requests[r].role # requests[r].old =>
            [users[requests[r].user] EXCEPT !.role = requests[r].role] \in Account
      BY <2>2, <3>1 DEF ChangeRoleCommit, Exists, Account
    <3> QED
      BY <2>2, <3>1, <3>2 DEF ChangeRoleCommit, Finish
  <2>3. CASE RemoveCommit(r)
    BY <2>3 DEF RemoveCommit, Finish
  <2>4. CASE Rollback(r)
    BY <2>4 DEF Rollback
  <2> QED
    BY <1>7, <2>1, <2>2, <2>3, <2>4 DEF Write
<1>8. ASSUME NEW o \in Subscribers, NEW n \in PlanSeats, ChangePlan(o, n) PROVE TypeOK'
  <2>1. \A r \in Requests : Widen(requests[r], o, n) \in Invitation \union Change \union {Idle}
    BY DEF Widen, Invitation
  <2> QED
    BY <1>8, <2>1 DEF ChangePlan
<1>9. CASE UNCHANGED vars
  BY <1>9 DEF vars
<1> QED
  BY <1>1, <1>2, <1>3, <1>4, <1>5, <1>6, <1>7, <1>8, <1>9 DEF Next

\* Every reachable state has the types of the columns and claims.
THEOREM TypeCorrect == Spec => []TypeOK
<1> QED
  BY TypeInit, TypeNext, PTL DEF Spec

------------------------------------------------------------------------------
(* What a commit changes.  Keys are never used again, so an account that was *)
(* in the org when a request looked it up is there still, or gone for good:  *)
(* requests of other orgs never touch it.                                    *)

TargetsOwnOrg ==
  \A r \in Requests :
    requests[r] \in Change =>
      \/ users[requests[r].user] = Removed
      \/ requests[r].user \in Members(requests[r].org)

Commits(r) ==
  (\E u \in Users : InviteCommit(r, u)) \/ ChangeRoleCommit(r) \/ RemoveCommit(r)

LEMMA CommittedJob ==
  ASSUME TypeOK, NEW r \in Requests, Commits(r)
  PROVE  /\ requests[r] \in Invitation \union Change
         /\ requests[r] # Idle
         /\ requests' = [requests EXCEPT ![r] = Idle]
         /\ UNCHANGED <<referenced, tokens, seats>>
         /\ (ChangeRoleCommit(r) \/ RemoveCommit(r)) => requests[r] \in Change
  BY DEF Commits, TypeOK, InviteCommit, ChangeRoleCommit, RemoveCommit, Finish, Idle,
         Invitation, Change

LEMMA CommitEffect ==
  ASSUME TypeOK, TargetsOwnOrg, NEW r \in Requests, Commits(r),
         NEW o, o = requests[r].org,
         NEW v \in Users, users'[v] # users[v]
  PROVE  /\ users[v] = NoAccount \/ v \in Members(o)
         /\ users'[v] = Removed \/ v \in Members(o)'
<1>1. ASSUME NEW u \in Users, InviteCommit(r, u)
      PROVE  users[v] = NoAccount /\ v \in Members(o)'
  <2>1. v = u /\ users'[v] = [org |-> requests[r].org, role |-> requests[r].role]
    BY <1>1 DEF InviteCommit, TypeOK
  <2>2. requests[r] \in Invitation
    BY <1>1 DEF InviteCommit, TypeOK, Idle, Change
  <2>3. users'[v] \in Account
    BY <2>1, <2>2 DEF Invitation, Account
  <2> QED
    BY <1>1, <2>1, <2>3, RowsAssumption DEF InviteCommit, Members, Exists
<1> DEFINE j == requests[r]
<1>2. CASE ChangeRoleCommit(r) \/ RemoveCommit(r)
  <2>1. j \in Change
    BY <1>2, CommittedJob
  <2>2. j.user \in Users /\ j.org \in Orgs /\ j.role \in Roles
    BY <2>1 DEF Change
  <2>3. v = j.user
    BY <1>2, <2>2 DEF ChangeRoleCommit, RemoveCommit, TypeOK
  <2>4. users[v] = Removed \/ v \in Members(o)
    BY <2>1, <2>3 DEF TargetsOwnOrg
  <2>5. CASE RemoveCommit(r)
    BY <2>2, <2>3, <2>4, <2>5 DEF RemoveCommit, TypeOK
  <2>6. CASE ChangeRoleCommit(r)
    <3>1. j.role # j.old /\ Exists(v)
      BY <2>3, <2>6 DEF ChangeRoleCommit
    <3>2. users[v] \in Account /\ users[v].org = j.org
      BY <2>4, <3>1, RowsAssumption DEF Members, Exists, TypeOK
    <3>3. users'[v] = [users[v] EXCEPT !.role = j.role]
      BY <2>2, <2>3, <2>6, <3>1 DEF ChangeRoleCommit, TypeOK
    <3>4. users'[v] \in Account /\ users'[v].org = j.org
      BY <2>2, <3>2, <3>3 DEF Account
    <3> QED
      BY <2>4, <3>1, <3>4, RowsAssumption DEF Members, Exists
  <2> QED
    BY <1>2, <2>5, <2>6
<1> QED
  BY <1>1, <1>2 DEF Commits

LEMMA OtherOrgsKept ==
  ASSUME TypeOK, TargetsOwnOrg, NEW r \in Requests, Commits(r),
         NEW o \in Orgs, o # requests[r].org
  PROVE  Members(o)' = Members(o) /\ Admins(o)' = Admins(o)
<1>1. ASSUME NEW v \in Users, users'[v] # users[v]
      PROVE  v \notin Members(o) /\ v \notin Members(o)'
  BY <1>1, CommitEffect, RowsAssumption DEF Members, Exists
<1>2. \A v \in Users : v \in Members(o)' <=> v \in Members(o)
  BY <1>1 DEF Members, Exists
<1>3. Members(o)' = Members(o)
  BY <1>2 DEF Members
<1>4. \A v \in Members(o) : users'[v] = users[v]
  BY <1>1 DEF Members
<1> QED
  BY <1>3, <1>4 DEF Admins

------------------------------------------------------------------------------
(* A step is a commit, the start of a request, a change of plan, or leaves   *)
(* the table and the plans alone and at most ends a request.                 *)

Quiet ==
  /\ UNCHANGED <<users, adminsEver, seats>>
  /\ \A r \in Requests : requests'[r] = requests[r] \/ requests'[r] = Idle
  /\ \A t \in tokens' : t \in tokens \/ users[t.user] = [org |-> t.org, role |-> t.role]

\* What the three checks establish.
Checked(job) ==
  \/ /\ job.step = "invite"
     /\ SeatLeft(job.org)
     /\ job.widest = seats[job.org]
  \/ /\ job.step \in {"change", "remove"}
     /\ job.user \in Members(job.org)
     /\ job.step = "remove" \/ job.role # "org_admin" =>
          \/ NotLastAdmin(job.org, job.user)
          \/ job.user \notin Admins(job.org)

Authorised(job) ==
  \E t \in tokens : t.role = "org_admin" /\ t.user = job.actor /\ t.org = job.org

LEMMA Steps ==
  ASSUME TypeOK, [Next]_vars
  PROVE  \/ Quiet
         \/ \E r \in Requests, job \in Invitation \union Change :
              Start(r, job) /\ Checked(job) /\ Authorised(job)
         \/ \E o \in Orgs, n \in PlanSeats : ChangePlan(o, n)
         \/ \E r \in Requests : Commits(r)
<1>1. ASSUME NEW u \in Users, Login(u) \/ Refer(u) PROVE Quiet
  <2>1. CASE Refer(u)
    BY <2>1 DEF Refer, Quiet
  <2>2. CASE Login(u)
    <3>1. users[u] = [org |-> users[u].org, role |-> users[u].role]
      BY <2>2 DEF Login, Exists, TypeOK, Account
    <3> QED
      BY <2>2, <3>1 DEF Login, Quiet
  <2> QED
    BY <1>1, <2>1, <2>2
<1>2. ASSUME NEW t \in tokens, Expire(t) PROVE Quiet
  BY <1>2 DEF Expire, Quiet
<1> DEFINE Started == \E r \in Requests, job \in Invitation \union Change :
                        Start(r, job) /\ Checked(job) /\ Authorised(job)
<1>3. ASSUME NEW r \in Requests, NEW t \in tokens,
             NEW role \in Roles \union {"platform_admin"}, NEW e \in Emails,
             InviteRead(r, t, e, role)
      PROVE  Started
  <2> DEFINE job == [step |-> "invite", org |-> t.org, actor |-> t.user,
                     email |-> e, role |-> role, widest |-> seats[t.org]]
  <2>1. job \in Invitation
    BY <1>3 DEF InviteRead, Assignable, Invitation, Token, Roles, TypeOK
  <2>2. Checked(job) /\ Authorised(job)
    BY <1>3 DEF InviteRead, AdminToken, Checked, Authorised
  <2>3. Start(r, job)
    BY <1>3 DEF InviteRead
  <2> QED
    BY <2>1, <2>2, <2>3
<1>4. ASSUME NEW r \in Requests, NEW t \in tokens,
             NEW role \in Roles \union {"platform_admin"}, NEW u \in Users,
             ChangeRoleRead(r, t, u, role)
      PROVE  Started
  <2> DEFINE job == [step |-> "change", org |-> t.org, actor |-> t.user,
                     user |-> u, old |-> users[u].role, role |-> role]
  <2>1. users[u] \in Account
    BY <1>4 DEF ChangeRoleRead, InOrgOf, Members, Exists, TypeOK
  <2>2. job \in Change
    BY <1>4, <2>1 DEF ChangeRoleRead, Assignable, Change, Token, Roles, Account, TypeOK
  <2>3. Checked(job)
    BY <1>4 DEF ChangeRoleRead, InOrgOf, Checked, Admins
  <2>4. Authorised(job)
    BY <1>4 DEF ChangeRoleRead, AdminToken, Authorised
  <2>5. Start(r, job)
    BY <1>4 DEF ChangeRoleRead
  <2> QED
    BY <2>2, <2>3, <2>4, <2>5
<1>5. ASSUME NEW r \in Requests, NEW t \in tokens, NEW u \in Users, RemoveRead(r, t, u)
      PROVE  Started
  <2> DEFINE job == [step |-> "remove", org |-> t.org, actor |-> t.user,
                     user |-> u, old |-> users[u].role, role |-> users[u].role]
  <2>1. users[u] \in Account
    BY <1>5 DEF RemoveRead, InOrgOf, Members, Exists, TypeOK
  <2>2. job \in Change
    BY <1>5, <2>1 DEF RemoveRead, Change, Token, Account, TypeOK
  <2>3. Checked(job)
    BY <1>5 DEF RemoveRead, InOrgOf, Checked, Admins
  <2>4. Authorised(job)
    BY <1>5 DEF RemoveRead, AdminToken, Authorised
  <2>5. Start(r, job)
    BY <1>5 DEF RemoveRead
  <2> QED
    BY <2>2, <2>3, <2>4, <2>5
<1>6. ASSUME NEW r \in Requests, Write(r) PROVE Quiet \/ Commits(r)
  <2>1. CASE Rollback(r)
    BY <2>1 DEF Rollback, Quiet, TypeOK
  <2> QED
    BY <1>6, <2>1 DEF Write, Commits
<1>7. CASE UNCHANGED vars
  BY <1>7 DEF vars, Quiet
<1> QED
  BY <1>1, <1>2, <1>3, <1>4, <1>5, <1>6, <1>7, BoundsAssumption DEF Next

------------------------------------------------------------------------------
(* The inductive invariant: what a request found when it checked still holds *)
(* when it commits, in the orgs whose requests do not overlap.               *)

Open(r) == requests[r] \in Invitation \union Change

Demotes(job) ==
  job \in Change /\ (job.step = "remove" \/ job.role # "org_admin")

OneAtATime ==
  \A r, s \in Requests :
    /\ Open(r) /\ Open(s)
    /\ requests[r].org = requests[s].org
    /\ requests[r].org \in Orderly
    => r = s

AdminStaysBehind ==
  \A r \in Requests :
    Open(r) /\ requests[r].org \in Orderly /\ Demotes(requests[r]) =>
      NotLastAdmin(requests[r].org, requests[r].user)

Invited(o) == {r \in Requests : requests[r] \in Invitation /\ requests[r].org = o}

\* The members an org has and those it has been promised fit into the plan that
\* any of its invitations was checked against, up to the lanes that may overlap.
SeatsCounted ==
  \A r \in Requests, o \in Orgs :
    requests[r] \in Invitation /\ requests[r].org = o =>
      /\ seats[o] <= requests[r].widest
      /\ Cardinality(Members(o)) + Cardinality(Invited(o)) < requests[r].widest + Lanes(o)

IInv ==
  /\ TypeOK
  /\ TargetsOwnOrg
  /\ OneAtATime
  /\ AdminStaysBehind
  /\ SeatsCounted
  /\ AdminRemainsInTurn

LEMMA JobKinds ==
  ASSUME NEW job
  PROVE  /\ job \in Invitation => job.step = "invite" /\ job \notin Change /\ job # Idle
         /\ job \in Change => job.step \in {"change", "remove"} /\ job # Idle
         /\ job \in Invitation => job.widest \in PlanSeats /\ job.widest \in Nat
         /\ job \in Invitation \union Change => job.org \in Orgs
<1>1. job \in Invitation => job.step = "invite" /\ job.widest \in PlanSeats /\ job.org \in Orgs
  BY DEF Invitation
<1>2. job \in Change => job.step \in {"change", "remove"} /\ job.org \in Orgs
  BY DEF Change
<1>3. job = Idle => job.step = "idle"
  BY DEF Idle
<1> QED
  BY <1>1, <1>2, <1>3, SeatsAssumption

LEMMA MembersFinite ==
  ASSUME NEW S, S \subseteq Users
  PROVE  IsFiniteSet(S) /\ Cardinality(S) \in Nat
  BY UsersAssumption, FS_Subset, FS_CardinalityType

LEMMA LanesSuffice ==
  ASSUME NEW S, S \subseteq Requests, NEW o,
         o \in Orderly => \A r, s \in S : r = s
  PROVE  /\ IsFiniteSet(S) /\ Cardinality(S) \in Nat
         /\ Lanes(o) \in Nat /\ Cardinality(S) <= Lanes(o)
<1>1. /\ IsFiniteSet(S) /\ Cardinality(S) \in Nat
      /\ Cardinality(Requests) \in Nat /\ Cardinality(S) <= Cardinality(Requests)
  BY BoundsAssumption, FS_Subset, FS_CardinalityType
<1>2. ASSUME o \in Orderly PROVE Cardinality(S) <= 1
  <2>1. CASE S = {}
    BY <2>1, FS_EmptySet
  <2>2. ASSUME NEW x \in S PROVE Cardinality(S) = 1
    <3>1. S = {x}
      BY <1>2
    <3> QED
      BY <3>1, FS_Singleton
  <2> QED
    BY <2>1, <2>2
<1> QED
  BY <1>1, <1>2 DEF Lanes

LEMMA InitIInv == Init => IInv
<1> SUFFICES ASSUME Init PROVE IInv
  OBVIOUS
<1>1. TypeOK
  BY TypeInit
<1>2. \A r \in Requests : requests[r] = Idle
  BY DEF Init
<1>3. TargetsOwnOrg /\ OneAtATime /\ AdminStaysBehind /\ SeatsCounted
  BY <1>2, JobKinds DEF TargetsOwnOrg, OneAtATime, AdminStaysBehind, SeatsCounted, Open
<1>4. ASSUME NEW o \in Orgs
      PROVE  Admins(o) = {Founder[o]}
  <2>1. \A q \in Orgs :
          Exists(Founder[q]) /\ users[Founder[q]].org = q /\ users[Founder[q]].role = "org_admin"
    <3> TAKE q \in Orgs
    <3>1. Founder[q] \in Users /\ \E p \in Orgs : Founder[q] = Founder[p]
      BY UsersAssumption
    <3>2. Exists(Founder[q])
      BY <3>1 DEF Init
    <3>3. users[Founder[q]] = [org |-> q, role |-> "org_admin"]
      BY DEF Init
    <3> QED
      BY <3>2, <3>3
  <2>2. ASSUME NEW v \in Members(o) PROVE v = Founder[o]
    <3>1. PICK q \in Orgs : v = Founder[q]
      BY DEF Init, Members
    <3> QED
      BY <2>1, <3>1 DEF Members
  <2>3. Founder[o] \in Members(o) /\ users[Founder[o]].role = "org_admin"
    BY <2>1, UsersAssumption DEF Members
  <2> QED
    BY <2>2, <2>3 DEF Admins
<1>5. AdminRemainsInTurn
  BY <1>4, OrderlyAssumption DEF AdminRemainsInTurn
<1> QED
  BY <1>1, <1>3, <1>5 DEF IInv

(* A step that leaves the table alone and starts nothing. *)

LEMMA QuietKeepsOrgs ==
  ASSUME UNCHANGED users, NEW o
  PROVE  Members(o)' = Members(o) /\ Admins(o)' = Admins(o)
  BY DEF Members, Admins, Exists

LEMMA QuietIInv == IInv /\ TypeOK' /\ Quiet => IInv'
<1> SUFFICES ASSUME IInv, TypeOK', Quiet PROVE IInv'
  OBVIOUS
<1>1. UNCHANGED users /\ \A o : Members(o)' = Members(o) /\ Admins(o)' = Admins(o)
  BY QuietKeepsOrgs DEF Quiet
<1>2. \A r \in Requests :
        requests'[r] \in Invitation \union Change => requests'[r] = requests[r]
  BY JobKinds DEF Quiet
<1>3. TargetsOwnOrg'
  BY <1>1, <1>2 DEF IInv, TargetsOwnOrg
<1>4. OneAtATime'
  BY <1>2 DEF IInv, OneAtATime, Open
<1>5. AdminStaysBehind'
  BY <1>1, <1>2 DEF IInv, AdminStaysBehind, Open, Demotes, NotLastAdmin
<1>6. SeatsCounted'
  <2> SUFFICES ASSUME NEW r \in Requests, NEW o \in Orgs,
                      requests'[r] \in Invitation, requests'[r].org = o
               PROVE  /\ seats'[o] <= requests'[r].widest
                      /\ Cardinality(Members(o)') + Cardinality(Invited(o)')
                           < requests'[r].widest + Lanes(o)
    BY DEF SeatsCounted
  <2>1. requests'[r] = requests[r] /\ seats' = seats
    BY <1>2 DEF Quiet
  <2> PICK w : w = requests[r].widest
    OBVIOUS
  <2>2. Invited(o)' \subseteq Invited(o)
    BY <1>2 DEF Invited
  <2>3. /\ Cardinality(Invited(o)) \in Nat /\ Cardinality(Invited(o)') \in Nat
        /\ Cardinality(Invited(o)') <= Cardinality(Invited(o))
    BY <2>2, BoundsAssumption, FS_Subset, FS_CardinalityType DEF Invited
  <2>4. Cardinality(Members(o)) \in Nat
    BY MembersFinite DEF Members
  <2>5. w \in Nat /\ Lanes(o) \in Nat
    BY <2>1, JobKinds, BoundsAssumption, FS_CardinalityType DEF Lanes
  <2>6. /\ seats[o] <= w
        /\ Cardinality(Members(o)) + Cardinality(Invited(o)) < w + Lanes(o)
    BY <2>1 DEF IInv, SeatsCounted
  <2>7. Cardinality(Members(o)) + Cardinality(Invited(o)') < w + Lanes(o)
    BY <2>3, <2>4, <2>5, <2>6
  <2> QED
    BY <1>1, <2>1, <2>6, <2>7
<1>7. AdminRemainsInTurn'
  BY <1>1 DEF IInv, AdminRemainsInTurn
<1> QED
  BY <1>3, <1>4, <1>5, <1>6, <1>7 DEF IInv

(* The webhook changes a plan. *)

LEMMA WidenedJobs ==
  ASSUME TypeOK, NEW o \in Orgs, NEW n \in PlanSeats, ChangePlan(o, n), NEW r \in Requests
  PROVE  /\ requests'[r] \in Invitation <=> requests[r] \in Invitation
         /\ requests'[r] \in Change <=> requests[r] \in Change
         /\ requests[r] \in Change => requests'[r] = requests[r]
         /\ requests[r] \in Invitation =>
              /\ requests'[r].org = requests[r].org /\ requests'[r].actor = requests[r].actor
              /\ requests'[r].widest >= requests[r].widest
              /\ requests[r].org = o => requests'[r].widest >= n
<1>1. requests'[r] = Widen(requests[r], o, n)
  BY DEF ChangePlan
<1>2. n \in Nat
  BY SeatsAssumption
<1>3. CASE requests[r] \notin Invitation
  BY <1>1, <1>3 DEF Widen
<1>4. CASE requests[r] \in Invitation
  <2>1. requests[r] \notin Change /\ requests[r].widest \in Nat
    BY <1>4, JobKinds
  <2>2. requests'[r] = requests[r] \/ requests'[r] = [requests[r] EXCEPT !.widest = n]
    BY <1>1 DEF Widen
  <2>3. requests'[r] \in Invitation
    BY <1>4, <2>2 DEF Invitation
  <2>4. /\ requests'[r].org = requests[r].org /\ requests'[r].actor = requests[r].actor
    BY <1>4, <2>2 DEF Invitation
  <2>5. /\ requests'[r].widest >= requests[r].widest
        /\ requests[r].org = o => requests'[r].widest >= n
    BY <1>1, <1>2, <1>4, <2>1 DEF Widen, Invitation
  <2> QED
    BY <1>4, <2>1, <2>3, <2>4, <2>5, JobKinds
<1> QED
  BY <1>3, <1>4

LEMMA PlanIInv ==
  ASSUME IInv, TypeOK', NEW o \in Orgs, NEW n \in PlanSeats, ChangePlan(o, n)
  PROVE  IInv'
<1>1. UNCHANGED users /\ \A q : Members(q)' = Members(q) /\ Admins(q)' = Admins(q)
  BY QuietKeepsOrgs DEF ChangePlan
<1>2. \A r \in Requests :
        /\ requests'[r] \in Invitation <=> requests[r] \in Invitation
        /\ requests'[r] \in Change <=> requests[r] \in Change
        /\ requests[r] \in Change => requests'[r] = requests[r]
        /\ requests[r] \in Invitation => requests'[r].org = requests[r].org
  BY WidenedJobs DEF IInv
<1>3. TargetsOwnOrg'
  BY <1>1, <1>2 DEF IInv, TargetsOwnOrg
<1>4. OneAtATime'
  BY <1>2 DEF IInv, OneAtATime, Open
<1>5. AdminStaysBehind'
  BY <1>1, <1>2 DEF IInv, AdminStaysBehind, Open, Demotes, NotLastAdmin
<1>6. SeatsCounted'
  <2> SUFFICES ASSUME NEW r \in Requests, NEW q \in Orgs,
                      requests'[r] \in Invitation, requests'[r].org = q
               PROVE  /\ seats'[q] <= requests'[r].widest
                      /\ Cardinality(Members(q)') + Cardinality(Invited(q)')
                           < requests'[r].widest + Lanes(q)
    BY DEF SeatsCounted
  <2>1. requests[r] \in Invitation /\ requests[r].org = q
    BY <1>2
  <2> PICK v, w : v = requests[r].widest /\ w = requests'[r].widest
    OBVIOUS
  <2>2. v \in Nat /\ w \in Nat /\ v <= w /\ (q = o => n <= w) /\ n \in Nat
    BY <2>1, WidenedJobs, JobKinds, SeatsAssumption DEF IInv
  <2>3. Invited(q)' = Invited(q)
    BY <1>2 DEF Invited
  <2>4. Cardinality(Members(q)) \in Nat /\ Cardinality(Invited(q)) \in Nat /\ Lanes(q) \in Nat
    BY MembersFinite, BoundsAssumption, FS_Subset, FS_CardinalityType DEF Members, Invited, Lanes
  <2>5. /\ seats[q] <= v /\ seats[q] \in Nat
        /\ Cardinality(Members(q)) + Cardinality(Invited(q)) < v + Lanes(q)
    BY <2>1, JobKinds, SeatsAssumption DEF IInv, SeatsCounted, TypeOK
  <2>6. seats'[q] = (IF q = o THEN n ELSE seats[q])
    BY <2>1, JobKinds DEF ChangePlan, IInv, TypeOK
  <2>7. seats'[q] <= w /\ Cardinality(Members(q)) + Cardinality(Invited(q)) < w + Lanes(q)
    BY <2>2, <2>4, <2>5, <2>6
  <2> QED
    BY <1>1, <2>1, <2>3, <2>7
<1>7. AdminRemainsInTurn'
  BY <1>1 DEF IInv, AdminRemainsInTurn
<1> QED
  BY <1>3, <1>4, <1>5, <1>6, <1>7 DEF IInv

(* A request that starts. *)

LEMMA StartIInv ==
  ASSUME IInv, TypeOK', NEW r \in Requests, NEW job \in Invitation \union Change,
         Start(r, job), Checked(job)
  PROVE  IInv'
<1>1. UNCHANGED users /\ \A o : Members(o)' = Members(o) /\ Admins(o)' = Admins(o)
  BY QuietKeepsOrgs DEF Start
<1>2. /\ requests'[r] = job
      /\ \A s \in Requests \ {r} : requests'[s] = requests[s]
  BY DEF Start, IInv, TypeOK
<1>3. TargetsOwnOrg'
  <2>1. job \in Change => job.user \in Members(job.org)
    BY JobKinds DEF Checked
  <2> QED
    BY <1>1, <1>2, <2>1 DEF IInv, TargetsOwnOrg
<1>4. OneAtATime'
  <2>1. job.org \in Orderly => \A s \in Requests : Open(s) => requests[s].org # job.org
    BY JobKinds DEF Start, Busy, Open
  <2> QED
    BY <1>2, <2>1 DEF IInv, OneAtATime, Open
<1>5. AdminStaysBehind'
  <2>1. Demotes(job) /\ job.org \in Orderly => NotLastAdmin(job.org, job.user)
    <3> SUFFICES ASSUME Demotes(job), job.org \in Orderly
                 PROVE  NotLastAdmin(job.org, job.user)
      OBVIOUS
    <3>1. NotLastAdmin(job.org, job.user) \/ job.user \notin Admins(job.org)
      BY JobKinds DEF Demotes, Checked
    <3>2. Admins(job.org) # {}
      BY DEF IInv, AdminRemainsInTurn
    <3> QED
      BY <3>1, <3>2 DEF NotLastAdmin
  <2> QED
    BY <1>1, <1>2, <2>1 DEF IInv, AdminStaysBehind, Open, Demotes, NotLastAdmin
<1>6. SeatsCounted'
  <2> SUFFICES ASSUME NEW s \in Requests, NEW q \in Orgs,
                      requests'[s] \in Invitation, requests'[s].org = q
               PROVE  /\ seats'[q] <= requests'[s].widest
                      /\ Cardinality(Members(q)') + Cardinality(Invited(q)')
                           < requests'[s].widest + Lanes(q)
    BY DEF SeatsCounted
  <2> PICK w : w = requests'[s].widest
    OBVIOUS
  <2>1. w \in Nat /\ seats' = seats /\ seats[q] \in Nat
    BY JobKinds, SeatsAssumption DEF Start, IInv, TypeOK
  <2>2. Cardinality(Members(q)) \in Nat
    BY MembersFinite DEF Members
  <2>3. /\ Cardinality(Invited(q)') \in Nat /\ Lanes(q) \in Nat
        /\ Cardinality(Invited(q)') <= Lanes(q)
    <3>1. Invited(q)' \subseteq Requests
      BY DEF Invited
    <3>2. ASSUME q \in Orderly, NEW x \in Invited(q)', NEW y \in Invited(q)' PROVE x = y
      BY <1>4, <3>2 DEF OneAtATime, Invited, Open
    <3> QED
      BY <3>1, <3>2, LanesSuffice
  \* An org that takes a new invitation has a seat left for each of its older ones.
  <2>4. CASE job \in Invitation /\ q = job.org
    <3>1. Cardinality(Members(q)) < seats[q] /\ job.widest = seats[q]
      BY <2>4, JobKinds DEF Checked, SeatLeft
    <3>2. seats[q] <= w
      <4>1. CASE s = r
        BY <1>2, <2>1, <3>1, <4>1
      <4>2. CASE s # r
        BY <1>2, <4>2 DEF IInv, SeatsCounted
      <4> QED
        BY <4>1, <4>2
    <3> QED
      BY <1>1, <2>1, <2>2, <2>3, <3>1, <3>2
  <2>5. CASE ~(job \in Invitation /\ q = job.org)
    <3>1. s # r /\ requests'[s] = requests[s]
      BY <1>2, <2>5
    <3>2. Invited(q)' \subseteq Invited(q)
      BY <1>2, <2>5 DEF Invited
    <3>3. /\ Cardinality(Invited(q)) \in Nat
          /\ Cardinality(Invited(q)') <= Cardinality(Invited(q))
      BY <3>2, BoundsAssumption, FS_Subset, FS_CardinalityType DEF Invited
    <3>4. /\ seats[q] <= w
          /\ Cardinality(Members(q)) + Cardinality(Invited(q)) < w + Lanes(q)
      BY <3>1 DEF IInv, SeatsCounted
    <3> QED
      BY <1>1, <2>1, <2>2, <2>3, <3>3, <3>4
  <2> QED
    BY <2>4, <2>5
<1>7. AdminRemainsInTurn'
  BY <1>1 DEF IInv, AdminRemainsInTurn
<1> QED
  BY <1>3, <1>4, <1>5, <1>6, <1>7 DEF IInv

(* A commit.  Only an invitation makes an org larger, and by one. *)

LEMMA CommitGrowth ==
  ASSUME TypeOK, TargetsOwnOrg, NEW r \in Requests, Commits(r), NEW q, q = requests[r].org
  PROVE  /\ Cardinality(Members(q)) \in Nat /\ Cardinality(Members(q)') \in Nat
         /\ requests[r] \in Change => Cardinality(Members(q)') <= Cardinality(Members(q))
         /\ Cardinality(Members(q)') <= Cardinality(Members(q)) + 1
<1>1. IsFiniteSet(Members(q)) /\ Cardinality(Members(q)) \in Nat /\ Cardinality(Members(q)') \in Nat
  BY MembersFinite DEF Members
<1> PICK job : job = requests[r]
  OBVIOUS
<1>2. job \in Invitation \union Change
  BY CommittedJob
<1>3. CASE job \in Change
  <2>1. Members(q)' \subseteq Members(q)
    <3> SUFFICES ASSUME NEW v \in Users, v \in Members(q)' PROVE v \in Members(q)
      BY DEF Members
    <3>1. CASE users'[v] = users[v]
      BY <3>1 DEF Members, Exists
    <3>2. CASE users'[v] # users[v]
      <4>1. users[v] = NoAccount \/ v \in Members(q)
        BY <3>2, CommitEffect
      <4>2. v = job.user
        BY <1>3, <3>2, JobKinds
           DEF Commits, InviteCommit, ChangeRoleCommit, RemoveCommit, TypeOK
      <4>3. users[v] = Removed \/ v \in Members(q)
        BY <1>3, <4>2 DEF TargetsOwnOrg
      <4> QED
        BY <4>1, <4>3, RowsAssumption
    <3> QED
      BY <3>1, <3>2
  <2>2. Cardinality(Members(q)') <= Cardinality(Members(q))
    BY <1>1, <2>1, FS_Subset
  <2> QED
    BY <1>1, <2>2
<1>4. CASE job \in Invitation
  <2>1. PICK u \in Users : InviteCommit(r, u)
    BY <1>4, JobKinds DEF Commits, ChangeRoleCommit, RemoveCommit
  <2>2. Members(q)' \subseteq Members(q) \union {u}
    <3>1. \A v \in Users \ {u} : users'[v] = users[v]
      BY <2>1 DEF InviteCommit, TypeOK
    <3> QED
      BY <3>1 DEF Members, Exists
  <2>3. /\ IsFiniteSet(Members(q) \union {u})
        /\ Cardinality(Members(q) \union {u}) <= Cardinality(Members(q)) + 1
        /\ Cardinality(Members(q) \union {u}) \in Nat
    <3>1. /\ IsFiniteSet(Members(q) \union {u})
          /\ \/ Cardinality(Members(q) \union {u}) = Cardinality(Members(q))
             \/ Cardinality(Members(q) \union {u}) = Cardinality(Members(q)) + 1
      BY <1>1, FS_AddElement, Zenon
    <3> QED
      BY <1>1, <3>1
  <2>4. Cardinality(Members(q)') <= Cardinality(Members(q) \union {u})
    BY <2>2, <2>3, FS_Subset
  <2>5. Cardinality(Members(q)') <= Cardinality(Members(q)) + 1
    BY <1>1, <2>3, <2>4
  <2> QED
    BY <1>1, <1>4, <2>5, JobKinds
<1> QED
  BY <1>2, <1>3, <1>4

LEMMA CommitIInv ==
  ASSUME IInv, TypeOK', NEW r \in Requests, Commits(r)
  PROVE  IInv'
<1> DEFINE j == requests[r]
<1>a. PICK o : o = j.org
  OBVIOUS
<1>b. PICK job : job = j
  OBVIOUS
<1>1. TypeOK /\ TargetsOwnOrg
  BY DEF IInv
<1>2. job \in Invitation \union Change /\ o \in Orgs /\ o = job.org
  BY <1>1, <1>a, <1>b, CommittedJob, JobKinds
<1>3. /\ requests'[r] = Idle
      /\ \A s \in Requests \ {r} : requests'[s] = requests[s]
  BY <1>1, CommittedJob DEF TypeOK
<1>4. \A q \in Orgs : q # o => Members(q)' = Members(q) /\ Admins(q)' = Admins(q)
  BY <1>1, <1>a, OtherOrgsKept
<1>5. \A s \in Requests : Open(s)' => s # r /\ requests'[s] = requests[s] /\ Open(s)
  BY <1>3, JobKinds DEF Open
<1>6. \A s \in Requests :
        Open(s)' /\ requests[s].org \in Orderly =>
          /\ requests[s].org \in Orgs
          /\ requests[s].org # o
  BY <1>1, <1>2, <1>5, <1>a, <1>b, JobKinds DEF IInv, OneAtATime, Open
<1>7. TargetsOwnOrg'
  <2> SUFFICES ASSUME NEW s \in Requests, requests'[s] \in Change
               PROVE  (\/ users[requests[s].user] = Removed
                       \/ requests[s].user \in Members(requests[s].org))'
    BY DEF TargetsOwnOrg
  <2>1. s # r /\ requests'[s] = requests[s]
    BY <1>5 DEF Open
  <2>2. PICK v, q : v = requests[s].user /\ q = requests[s].org
    OBVIOUS
  <2>3. v \in Users
    BY <2>1, <2>2 DEF Change
  <2>4. users[v] = Removed \/ v \in Members(q)
    BY <1>1, <2>1, <2>2 DEF TargetsOwnOrg
  <2>5. CASE users'[v] = users[v]
    BY <2>1, <2>2, <2>4, <2>5 DEF Members, Exists
  <2>6. CASE users'[v] # users[v]
    <3>1. /\ users[v] = NoAccount \/ v \in Members(o)
          /\ users'[v] = Removed \/ v \in Members(o)'
      BY <1>1, <1>a, <2>3, <2>6, CommitEffect
    <3>2. q = o
      BY <2>4, <3>1, RowsAssumption DEF Members, Exists
    <3> QED
      BY <2>1, <2>2, <3>1, <3>2 DEF Members, Exists
  <2> QED
    BY <2>5, <2>6
<1>8. OneAtATime'
  BY <1>5 DEF IInv, OneAtATime
<1>9. AdminStaysBehind'
  BY <1>4, <1>5, <1>6 DEF IInv, AdminStaysBehind, Demotes, NotLastAdmin
<1>10. SeatsCounted'
  <2> SUFFICES ASSUME NEW s \in Requests, NEW q \in Orgs,
                      requests'[s] \in Invitation, requests'[s].org = q
               PROVE  /\ seats'[q] <= requests'[s].widest
                      /\ Cardinality(Members(q)') + Cardinality(Invited(q)')
                           < requests'[s].widest + Lanes(q)
    BY DEF SeatsCounted
  <2>1. s # r /\ requests'[s] = requests[s]
    BY <1>5 DEF Open
  <2> PICK w : w = requests[s].widest
    OBVIOUS
  <2>2. w \in Nat /\ Lanes(q) \in Nat /\ seats' = seats
    BY <1>1, <2>1, JobKinds, CommittedJob, BoundsAssumption, FS_CardinalityType DEF Lanes
  <2>3. /\ seats[q] <= w
        /\ Cardinality(Members(q)) + Cardinality(Invited(q)) < w + Lanes(q)
    BY <2>1 DEF IInv, SeatsCounted
  <2>4. /\ Cardinality(Members(q)) \in Nat /\ Cardinality(Members(q)') \in Nat
    BY MembersFinite DEF Members
  <2>5. Invited(q)' \subseteq Invited(q) \ {r}
    BY <1>3, <1>5 DEF Invited, Open
  <2>6. /\ IsFiniteSet(Invited(q)) /\ Cardinality(Invited(q)) \in Nat
        /\ Cardinality(Invited(q)') \in Nat
        /\ Cardinality(Invited(q)') <= Cardinality(Invited(q) \ {r})
        /\ Cardinality(Invited(q) \ {r}) \in Nat
        /\ Cardinality(Invited(q) \ {r}) <= Cardinality(Invited(q))
    <3>1. IsFiniteSet(Invited(q)) /\ IsFiniteSet(Invited(q) \ {r})
      BY BoundsAssumption, FS_Subset DEF Invited
    <3>2. Invited(q) \ {r} \subseteq Invited(q)
      OBVIOUS
    <3> QED
      BY <2>5, <3>1, <3>2, FS_Subset, FS_CardinalityType
  <2>7. Cardinality(Members(q)') + Cardinality(Invited(q)')
          <= Cardinality(Members(q)) + Cardinality(Invited(q))
    <3>1. CASE q # o
      BY <1>4, <2>2, <2>4, <2>6, <3>1
    <3>2. CASE q = o /\ job \in Change
      <4>1. Cardinality(Members(q)') <= Cardinality(Members(q))
        BY <1>1, <1>a, <1>b, <3>2, CommitGrowth
      <4> QED
        BY <2>4, <2>6, <4>1
    <3>3. CASE q = o /\ job \in Invitation
      <4>1. Cardinality(Members(q)') <= Cardinality(Members(q)) + 1
        BY <1>1, <1>a, <3>3, CommitGrowth
      <4>2. r \in Invited(q)
        BY <1>a, <1>b, <3>3 DEF Invited
      <4>3. Cardinality(Invited(q) \ {r}) = Cardinality(Invited(q)) - 1
        BY <2>6, <4>2, FS_RemoveElement
      <4> QED
        BY <2>4, <2>6, <4>1, <4>3
    <3> QED
      BY <1>2, <3>1, <3>2, <3>3
  <2>8. Cardinality(Members(q)') + Cardinality(Invited(q)') < w + Lanes(q)
    BY <2>2, <2>3, <2>4, <2>6, <2>7
  <2> QED
    BY <2>1, <2>2, <2>3, <2>8
<1>11. AdminRemainsInTurn'
  <2> SUFFICES ASSUME NEW q \in Orderly PROVE Admins(q)' # {}
    BY DEF AdminRemainsInTurn
  <2>1. Admins(q) # {} /\ q \in Orgs
    BY OrderlyAssumption DEF IInv, AdminRemainsInTurn
  <2>2. CASE q # o
    BY <1>4, <2>1, <2>2
  <2>3. CASE q = o
    <3>1. ASSUME NEW a \in Admins(o), users'[a] = users[a]
          PROVE  a \in Admins(o)'
      BY <3>1 DEF Admins, Members, Exists
    <3>2. CASE Demotes(job)
      <4>1. PICK a \in Admins(o) : a # job.user
        BY <1>2, <1>b, <2>3, <3>2 DEF IInv, AdminStaysBehind, Open, NotLastAdmin
      <4>2. users'[a] = users[a]
        BY <1>1, <1>2, <1>b, <3>2, <4>1
           DEF Commits, InviteCommit, ChangeRoleCommit, RemoveCommit, Demotes, Change,
               TypeOK, Admins, Members
      <4> QED
        BY <2>3, <3>1, <4>1, <4>2
    <3>3. CASE ~Demotes(job)
      <4>1. PICK a \in Admins(o) : TRUE
        BY <2>1, <2>3
      <4>2. CASE users'[a] = users[a]
        BY <2>3, <3>1, <4>1, <4>2
      <4>3. CASE users'[a] # users[a]
        <5>1. a \in Users /\ Exists(a) /\ users[a] \in Account /\ users[a].org = o
          BY <1>1, <4>1 DEF Admins, Members, Exists, TypeOK
        <5>2. job \in Change /\ job.role = "org_admin" /\ ChangeRoleCommit(r) /\ a = job.user
          BY <1>1, <1>2, <1>b, <3>3, <4>3, <5>1, JobKinds
             DEF Commits, InviteCommit, ChangeRoleCommit, RemoveCommit, Demotes,
                 TypeOK, Exists
        <5>3. users'[a] = [users[a] EXCEPT !.role = "org_admin"]
          BY <1>1, <1>b, <4>3, <5>1, <5>2 DEF ChangeRoleCommit, TypeOK
        <5>4. users'[a] \in Account /\ users'[a].org = o /\ users'[a].role = "org_admin"
          BY <5>1, <5>3 DEF Account, Roles
        <5> QED
          BY <2>3, <5>1, <5>4, RowsAssumption DEF Admins, Members, Exists
      <4> QED
        BY <4>2, <4>3
    <3> QED
      BY <3>2, <3>3
  <2> QED
    BY <2>2, <2>3
<1> QED
  BY <1>7, <1>8, <1>9, <1>10, <1>11 DEF IInv

LEMMA NextIInv == IInv /\ [Next]_vars => IInv'
<1> SUFFICES ASSUME IInv, [Next]_vars PROVE IInv'
  OBVIOUS
<1>1. TypeOK /\ TypeOK'
  BY TypeNext DEF IInv
<1> QED
  BY <1>1, Steps, QuietIInv, StartIInv, PlanIInv, CommitIInv

\* The invariant the theorems below rest on.
THEOREM Invariance == Spec => []IInv
<1> QED
  BY InitIInv, NextIInv, PTL DEF Spec

\* The check of _ensure_not_last_org_admin keeps an admin in every org whose
\* requests come one after the other, however many other requests run.
THEOREM AdminStays == Spec => []AdminRemainsInTurn
<1>1. IInv => AdminRemainsInTurn
  BY DEF IInv
<1> QED
  BY Invariance, <1>1, PTL

\* The count of enforce_plan_limit: an org grows only by an invitation that found a
\* seat free in the plan of its day, whatever the webhook does to the plan, by no
\* more than the overlapping invitations beyond it, and by none in an orderly org.
LEMMA GrowthWithinPlan ==
  ASSUME IInv, [Next]_vars, NEW o \in Orgs,
         Cardinality(Members(o)') > Cardinality(Members(o))
  PROVE  \E r \in Requests :
           /\ requests[r] \in Invitation /\ requests[r].org = o
           /\ requests'[r] = Idle
           /\ Cardinality(Members(o)') < requests[r].widest + Lanes(o)
<1>1. TypeOK /\ TargetsOwnOrg
  BY DEF IInv
<1>2. /\ Cardinality(Members(o)) \in Nat /\ Cardinality(Members(o)') \in Nat
  BY MembersFinite DEF Members
<1>3. Members(o)' # Members(o)
  BY <1>2
<1>4. PICK r \in Requests : Commits(r)
  BY <1>1, <1>3, Steps, QuietKeepsOrgs DEF Quiet, Start, ChangePlan
<1>5. requests[r].org = o
  BY <1>1, <1>3, <1>4, OtherOrgsKept
<1>6. requests[r] \in Invitation /\ requests'[r] = Idle
  BY <1>1, <1>2, <1>4, <1>5, CommitGrowth, CommittedJob DEF TypeOK
<1>7. Cardinality(Members(o)') <= Cardinality(Members(o)) + 1
  BY <1>1, <1>4, <1>5, CommitGrowth
<1>8. Cardinality(Members(o)) + Cardinality(Invited(o)) < requests[r].widest + Lanes(o)
  BY <1>5, <1>6 DEF IInv, SeatsCounted
<1>9. Cardinality(Invited(o)) \in Nat /\ Cardinality(Invited(o)) >= 1
  <2>1. r \in Invited(o) /\ IsFiniteSet(Invited(o))
    BY <1>5, <1>6, BoundsAssumption, FS_Subset DEF Invited
  <2> QED
    BY <2>1, FS_EmptySet, FS_CardinalityType
<1>10. requests[r].widest \in Nat /\ Lanes(o) \in Nat
  BY <1>6, JobKinds, BoundsAssumption, FS_CardinalityType DEF Lanes
<1>11. Cardinality(Members(o)') < requests[r].widest + Lanes(o)
  BY <1>2, <1>7, <1>8, <1>9, <1>10
<1> QED
  BY <1>5, <1>6, <1>11

\* An org takes in nobody beyond the largest plan it had from the invitation's check
\* to its commit, however the billing webhook moves that plan (enforce_plan_limit);
\* overlapping invitations can outgrow it by their number, those of an orderly org
\* cannot.
THEOREM SeatsSuffice == Spec => SeatLimitKept
<1> DEFINE Kept == \A o \in Orgs :
       Cardinality(Members(o)') > Cardinality(Members(o)) =>
         \E r \in Requests :
           /\ requests[r] \in Invitation /\ requests[r].org = o
           /\ requests'[r] = Idle
           /\ Cardinality(Members(o)') < requests[r].widest + Lanes(o)
<1>1. IInv /\ [Next]_vars => [Kept]_vars
  BY GrowthWithinPlan
<1> QED
  BY Invariance, <1>1, PTL DEF Spec, SeatLimitKept

------------------------------------------------------------------------------
(* Who acts.  The claims of a token, and with them a request, go back to a   *)
(* time when the user was an admin.                                          *)

AuthorityHasSource ==
  /\ \A u \in Users, o \in Orgs :
       users[u] = [org |-> o, role |-> "org_admin"] => <<u, o>> \in adminsEver
  /\ \A t \in tokens : t.role = "org_admin" => <<t.user, t.org>> \in adminsEver
  /\ \A r \in Requests : Open(r) => <<requests[r].actor, requests[r].org>> \in adminsEver

LEMMA InitAuthority == Init => AuthorityHasSource
<1> SUFFICES ASSUME Init PROVE AuthorityHasSource
  OBVIOUS
<1>1. ASSUME NEW u \in Users, NEW o \in Orgs, users[u] = [org |-> o, role |-> "org_admin"]
      PROVE  <<u, o>> \in adminsEver
  <2>1. users[u] \in Account
    BY <1>1 DEF Account, Roles
  <2>2. Exists(u)
    BY <2>1, RowsAssumption DEF Exists
  <2>3. PICK q \in Orgs : u = Founder[q]
    BY <2>2 DEF Init
  <2>4. users[u] = [org |-> q, role |-> "org_admin"]
    BY <2>3 DEF Init
  <2>5. q = o
    BY <1>1, <2>4
  <2> QED
    BY <2>3, <2>5 DEF Init
<1>2. \A r \in Requests : ~Open(r)
  BY JobKinds DEF Init, Open
<1> QED
  BY <1>1, <1>2 DEF Init, AuthorityHasSource

LEMMA NextAuthority == IInv /\ AuthorityHasSource /\ [Next]_vars => AuthorityHasSource'
<1> SUFFICES ASSUME IInv, AuthorityHasSource, [Next]_vars PROVE AuthorityHasSource'
  OBVIOUS
<1>1. TypeOK /\ TypeOK'
  BY TypeNext DEF IInv
<1>2. CASE Quiet
  <2>1. UNCHANGED <<users, adminsEver>>
    BY <1>2 DEF Quiet
  <2>2. ASSUME NEW t \in tokens', t.role = "org_admin"
        PROVE  <<t.user, t.org>> \in adminsEver
    <3>1. t.user \in Users /\ t.org \in Orgs
      BY <1>1 DEF TypeOK, Token
    <3> QED
      BY <1>2, <2>2, <3>1 DEF Quiet, AuthorityHasSource
  <2>3. \A r \in Requests : Open(r)' => requests'[r] = requests[r] /\ Open(r)
    BY <1>2, JobKinds DEF Quiet, Open
  <2> QED
    BY <2>1, <2>2, <2>3 DEF AuthorityHasSource
<1>3. ASSUME NEW r \in Requests, NEW job \in Invitation \union Change,
             Start(r, job), Authorised(job)
      PROVE  AuthorityHasSource'
  <2>1. UNCHANGED <<users, tokens, adminsEver>>
    BY <1>3 DEF Start
  <2>2. /\ requests'[r] = job
        /\ \A s \in Requests \ {r} : requests'[s] = requests[s]
    BY <1>1, <1>3 DEF Start, TypeOK
  <2>3. <<job.actor, job.org>> \in adminsEver
    BY <1>3 DEF Authorised, AuthorityHasSource
  <2> QED
    BY <2>1, <2>2, <2>3 DEF AuthorityHasSource, Open
<1>4. ASSUME NEW o \in Orgs, NEW n \in PlanSeats, ChangePlan(o, n) PROVE AuthorityHasSource'
  <2>1. UNCHANGED <<users, tokens, adminsEver>>
    BY <1>4 DEF ChangePlan
  <2>2. \A r \in Requests : Open(r)' => /\ Open(r)
                                        /\ requests'[r].actor = requests[r].actor
                                        /\ requests'[r].org = requests[r].org
    BY <1>1, <1>4, WidenedJobs DEF Open
  <2> QED
    BY <2>1, <2>2 DEF AuthorityHasSource
<1>5. ASSUME NEW r \in Requests, Commits(r) PROVE AuthorityHasSource'
  <2>1. /\ UNCHANGED tokens
        /\ requests'[r] = Idle
        /\ \A s \in Requests \ {r} : requests'[s] = requests[s]
    BY <1>1, <1>5, CommittedJob DEF TypeOK
  <2>2. adminsEver' = adminsEver \union
          {p \in Users \X Orgs : users'[p[1]] = [org |-> p[2], role |-> "org_admin"]}
    BY <1>5 DEF Commits, InviteCommit, ChangeRoleCommit, RemoveCommit, Finish
  <2>3. ASSUME NEW u \in Users, NEW o \in Orgs, users'[u] = [org |-> o, role |-> "org_admin"]
        PROVE  <<u, o>> \in adminsEver'
    BY <2>2, <2>3
  <2>4. \A s \in Requests : Open(s)' => requests'[s] = requests[s] /\ Open(s)
    BY <2>1, JobKinds DEF Open
  <2> QED
    BY <2>1, <2>2, <2>3, <2>4 DEF AuthorityHasSource
<1> QED
  BY <1>1, <1>2, <1>3, <1>4, <1>5, Steps

LEMMA StepsAreAdmins ==
  ASSUME TypeOK, TargetsOwnOrg, AuthorityHasSource, [Next]_vars,
         NEW u \in Users, users'[u] # users[u]
  PROVE  \E r \in Requests :
           /\ requests[r] # Idle /\ requests'[r] = Idle
           /\ <<requests[r].actor, requests[r].org>> \in adminsEver
           /\ Exists(u) => users[u].org = requests[r].org
           /\ Exists(u)' => users'[u].org = requests[r].org
<1>1. PICK r \in Requests : Commits(r)
  BY Steps DEF Quiet, Start, ChangePlan
<1>2. PICK o : o = requests[r].org
  OBVIOUS
<1>3. requests[r] # Idle /\ requests'[r] = Idle
  BY <1>1, CommittedJob DEF TypeOK
<1>4. <<requests[r].actor, requests[r].org>> \in adminsEver
  BY <1>1, CommittedJob DEF AuthorityHasSource, Open
<1>5. /\ users[u] = NoAccount \/ u \in Members(o)
      /\ users'[u] = Removed \/ u \in Members(o)'
  BY <1>1, <1>2, CommitEffect
<1>6. (Exists(u) => users[u].org = o) /\ (Exists(u)' => users'[u].org = o)
  BY <1>5 DEF Members, Exists
<1> QED
  BY <1>2, <1>3, <1>4, <1>6

\* An account comes, changes or goes only by a request of its own org, from
\* somebody who was an admin of that org, whatever overlaps
\* (require_org_admin and the look-ups by org_id).
THEOREM AdminsAct == Spec => AdminsChangeMembers
<1>1. Init => AuthorityHasSource
  BY InitAuthority
<1>2. IInv /\ AuthorityHasSource /\ [Next]_vars => AuthorityHasSource'
  BY NextAuthority
<1> DEFINE Act == \A u \in Users :
       users'[u] # users[u] =>
         \E r \in Requests :
           /\ requests[r] # Idle /\ requests'[r] = Idle
           /\ <<requests[r].actor, requests[r].org>> \in adminsEver
           /\ Exists(u) => users[u].org = requests[r].org
           /\ Exists(u)' => users'[u].org = requests[r].org
<1>3. IInv /\ AuthorityHasSource /\ [Next]_vars => [Act]_vars
  BY StepsAreAdmins DEF IInv
<1> QED
  BY Invariance, <1>1, <1>2, <1>3, PTL DEF Spec, AdminsChangeMembers
==============================================================================
