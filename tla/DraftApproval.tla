---------------------------- MODULE DraftApproval ----------------------------
(***************************************************************************)
(* The draft-approval queue of the control plane: rows ingested by agent   *)
(* cells (api/internal/drafts_ingest.py), reviewed by users                *)
(* (api/v1/drafts.py), sent through the mail provider                      *)
(* (services/email_provider), each in one database session that commits at *)
(* the end of the request (api/deps.py).                                   *)
(*                                                                         *)
(* A request is a slot of the server's thread pool.  It reads committed    *)
(* rows once, at its start, without locking them; it calls the provider    *)
(* while the session is open; its writes become visible to the others when *)
(* it commits, column by changed column, by primary key.  Between any two  *)
(* of these points other requests run.                                     *)
(***************************************************************************)
CONSTANTS
  Orgs, Users, Connections, ProviderDrafts,
  DraftIds,        \* primary keys of the drafts table
  Requests,        \* request slots: the requests served at the same time
  Crashable,       \* the slots whose process may die in mid-request
  Orderly,         \* orgs whose requests happen to come one after the other
  UserOrg,         \* the org claim of a user's access token
  ConnectionOrg, ConnectionOwner,
  Mailbox,         \* the connection whose mailbox holds a provider draft
  OrgAdmins,       \* users with the org_admin role
  NoUser, Agent, NoOrg

ASSUME UsersAssumption ==
  /\ UserOrg \in [Users -> Orgs]
  /\ OrgAdmins \subseteq Users
  /\ NoUser \notin Users
  /\ NoOrg \notin Orgs
ASSUME ConnectionsAssumption ==
  /\ ConnectionOrg \in [Connections -> Orgs]
  /\ ConnectionOwner \in [Connections -> Users]
  /\ Mailbox \in [ProviderDrafts -> Connections]
ASSUME RequestsAssumption == Crashable \subseteq Requests /\ Orderly \subseteq Orgs

VARIABLES
  drafts,          \* the drafts table, as committed
  auditLog,        \* the audit_log table, as committed
  members,         \* the users that still have a row in the users table
  providerDrafts,  \* the provider's side of every draft
  requests,        \* what each request slot is doing
  grants,          \* history: <<row, user>> let through by approve_draft
  mail,            \* history: <<row, user>> whose approval made mail leave
  unrecorded       \* history: <<row, user>> whose mail left, and whose session
                   \* died or was rolled back before it could record that

vars == <<drafts, auditLog, members, providerDrafts, requests, grants, mail,
          unrecorded>>

NoRow == [status |-> "absent"]
Row == [org : Orgs, connection : Connections, providerDraft : ProviderDrafts,
        status : {"pending_review", "sent", "failed", "rejected"},
        reviewer : Users \union {NoUser}]

AuditEntry ==
  [action : {"draft.created", "draft.approved", "draft.send_failed",
             "draft.rejected"},
   actor : Users \union {Agent}, draft : DraftIds]

Idle == [step |-> "idle"]
IngestRequest == [step : {"insert"}, connection : Connections,
                  providerDraft : ProviderDrafts]
ReviewRequest == [step : {"send", "accepted", "refused", "reject"},
                  draft : DraftIds, user : Users]

TypeOK ==
  /\ drafts \in [DraftIds -> Row \union {NoRow}]
  /\ auditLog \subseteq AuditEntry
  /\ members \subseteq Users
  /\ providerDrafts \in [ProviderDrafts -> {"absent", "live", "sent", "gone"}]
  /\ requests \in [Requests -> {Idle} \union IngestRequest \union ReviewRequest]
  /\ grants \subseteq DraftIds \X Users
  /\ mail \subseteq DraftIds \X Users
  /\ unrecorded \subseteq mail

Init ==
  /\ drafts = [d \in DraftIds |-> NoRow]
  /\ auditLog = {}
  /\ members = Users
  /\ providerDrafts = [p \in ProviderDrafts |-> "absent"]
  /\ requests = [r \in Requests |-> Idle]
  /\ grants = {}
  /\ mail = {}
  /\ unrecorded = {}

Reviewing(r) == requests[r].step \in {"send", "accepted", "refused", "reject"}

\* Nothing in the code keeps the requests of a tenant apart; it is the tenant
\* that may have one reviewer and one agent that wait for each other.
Busy(o) ==
  \E r \in Requests :
    /\ requests[r] # Idle
    /\ o = IF requests[r].step = "insert" THEN ConnectionOrg[requests[r].connection]
           ELSE UserOrg[requests[r].user]

MayCall(o) == o \in Orderly => ~Busy(o)

------------------------------------------------------------------------------
(* The provider's side.  The agent's create_draft tool creates the draft in *)
(* the mailbox first and ingests it afterwards; the owner of the mailbox    *)
(* can send or delete it there at any time.                                 *)

CreateProviderDraft(p) ==
  /\ providerDrafts[p] = "absent"
  /\ providerDrafts' = [providerDrafts EXCEPT ![p] = "live"]
  /\ UNCHANGED <<drafts, auditLog, members, requests, grants, mail, unrecorded>>

OwnerDiscards(p) ==
  /\ providerDrafts[p] = "live"
  /\ providerDrafts' = [providerDrafts EXCEPT ![p] = "gone"]
  /\ UNCHANGED <<drafts, auditLog, members, requests, grants, mail, unrecorded>>

------------------------------------------------------------------------------
(* ingest_draft: the org comes from the cell's token, the connection and    *)
(* the provider draft from the payload.                                     *)

\* Mistakes to catch: any cell may file drafts under any tenant; the look-up of
\* an existing row is gone.
AnyConnection(o, c) == TRUE
NeverIngested(c, p) == FALSE

CellMayIngest(o, c) == ConnectionOrg[c] = o

Ingested(c, p) ==
  \E d \in DraftIds : /\ drafts[d].status # "absent"
                      /\ drafts[d].connection = c
                      /\ drafts[d].providerDraft = p

\* A cell ingests drafts it created, possibly more than once.
IngestRead(r, o, c, p) ==
  /\ requests[r] = Idle
  /\ MayCall(o)
  /\ providerDrafts[p] # "absent"
  /\ ConnectionOrg[Mailbox[p]] = o
  /\ CellMayIngest(o, c)
  /\ ~Ingested(c, p)
  /\ requests' = [requests EXCEPT
       ![r] = [step |-> "insert", connection |-> c, providerDraft |-> p]]
  /\ UNCHANGED <<drafts, auditLog, members, providerDrafts, grants, mail, unrecorded>>

IngestCommit(r, d) ==
  /\ requests[r].step = "insert"
  /\ drafts[d] = NoRow
  /\ drafts' = [drafts EXCEPT
       ![d] = [org |-> ConnectionOrg[requests[r].connection],
               connection |-> requests[r].connection,
               providerDraft |-> requests[r].providerDraft,
               status |-> "pending_review", reviewer |-> NoUser]]
  /\ auditLog' = auditLog \union
       {[action |-> "draft.created", actor |-> Agent, draft |-> d]}
  /\ requests' = [requests EXCEPT ![r] = Idle]
  /\ UNCHANGED <<members, providerDrafts, grants, mail, unrecorded>>
------------------------------------------------------------------------------
(* approve_draft and reject_draft.  The row is read once; its org,          *)
(* connection and provider draft never change, its status may.              *)

\* Mistakes to catch: a rejected draft can be reviewed again; a send that raised
\* is taken for a send that returned.
RejectedToo(d) == drafts[d].status \in {"pending_review", "rejected"}
SendAttempted(r) == requests[r].step \in {"accepted", "refused"}

Reviewable(d) == drafts[d].status = "pending_review"

SendReturned(r) == requests[r].step = "accepted"

OwnDraft(u, d) ==
  /\ drafts[d].status # "absent"
  /\ drafts[d].org = UserOrg[u]

\* The token is all that is checked: the user may have been removed since.
ApproveRead(r, u, d) ==
  /\ requests[r] = Idle
  /\ MayCall(UserOrg[u])
  /\ OwnDraft(u, d)
  /\ Reviewable(d)
  /\ ConnectionOrg[drafts[d].connection] = UserOrg[u]
  /\ requests' = [requests EXCEPT ![r] = [step |-> "send", draft |-> d, user |-> u]]
  /\ grants' = grants \union {<<d, u>>}
  /\ UNCHANGED <<drafts, auditLog, members, providerDrafts, mail, unrecorded>>

RejectRead(r, u, d) ==
  /\ requests[r] = Idle
  /\ MayCall(UserOrg[u])
  /\ OwnDraft(u, d)
  /\ Reviewable(d)
  /\ requests' = [requests EXCEPT ![r] = [step |-> "reject", draft |-> d, user |-> u]]
  /\ UNCHANGED <<drafts, auditLog, members, providerDrafts, grants, mail, unrecorded>>

------------------------------------------------------------------------------
(* provider.send_draft: sending consumes the draft.  An answer can be lost  *)
(* after the mail has left (a timeout), and any failure before it, a token  *)
(* that cannot be refreshed included, raises as well.                       *)

Deliver(r, outcome) ==
  LET d == requests[r].draft
      p == drafts[d].providerDraft
  IN /\ requests[r].step = "send"
     /\ providerDrafts[p] = "live"
     /\ Mailbox[p] = drafts[d].connection
     /\ providerDrafts' = [providerDrafts EXCEPT ![p] = "sent"]
     /\ mail' = mail \union {<<d, requests[r].user>>}
     /\ requests' = [requests EXCEPT ![r].step = outcome]
     /\ UNCHANGED <<drafts, auditLog, members, grants, unrecorded>>

SendAccepted(r) == Deliver(r, "accepted")

SendUnanswered(r) == Deliver(r, "refused")

SendRefused(r) ==
  /\ requests[r].step = "send"
  /\ requests' = [requests EXCEPT ![r].step = "refused"]
  /\ UNCHANGED <<drafts, auditLog, members, providerDrafts, grants, mail, unrecorded>>

Send(r) == SendAccepted(r) \/ SendUnanswered(r) \/ SendRefused(r)

------------------------------------------------------------------------------
(* The end of a review: the UPDATE and the audit row in one transaction.    *)
(* The reviewer column is a foreign key into users, so the flush of a       *)
(* verdict by a removed user fails and the session rolls back.  A failed    *)
(* send is committed although the request answers with an error, and        *)
(* writes the status column only.                                           *)

\* Mistakes to catch: failed sends are not audited; a failed send leaves the
\* row as it was; a status the model of the table does not know.
UnauditedFailures(a, u, d) ==
  IF a = "draft.send_failed" THEN {} ELSE {[action |-> a, actor |-> u, draft |-> d]}
UntouchedStatus == "pending_review"
UnknownStatus == "error"

Entries(a, u, d) == {[action |-> a, actor |-> u, draft |-> d]}

FailedStatus == "failed"

Record(r, status, action) ==
  LET d == requests[r].draft
      u == requests[r].user
  IN /\ u \in members
     /\ drafts' = [drafts EXCEPT ![d].status = status, ![d].reviewer = u]
     /\ auditLog' = auditLog \union Entries(action, u, d)
     /\ requests' = [requests EXCEPT ![r] = Idle]
     /\ UNCHANGED <<members, providerDrafts, grants, mail, unrecorded>>

ApproveCommit(r) == SendReturned(r) /\ Record(r, "sent", "draft.approved")

RejectCommit(r) ==
  /\ requests[r].step = "reject"
  /\ Record(r, "rejected", "draft.rejected")

\* The mail that r's review has made leave, if any.
MailOf(r) ==
  {m \in mail : /\ requests[r].step \in {"accepted", "refused"}
                /\ m = <<requests[r].draft, requests[r].user>>}

ReviewRollback(r) ==
  /\ requests[r].step \in {"accepted", "reject"}
  /\ requests[r].user \notin members
  /\ requests' = [requests EXCEPT ![r] = Idle]
  /\ unrecorded' = unrecorded \union MailOf(r)
  /\ UNCHANGED <<drafts, auditLog, members, providerDrafts, grants, mail>>

FailCommit(r) ==
  LET d == requests[r].draft
  IN /\ requests[r].step = "refused"
     /\ drafts' = [drafts EXCEPT ![d].status = FailedStatus]
     /\ auditLog' = auditLog \union
                      Entries("draft.send_failed", requests[r].user, d)
     /\ requests' = [requests EXCEPT ![r] = Idle]
     /\ UNCHANGED <<members, providerDrafts, grants, mail, unrecorded>>

Finish(r) ==
  ApproveCommit(r) \/ RejectCommit(r) \/ ReviewRollback(r) \/ FailCommit(r)

\* The process that serves r dies: nothing of the session is committed.
Crash(r) ==
  /\ r \in Crashable
  /\ requests[r] # Idle
  /\ requests' = [requests EXCEPT ![r] = Idle]
  /\ unrecorded' = unrecorded \union MailOf(r)
  /\ UNCHANGED <<drafts, auditLog, members, providerDrafts, grants, mail>>

------------------------------------------------------------------------------
(* remove_member, as one step (OrgMembership.tla splits it).  Mailboxes and *)
(* reviewed drafts refer to the user, so the DELETE fails for their owner   *)
(* and their reviewer.                                                      *)
RemoveMember(u) ==
  /\ \E a \in OrgAdmins : UserOrg[a] = UserOrg[u]
  /\ u \in members
  /\ u \in OrgAdmins =>
       \E a \in (OrgAdmins \intersect members) \ {u} : UserOrg[a] = UserOrg[u]
  /\ \A c \in Connections : ConnectionOwner[c] # u
  /\ \A d \in DraftIds : drafts[d].status # "absent" => drafts[d].reviewer # u
  /\ members' = members \ {u}
  /\ UNCHANGED <<drafts, auditLog, providerDrafts, requests, grants, mail, unrecorded>>

------------------------------------------------------------------------------
Next ==
  \/ \E p \in ProviderDrafts : CreateProviderDraft(p) \/ OwnerDiscards(p)
  \/ \E r \in Requests :
       \/ \E o \in Orgs, c \in Connections, p \in ProviderDrafts : IngestRead(r, o, c, p)
       \/ \E d \in DraftIds : IngestCommit(r, d)
       \/ \E u \in Users, d \in DraftIds : ApproveRead(r, u, d) \/ RejectRead(r, u, d)
       \/ Send(r)
       \/ Finish(r)
       \/ Crash(r)
  \/ \E u \in Users : RemoveMember(u)

Spec == Init /\ [][Next]_vars

\* The server runs the requests it has started: a thread of the pool is never
\* parked, both providers answer or time out, and commits return.
Fairness == \A r \in Requests : WF_vars(Send(r)) /\ WF_vars(Finish(r))

FairSpec == Spec /\ Fairness

------------------------------------------------------------------------------
(* Properties                                                               *)

\* A draft recorded as sent did leave through its provider, and it left on the
\* approval of the very user recorded as its reviewer (approve_draft), whatever
\* other approvals and rejections of the same draft overlapped with that one.
SentMeansDelivered ==
  \A d \in DraftIds :
    drafts[d].status = "sent" => <<d, drafts[d].reviewer>> \in mail

\* The audit log explains every verdict: who sent or rejected the draft, and
\* for a failed one that some send did fail (record_audit_event in drafts.py).
VerdictsAudited ==
  \A d \in DraftIds :
    /\ drafts[d].status = "sent" =>
         [action |-> "draft.approved", actor |-> drafts[d].reviewer, draft |-> d] \in auditLog
    /\ drafts[d].status = "rejected" =>
         [action |-> "draft.rejected", actor |-> drafts[d].reviewer, draft |-> d] \in auditLog
    /\ drafts[d].status = "failed" =>
         \E u \in Users :
           [action |-> "draft.send_failed", actor |-> u, draft |-> d] \in auditLog

\* No tenant touches another one's mail: a row, its connection, the mailbox
\* that holds its provider draft, its reviewer and everyone whose approval made
\* it leave belong to one org (ingest_draft, _get_org_draft).
TenantIsolation ==
  \A d \in DraftIds :
    drafts[d].status # "absent" =>
      /\ ConnectionOrg[drafts[d].connection] = drafts[d].org
      /\ ConnectionOrg[Mailbox[drafts[d].providerDraft]] = drafts[d].org
      /\ drafts[d].reviewer \in Users => UserOrg[drafts[d].reviewer] = drafts[d].org
      /\ \A u \in Users : <<d, u>> \in mail => UserOrg[u] = drafts[d].org

\* Mail that left is accounted for once the request that sent it is over: the
\* log names the user and says the draft was sent or that the send failed
\* (docs/architecture.md: sending is a "deterministic, audited, human-gated
\* action").  The one way out is a session that is lost between the provider's
\* answer and its own commit: its process dies, or its reviewer has been removed.
EveryMailAudited ==
  \A d \in DraftIds, u \in Users :
    <<d, u>> \in mail \ unrecorded =>
      \/ \E r \in Requests : <<d, u>> \in MailOf(r)
      \/ \E a \in {"draft.approved", "draft.send_failed"} :
           [action |-> a, actor |-> u, draft |-> d] \in auditLog

\* Mail that left is not offered for review for ever: its row gets a verdict,
\* also when the provider's answer was lost (approve_draft's except branch), and
\* unless the session that sent it was lost before its commit.
MailGetsVerdict ==
  \A d \in DraftIds, u \in Users :
    <<d, u>> \in mail ~> \/ drafts[d].status # "pending_review"
                        \/ <<d, u>> \in unrecorded

\* A draft that is sent or rejected, and that no review let in before is still
\* working on, is settled: its row stays as it is, no review starts and no more
\* of its mail leaves, whatever overlaps, dies or is removed (the 409 of
\* approve_draft and reject_draft).  A failed draft is left out: drafts.py:60
\* wants it reviewable.
Settled(d) ==
  /\ drafts[d].status \in {"sent", "rejected"}
  /\ \A r \in Requests : Reviewing(r) => requests[r].draft # d

VerdictIsFinal ==
  [][\A d \in DraftIds :
       Settled(d) => /\ Settled(d)'
                     /\ drafts'[d] = drafts[d]
                     /\ \A u \in Users : <<d, u>> \in mail' => <<d, u>> \in mail]_vars

\* A rejected draft was not sent by the control plane, where requests do not
\* overlap (reject_draft's guard), unless the session that sent it was lost
\* before its commit and left the draft open for a rejection.
RejectedNeverMailed ==
  \A d \in DraftIds, u \in Users :
    /\ drafts[d].status = "rejected"
    /\ drafts[d].org \in Orderly
    /\ <<d, u>> \in mail
    => <<d, u>> \in unrecorded

\* A provider draft waits in the inbox once, however often the agent ingests
\* it, as long as it waits for the answer (the look-up of ingest_draft).
OneRowPerProviderDraft ==
  \A d, e \in DraftIds :
    /\ drafts[d].status # "absent"
    /\ drafts[e].status # "absent"
    /\ drafts[d].org \in Orderly
    /\ drafts[d].connection = drafts[e].connection
    /\ drafts[d].providerDraft = drafts[e].providerDraft
    => d = e

------------------------------------------------------------------------------
(* The queue keeps the promise of HumanGate.                                *)
Gate == INSTANCE HumanGate WITH
  Drafts <- DraftIds,
  tenant <- [d \in DraftIds |-> IF drafts[d].status = "absent" THEN NoOrg ELSE drafts[d].org],
  verdict <- [d \in DraftIds |-> drafts[d].status],
  granted <- grants,
  delivered <- mail

\* Every behaviour of the queue is one of the human gate: no mail without a
\* grant given while the draft was open, to a user of its tenant; no "sent"
\* without mail; no way back to review.
GateSpec == Gate!Spec
==============================================================================
