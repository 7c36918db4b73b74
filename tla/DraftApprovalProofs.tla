------------------------- MODULE DraftApprovalProofs -------------------------
(***************************************************************************)
(* Proofs about the draft-approval queue, for any number of tenants,       *)
(* users, mailboxes, drafts and overlapping requests, with processes that  *)
(* die and members that are removed at any point.                          *)
(***************************************************************************)
EXTENDS DraftApproval, TLAPS

------------------------------------------------------------------------------
(* Types.  A verdict is an UPDATE of two columns of a row: it yields a row   *)
(* only because a review never works on a draft that is not in the table.    *)

ReviewsOnRows ==
  \A r \in Requests : Reviewing(r) => drafts[requests[r].draft] \in Row

LEMMA TypeInit == Init => TypeOK /\ ReviewsOnRows
  BY UsersAssumption DEF Init, TypeOK, ReviewsOnRows, Reviewing, Row, NoRow, Idle

LEMMA TypeNext == TypeOK /\ ReviewsOnRows /\ [Next]_vars => TypeOK'
<1> SUFFICES ASSUME TypeOK, ReviewsOnRows, [Next]_vars PROVE TypeOK'
  OBVIOUS
<1> USE DEF TypeOK
<1>1. ASSUME NEW p \in ProviderDrafts, CreateProviderDraft(p) \/ OwnerDiscards(p)
      PROVE  TypeOK'
  BY <1>1 DEF CreateProviderDraft, OwnerDiscards
<1>2. ASSUME NEW r \in Requests, NEW o \in Orgs, NEW c \in Connections,
             NEW p \in ProviderDrafts, IngestRead(r, o, c, p)
      PROVE  TypeOK'
  BY <1>2 DEF IngestRead, IngestRequest
<1>3. ASSUME NEW r \in Requests, NEW d \in DraftIds, IngestCommit(r, d)
      PROVE  TypeOK'
  <2>1. requests[r] \in IngestRequest
    BY <1>3 DEF IngestCommit, Idle, ReviewRequest
  <2>2. [org |-> ConnectionOrg[requests[r].connection],
         connection |-> requests[r].connection,
         providerDraft |-> requests[r].providerDraft,
         status |-> "pending_review", reviewer |-> NoUser] \in Row
    BY <2>1, ConnectionsAssumption DEF IngestRequest, Row
  <2>3. [action |-> "draft.created", actor |-> Agent, draft |-> d] \in AuditEntry
    BY DEF AuditEntry
  <2> QED
    BY <1>3, <2>2, <2>3 DEF IngestCommit
<1>4. ASSUME NEW r \in Requests, NEW u \in Users, NEW d \in DraftIds,
             ApproveRead(r, u, d) \/ RejectRead(r, u, d)
      PROVE  TypeOK'
  BY <1>4 DEF ApproveRead, RejectRead, ReviewRequest
<1>5. ASSUME NEW r \in Requests, Send(r)
      PROVE  TypeOK'
  <2>1. /\ requests[r] \in ReviewRequest
        /\ [requests[r] EXCEPT !.step = "accepted"] \in ReviewRequest
        /\ [requests[r] EXCEPT !.step = "refused"] \in ReviewRequest
    BY <1>5 DEF Send, SendAccepted, SendUnanswered, SendRefused, Deliver,
                Idle, IngestRequest, ReviewRequest
  <2>2. CASE SendRefused(r)
    BY <2>1, <2>2 DEF SendRefused
  <2>3. CASE SendAccepted(r) \/ SendUnanswered(r)
    <3>1. /\ requests[r].draft \in DraftIds
          /\ requests[r].user \in Users
      BY <2>1 DEF ReviewRequest
    <3> QED
      BY <2>1, <2>3, <3>1 DEF SendAccepted, SendUnanswered, Deliver
  <2> QED
    BY <1>5, <2>2, <2>3 DEF Send
<1>6. ASSUME NEW r \in Requests, Finish(r)
      PROVE  TypeOK'
  <2>1. /\ requests[r].draft \in DraftIds
        /\ requests[r].user \in Users
        /\ drafts[requests[r].draft] \in Row
    BY <1>6 DEF Finish, ApproveCommit, RejectCommit, ReviewRollback, FailCommit,
                SendReturned, Idle, IngestRequest, ReviewRequest, ReviewsOnRows, Reviewing
  <2> DEFINE d == requests[r].draft
             u == requests[r].user
  <2>2. ASSUME NEW s \in {"sent", "rejected"},
               NEW a \in {"draft.approved", "draft.rejected"}, Record(r, s, a)
        PROVE  TypeOK'
    <3>1. [drafts[d] EXCEPT !.status = s, !.reviewer = u] \in Row
      BY <2>1 DEF Row
    <3>2. Entries(a, u, d) \subseteq AuditEntry
      BY <2>1 DEF Entries, AuditEntry
    <3> QED
      BY <2>2, <3>1, <3>2 DEF Record
  <2>3. CASE FailCommit(r)
    <3>1. Entries("draft.send_failed", u, d) \subseteq AuditEntry
      BY <2>1 DEF Entries, AuditEntry
    <3> QED
      BY <2>1, <2>3, <3>1 DEF FailCommit, FailedStatus, Row
  <2>4. CASE ReviewRollback(r)
    BY <2>4 DEF ReviewRollback, MailOf
  <2> QED
    BY <1>6, <2>2, <2>3, <2>4 DEF Finish, ApproveCommit, RejectCommit
<1>7. ASSUME NEW r \in Requests, Crash(r)
      PROVE  TypeOK'
  BY <1>7 DEF Crash, MailOf
<1>8. ASSUME NEW u \in Users, RemoveMember(u)
      PROVE  TypeOK'
  BY <1>8 DEF RemoveMember
<1>9. CASE UNCHANGED vars
  BY <1>9 DEF vars
<1> QED
  BY <1>1, <1>2, <1>3, <1>4, <1>5, <1>6, <1>7, <1>8, <1>9 DEF Next

LEMMA ReviewsOnRowsNext ==
  TypeOK /\ ReviewsOnRows /\ [Next]_vars => ReviewsOnRows'
<1> SUFFICES ASSUME TypeOK, ReviewsOnRows, [Next]_vars,
                    NEW s \in Requests, Reviewing(s)'
             PROVE  drafts'[requests'[s].draft] \in Row
  BY DEF ReviewsOnRows
<1> USE DEF TypeOK, ReviewsOnRows, Reviewing
<1>1. ASSUME NEW p \in ProviderDrafts, CreateProviderDraft(p) \/ OwnerDiscards(p)
      PROVE  drafts'[requests'[s].draft] \in Row
  BY <1>1 DEF CreateProviderDraft, OwnerDiscards
<1>2. ASSUME NEW r \in Requests, NEW o \in Orgs, NEW c \in Connections,
             NEW p \in ProviderDrafts, IngestRead(r, o, c, p)
      PROVE  drafts'[requests'[s].draft] \in Row
  BY <1>2 DEF IngestRead
<1>3. ASSUME NEW r \in Requests, NEW d \in DraftIds, IngestCommit(r, d)
      PROVE  drafts'[requests'[s].draft] \in Row
  <2>1. s # r /\ requests'[s] = requests[s]
    BY <1>3 DEF IngestCommit, Idle
  <2>2. requests[s].draft # d
    BY <1>3, <2>1 DEF IngestCommit, Row, NoRow
  <2> QED
    BY <1>3, <2>1, <2>2 DEF IngestCommit
<1>4. ASSUME NEW r \in Requests, NEW u \in Users, NEW d \in DraftIds,
             ApproveRead(r, u, d) \/ RejectRead(r, u, d)
      PROVE  drafts'[requests'[s].draft] \in Row
  <2>1. drafts[d] \in Row
    BY <1>4 DEF ApproveRead, RejectRead, OwnDraft, NoRow
  <2> QED
    BY <1>4, <2>1 DEF ApproveRead, RejectRead
<1>5. ASSUME NEW r \in Requests, Send(r)
      PROVE  drafts'[requests'[s].draft] \in Row
  <2>1. requests[r] \in ReviewRequest
    BY <1>5 DEF Send, SendAccepted, SendUnanswered, SendRefused, Deliver,
                Idle, IngestRequest
  <2>2. drafts' = drafts /\ requests'[s].draft = requests[s].draft /\ Reviewing(s)
    BY <1>5, <2>1 DEF Send, SendAccepted, SendUnanswered, SendRefused, Deliver, ReviewRequest
  <2> QED
    BY <2>2
<1>6. ASSUME NEW r \in Requests, Finish(r)
      PROVE  drafts'[requests'[s].draft] \in Row
  <2>1. s # r /\ requests'[s] = requests[s] /\ drafts[requests[s].draft] \in Row
    BY <1>6 DEF Finish, ApproveCommit, RejectCommit, ReviewRollback, FailCommit,
                Record, Idle
  <2>2. requests[s] \in ReviewRequest
    BY <2>1 DEF Idle, IngestRequest
  <2>3. /\ requests[r].draft \in DraftIds
        /\ requests[r].user \in Users
    BY <1>6 DEF Finish, ApproveCommit, RejectCommit, ReviewRollback, FailCommit,
                SendReturned, Idle, IngestRequest, ReviewRequest
  <2> QED
    BY <1>6, <2>1, <2>2, <2>3 DEF Finish, ApproveCommit, RejectCommit, ReviewRollback,
         FailCommit, Record, FailedStatus, ReviewRequest, Row
<1>7. ASSUME NEW r \in Requests, Crash(r)
      PROVE  drafts'[requests'[s].draft] \in Row
  BY <1>7 DEF Crash, Idle
<1>8. ASSUME NEW u \in Users, RemoveMember(u)
      PROVE  drafts'[requests'[s].draft] \in Row
  BY <1>8 DEF RemoveMember
<1>9. CASE UNCHANGED vars
  BY <1>9 DEF vars
<1> QED
  BY <1>1, <1>2, <1>3, <1>4, <1>5, <1>6, <1>7, <1>8, <1>9 DEF Next

\* The tables, the provider's drafts and the request slots hold only what their
\* declarations allow (models/draft.py), and no review works on a missing row.
THEOREM TypeCorrect == Spec => [](TypeOK /\ ReviewsOnRows)
<1> QED
  BY TypeInit, TypeNext, ReviewsOnRowsNext, PTL DEF Spec

------------------------------------------------------------------------------
(* The gate.  SentMeansDelivered is not inductive: why the accepted request  *)
(* that records "sent" was let through, and that its mail left, must be      *)
(* known for as long as the request is under way.                            *)

Sends(r) == requests[r].step \in {"send", "accepted", "refused"}

\* A sending request was let through, and once accepted its mail has left.
SendsGranted ==
  \A r \in Requests :
    /\ Sends(r) => <<requests[r].draft, requests[r].user>> \in grants
    /\ requests[r].step = "accepted" => <<requests[r].draft, requests[r].user>> \in mail

\* Reviewing and grants are about rows of the user's own org.
ReviewsOwnOrg ==
  /\ \A r \in Requests :
       Reviewing(r) => drafts[requests[r].draft].org = UserOrg[requests[r].user]
  /\ \A d \in DraftIds, u \in Users :
       <<d, u>> \in grants => drafts[d] \in Row /\ drafts[d].org = UserOrg[u]

\* An ingestion under way is for a mailbox of the cell's own org.
InsertsOwnOrg ==
  \A r \in Requests :
    requests[r].step = "insert" =>
      ConnectionOrg[Mailbox[requests[r].providerDraft]] = ConnectionOrg[requests[r].connection]

IInv ==
  /\ mail \subseteq grants
  /\ SendsGranted
  /\ ReviewsOwnOrg
  /\ InsertsOwnOrg
  /\ SentMeansDelivered
  /\ VerdictsAudited
  /\ TenantIsolation

LEMMA GateInit == Init => IInv
  BY UsersAssumption DEF Init, IInv, SendsGranted, Sends, ReviewsOwnOrg, Reviewing, InsertsOwnOrg,
     SentMeansDelivered, VerdictsAudited, TenantIsolation, Idle, NoRow, Row

LEMMA GateNext ==
  TypeOK /\ ReviewsOnRows /\ TypeOK' /\ IInv /\ [Next]_vars => IInv'
<1> SUFFICES ASSUME TypeOK, ReviewsOnRows, TypeOK', IInv, [Next]_vars PROVE IInv'
  OBVIOUS
<1> USE DEF IInv
<1>1. ASSUME NEW p \in ProviderDrafts, CreateProviderDraft(p) \/ OwnerDiscards(p)
      PROVE  IInv'
  <2>1. UNCHANGED <<drafts, auditLog, requests, grants, mail>>
    BY <1>1 DEF CreateProviderDraft, OwnerDiscards
  <2> QED
    BY <2>1 DEF SendsGranted, Sends, ReviewsOwnOrg, Reviewing,
                InsertsOwnOrg, SentMeansDelivered, VerdictsAudited, TenantIsolation
<1>2. ASSUME NEW r \in Requests, NEW o \in Orgs, NEW c \in Connections,
             NEW p \in ProviderDrafts, IngestRead(r, o, c, p)
      PROVE  IInv'
  <2>1. /\ UNCHANGED <<drafts, auditLog, grants, mail>>
        /\ \A s \in Requests : s # r => requests'[s] = requests[s]
        /\ requests'[r] = [step |-> "insert", connection |-> c, providerDraft |-> p]
        /\ ConnectionOrg[Mailbox[p]] = ConnectionOrg[c]
    BY <1>2 DEF IngestRead, CellMayIngest, TypeOK
  <2>2. SendsGranted' /\ ReviewsOwnOrg'
    BY <2>1 DEF SendsGranted, Sends, ReviewsOwnOrg, Reviewing
  <2>3. InsertsOwnOrg'
    BY <2>1 DEF InsertsOwnOrg
  <2> QED
    BY <2>1, <2>2, <2>3 DEF SentMeansDelivered, VerdictsAudited, TenantIsolation
<1>3. ASSUME NEW r \in Requests, NEW d \in DraftIds, IngestCommit(r, d)
      PROVE  IInv'
  <2> DEFINE new == [org |-> ConnectionOrg[requests[r].connection],
                     connection |-> requests[r].connection,
                     providerDraft |-> requests[r].providerDraft,
                     status |-> "pending_review", reviewer |-> NoUser]
  <2>1. /\ drafts[d] = NoRow /\ drafts[d] \notin Row
        /\ drafts' = [drafts EXCEPT ![d] = new]
        /\ requests' = [requests EXCEPT ![r] = Idle]
        /\ auditLog \subseteq auditLog'
        /\ mail' = mail /\ grants' = grants
    BY <1>3 DEF IngestCommit, Row, NoRow
  <2> HIDE DEF new
  <2>2. /\ drafts'[d] = new
        /\ \A e \in DraftIds : e # d => drafts'[e] = drafts[e]
        /\ \A s \in Requests : s # r => requests'[s] = requests[s]
        /\ requests'[r] = Idle
    BY <2>1 DEF TypeOK
  <2>3. \A u \in Users : <<d, u>> \notin grants /\ <<d, u>> \notin mail
    BY <2>1 DEF ReviewsOwnOrg
  <2>4. \A s \in Requests : Reviewing(s) => requests[s].draft \in DraftIds /\ requests[s].draft # d
    BY <2>1 DEF ReviewsOnRows, TypeOK, Reviewing, ReviewRequest, IngestRequest, Idle
  <2>5. SendsGranted' /\ InsertsOwnOrg'
    BY <2>1, <2>2 DEF SendsGranted, Sends, InsertsOwnOrg, Idle
  <2>6. ReviewsOwnOrg'
    BY <2>1, <2>2, <2>3, <2>4 DEF ReviewsOwnOrg, Reviewing, Idle
  <2>7. SentMeansDelivered' /\ VerdictsAudited'
    BY <2>1, <2>2 DEF new, SentMeansDelivered, VerdictsAudited
  <2>8. TenantIsolation'
    BY <1>3, <2>1, <2>2, <2>3, UsersAssumption DEF new, TenantIsolation, InsertsOwnOrg, IngestCommit
  <2> QED
    BY <2>1, <2>5, <2>6, <2>7, <2>8
<1>4. ASSUME NEW r \in Requests, NEW u \in Users, NEW d \in DraftIds,
             ApproveRead(r, u, d) \/ RejectRead(r, u, d)
      PROVE  IInv'
  <2>1. /\ drafts[d] \in Row /\ drafts[d].org = UserOrg[u]
        /\ drafts' = drafts /\ auditLog' = auditLog /\ mail' = mail
        /\ \A s \in Requests : s # r => requests'[s] = requests[s]
        /\ requests'[r].draft = d /\ requests'[r].user = u
        /\ \/ requests'[r].step = "send" /\ grants' = grants \union {<<d, u>>}
           \/ requests'[r].step = "reject" /\ grants' = grants
    BY <1>4 DEF ApproveRead, RejectRead, OwnDraft, TypeOK, NoRow
  <2>2. SendsGranted' /\ InsertsOwnOrg'
    BY <2>1 DEF SendsGranted, Sends, InsertsOwnOrg
  <2>3. ReviewsOwnOrg'
    BY <2>1 DEF ReviewsOwnOrg, Reviewing
  <2> QED
    BY <2>1, <2>2, <2>3 DEF SentMeansDelivered, VerdictsAudited, TenantIsolation
<1>5. ASSUME NEW r \in Requests, Send(r)
      PROVE  IInv'
  <2> DEFINE d == requests[r].draft
             u == requests[r].user
  <2>1. d \in DraftIds /\ u \in Users /\ requests[r].step = "send"
    BY <1>5 DEF Send, SendAccepted, SendUnanswered, SendRefused, Deliver, TypeOK,
                Idle, IngestRequest, ReviewRequest
  <2>2. /\ drafts' = drafts /\ auditLog' = auditLog /\ grants' = grants
        /\ \A s \in Requests : s # r => requests'[s] = requests[s]
        /\ requests'[r].draft = d /\ requests'[r].user = u
        /\ \/ requests'[r].step = "refused" /\ mail' = mail
           \/ requests'[r].step \in {"accepted", "refused"} /\ mail' = mail \union {<<d, u>>}
    BY <1>5 DEF Send, SendAccepted, SendUnanswered, SendRefused, Deliver, TypeOK,
                Idle, IngestRequest, ReviewRequest
  <2> HIDE DEF d, u
  <2>3. <<d, u>> \in grants /\ drafts[d].org = UserOrg[u]
    BY <2>1 DEF d, u, SendsGranted, Sends, ReviewsOwnOrg
  <2>4. mail' \subseteq grants' /\ SendsGranted' /\ InsertsOwnOrg'
    BY <2>2, <2>3 DEF SendsGranted, Sends, InsertsOwnOrg
  <2>5. ReviewsOwnOrg'
    BY <2>2, <2>3 DEF ReviewsOwnOrg, Reviewing
  <2>6. SentMeansDelivered' /\ VerdictsAudited' /\ TenantIsolation'
    BY <2>2, <2>3 DEF SentMeansDelivered, VerdictsAudited, TenantIsolation
  <2> QED
    BY <2>4, <2>5, <2>6
<1>6. ASSUME NEW r \in Requests, Finish(r)
      PROVE  IInv'
  <2> DEFINE d == requests[r].draft
             u == requests[r].user
  <2>1. d \in DraftIds /\ u \in Users /\ drafts[d] \in Row /\ drafts[d].org = UserOrg[u]
    BY <1>6 DEF Finish, ApproveCommit, RejectCommit, ReviewRollback, FailCommit,
                SendReturned, Idle, IngestRequest, ReviewRequest, TypeOK,
                ReviewsOnRows, ReviewsOwnOrg, Reviewing
  <2>2. /\ mail' = mail /\ grants' = grants /\ requests'[r] = Idle
        /\ \A s \in Requests : s # r => requests'[s] = requests[s]
        /\ auditLog \subseteq auditLog'
        /\ \A e \in DraftIds : e # d => drafts'[e] = drafts[e]
    BY <1>6, <2>1 DEF Finish, ApproveCommit, RejectCommit, ReviewRollback, FailCommit, Record, TypeOK
  <2>3. /\ drafts'[d] \in Row
        /\ drafts'[d].org = drafts[d].org
        /\ drafts'[d].connection = drafts[d].connection
        /\ drafts'[d].providerDraft = drafts[d].providerDraft
        /\ drafts'[d].reviewer \in {u, drafts[d].reviewer}
    BY <1>6, <2>1 DEF Finish, ApproveCommit, RejectCommit, ReviewRollback, FailCommit, Record,
                      TypeOK, Row, FailedStatus
  <2>4. \/ drafts'[d] = drafts[d]
        \/ /\ drafts'[d].status = "sent" /\ drafts'[d].reviewer = u
           /\ <<d, u>> \in mail
           /\ [action |-> "draft.approved", actor |-> u, draft |-> d] \in auditLog'
        \/ /\ drafts'[d].status = "rejected" /\ drafts'[d].reviewer = u
           /\ [action |-> "draft.rejected", actor |-> u, draft |-> d] \in auditLog'
        \/ /\ drafts'[d].status = "failed"
           /\ [action |-> "draft.send_failed", actor |-> u, draft |-> d] \in auditLog'
    <3>1. CASE ApproveCommit(r)
      BY <2>1, <3>1 DEF ApproveCommit, Record, SendReturned, Entries, SendsGranted, TypeOK, Row
    <3>2. CASE RejectCommit(r)
      BY <2>1, <3>2 DEF RejectCommit, Record, Entries, TypeOK, Row
    <3>3. CASE FailCommit(r)
      BY <2>1, <3>3 DEF FailCommit, FailedStatus, Entries, TypeOK, Row
    <3>4. CASE ReviewRollback(r)
      BY <3>4 DEF ReviewRollback
    <3> QED
      BY <1>6, <3>1, <3>2, <3>3, <3>4 DEF Finish
  <2> HIDE DEF d, u
  <2>5. SendsGranted' /\ InsertsOwnOrg'
    BY <2>2 DEF SendsGranted, Sends, InsertsOwnOrg, Idle
  <2>6. \A s \in Requests : Reviewing(s) => requests[s].draft \in DraftIds
    BY DEF TypeOK, Reviewing, ReviewRequest, IngestRequest, Idle
  <2>7. ReviewsOwnOrg'
    BY <2>2, <2>3, <2>6 DEF ReviewsOwnOrg, Reviewing, Idle
  <2>8. SentMeansDelivered'
    BY <2>2, <2>4 DEF SentMeansDelivered
  <2>9. VerdictsAudited'
    BY <2>1, <2>2, <2>4 DEF VerdictsAudited
  <2>10. TenantIsolation'
    <3>1. drafts[d].status # "absent"
      BY <2>1 DEF Row
    <3> QED
      BY <2>1, <2>2, <2>3, <3>1 DEF TenantIsolation
  <2> QED
    BY <2>2, <2>5, <2>7, <2>8, <2>9, <2>10
<1>7. ASSUME NEW r \in Requests, Crash(r)
      PROVE  IInv'
  BY <1>7 DEF Crash, Idle, TypeOK, SendsGranted, Sends, ReviewsOwnOrg, Reviewing,
              InsertsOwnOrg, SentMeansDelivered, VerdictsAudited, TenantIsolation
<1>8. ASSUME NEW u \in Users, RemoveMember(u)
      PROVE  IInv'
  BY <1>8 DEF RemoveMember, SendsGranted, Sends, ReviewsOwnOrg, Reviewing,
              InsertsOwnOrg, SentMeansDelivered, VerdictsAudited, TenantIsolation
<1>9. CASE UNCHANGED vars
  BY <1>9 DEF vars, SendsGranted, Sends, ReviewsOwnOrg, Reviewing,
              InsertsOwnOrg, SentMeansDelivered, VerdictsAudited, TenantIsolation
<1> QED
  BY <1>1, <1>2, <1>3, <1>4, <1>5, <1>6, <1>7, <1>8, <1>9 DEF Next

LEMMA Invariance == Spec => [](TypeOK /\ ReviewsOnRows /\ IInv)
<1> QED
  BY TypeInit, TypeNext, ReviewsOnRowsNext, GateInit, GateNext, PTL DEF Spec

\* A draft recorded as sent left through its provider on its reviewer's
\* approval (approve_draft), for any number of overlapping reviews.
THEOREM SentDelivered == Spec => []SentMeansDelivered
<1> QED
  BY Invariance, PTL DEF IInv

\* Every verdict in the table has its entry in the audit log.
THEOREM VerdictsExplained == Spec => []VerdictsAudited
<1> QED
  BY Invariance, PTL DEF IInv

\* Rows, mailboxes, reviewers and approvals never cross tenants.
THEOREM TenantsIsolated == Spec => []TenantIsolation
<1> QED
  BY Invariance, PTL DEF IInv

------------------------------------------------------------------------------
(* The queue implements HumanGate.  Reads, refusals, rollbacks, crashes and  *)
(* everything that happens on the provider's or the users' side are          *)
(* stuttering steps of the gate.                                             *)

GateState == <<drafts, grants, mail>>

LEMMA GateStutters == UNCHANGED GateState => UNCHANGED Gate!vars
  BY DEF GateState, Gate!vars

LEMMA GateStarts == Init => Gate!Init
  BY DEF Init, NoRow, Gate!Init

LEMMA GateSteps ==
  TypeOK /\ ReviewsOnRows /\ IInv /\ [Next]_vars => [Gate!Next]_(Gate!vars)
<1> SUFFICES ASSUME TypeOK, ReviewsOnRows, IInv, [Next]_vars
             PROVE  Gate!Next \/ UNCHANGED Gate!vars
  OBVIOUS
<1>1. ASSUME NEW p \in ProviderDrafts, CreateProviderDraft(p) \/ OwnerDiscards(p)
      PROVE  UNCHANGED GateState
  BY <1>1 DEF CreateProviderDraft, OwnerDiscards, GateState
<1>2. ASSUME NEW r \in Requests, NEW o \in Orgs, NEW c \in Connections,
             NEW p \in ProviderDrafts, IngestRead(r, o, c, p)
      PROVE  UNCHANGED GateState
  BY <1>2 DEF IngestRead, GateState
<1>3. ASSUME NEW r \in Requests, NEW d \in DraftIds, IngestCommit(r, d)
      PROVE  Gate!Next
  <2>1. PICK o \in Orgs : o = ConnectionOrg[requests[r].connection]
    BY <1>3, ConnectionsAssumption DEF IngestCommit, TypeOK, IngestRequest, ReviewRequest, Idle
  <2>2. /\ drafts[d].status = "absent" /\ drafts'[d].status = "pending_review"
        /\ drafts'[d].org = o
        /\ \A e \in DraftIds : e # d => drafts'[e] = drafts[e]
        /\ UNCHANGED <<grants, mail>>
    BY <1>3, <2>1 DEF IngestCommit, TypeOK, NoRow
  <2>3. Gate!Offer(d, o)
    BY <2>2 DEF Gate!Offer
  <2> QED
    BY <2>3 DEF Gate!Next
<1>4. ASSUME NEW r \in Requests, NEW u \in Users, NEW d \in DraftIds, ApproveRead(r, u, d)
      PROVE  Gate!Next
  <2>1. Gate!Grant(d, u)
    BY <1>4 DEF ApproveRead, OwnDraft, Reviewable, Gate!Grant
  <2> QED
    BY <2>1 DEF Gate!Next
<1>5. ASSUME NEW r \in Requests, NEW u \in Users, NEW d \in DraftIds, RejectRead(r, u, d)
      PROVE  UNCHANGED GateState
  BY <1>5 DEF RejectRead, GateState
<1>6. ASSUME NEW r \in Requests, Send(r)
      PROVE  Gate!Next \/ UNCHANGED GateState
  <2>1. CASE SendRefused(r)
    BY <2>1 DEF SendRefused, GateState
  <2>2. CASE SendAccepted(r) \/ SendUnanswered(r)
    <3> DEFINE d == requests[r].draft
               u == requests[r].user
    <3>1. d \in DraftIds /\ u \in Users /\ <<d, u>> \in grants
      BY <2>2 DEF SendAccepted, SendUnanswered, Deliver, TypeOK, Idle, IngestRequest,
                  ReviewRequest, IInv, SendsGranted, Sends
    <3>2. mail' = mail \union {<<d, u>>} /\ UNCHANGED <<drafts, grants>>
      BY <2>2 DEF SendAccepted, SendUnanswered, Deliver
    <3>3. Gate!Deliver(d, u)
      BY <3>1, <3>2 DEF Gate!Deliver
    <3> QED
      BY <3>1, <3>3 DEF Gate!Next
  <2> QED
    BY <1>6, <2>1, <2>2 DEF Send
<1>7. ASSUME NEW r \in Requests, Finish(r)
      PROVE  Gate!Next \/ UNCHANGED GateState
  <2> DEFINE d == requests[r].draft
             u == requests[r].user
  <2>1. d \in DraftIds /\ u \in Users /\ drafts[d] \in Row
    BY <1>7 DEF Finish, ApproveCommit, RejectCommit, ReviewRollback, FailCommit,
                SendReturned, Idle, IngestRequest, ReviewRequest, TypeOK, ReviewsOnRows, Reviewing
  <2> SUFFICES ASSUME NEW v \in {"sent", "failed", "rejected"},
                      v = "sent" => <<d, u>> \in mail,
                      v = "failed" => <<d, u>> \in grants,
                      drafts' = [drafts EXCEPT ![d].status = v]
                        \/ drafts' = [drafts EXCEPT ![d].status = v, ![d].reviewer = u],
                      UNCHANGED <<grants, mail>>
               PROVE  Gate!Conclude(d, v)
    <3>1. CASE ApproveCommit(r)
      BY <2>1, <3>1 DEF ApproveCommit, SendReturned, Record, IInv, SendsGranted, Gate!Next
    <3>2. CASE RejectCommit(r)
      BY <2>1, <3>2 DEF RejectCommit, Record, Gate!Next
    <3>3. CASE FailCommit(r)
      BY <2>1, <3>3 DEF FailCommit, FailedStatus, IInv, SendsGranted, Sends, Gate!Next
    <3>4. CASE ReviewRollback(r)
      BY <3>4 DEF ReviewRollback, GateState
    <3> QED
      BY <1>7, <3>1, <3>2, <3>3, <3>4 DEF Finish
  <2>2. /\ drafts'[d].status = v
        /\ drafts'[d].org = drafts[d].org
        /\ \A e \in DraftIds : e # d => drafts'[e] = drafts[e]
    BY <2>1 DEF TypeOK, Row
  <2>3. drafts[d].status # "absent"
    BY <2>1 DEF Row
  <2> QED
    BY <2>1, <2>2, <2>3 DEF Gate!Conclude
<1>8. ASSUME NEW r \in Requests, Crash(r)
      PROVE  UNCHANGED GateState
  BY <1>8 DEF Crash, GateState
<1>9. ASSUME NEW u \in Users, RemoveMember(u)
      PROVE  UNCHANGED GateState
  BY <1>9 DEF RemoveMember, GateState
<1>10. CASE UNCHANGED vars
  BY <1>10, GateStutters DEF vars, GateState
<1> QED
  BY <1>1, <1>2, <1>3, <1>4, <1>5, <1>6, <1>7, <1>8, <1>9, <1>10, GateStutters DEF Next

\* The approval queue implements the human gate (docs/architecture.md, "the
\* agent never sends mail"): whatever overlaps, fails or dies, mail leaves only
\* for a draft that was open when a user of its tenant approved it.
THEOREM Refinement == Spec => GateSpec
<1> QED
  BY Invariance, GateStarts, GateSteps, PTL DEF Spec, GateSpec, Gate!Spec

------------------------------------------------------------------------------
(* The audit log.  Mail is in the hands of its request until that ends, by a *)
(* commit that writes the entry or by a loss that unrecorded remembers.      *)

LEMMA AuditNext ==
  TypeOK /\ EveryMailAudited /\ [Next]_vars => EveryMailAudited'
<1> SUFFICES ASSUME TypeOK, EveryMailAudited, [Next]_vars PROVE EveryMailAudited'
  OBVIOUS
\* Steps that send nothing and end no sending request.
<1>1. ASSUME UNCHANGED <<mail, unrecorded>>, auditLog \subseteq auditLog',
             \A s \in Requests : requests[s].step \in {"accepted", "refused"}
                                 => requests'[s] = requests[s]
      PROVE  EveryMailAudited'
  BY <1>1 DEF EveryMailAudited, MailOf
<1>2. ASSUME NEW p \in ProviderDrafts, CreateProviderDraft(p) \/ OwnerDiscards(p)
      PROVE  EveryMailAudited'
  BY <1>1, <1>2 DEF CreateProviderDraft, OwnerDiscards
<1>3. ASSUME NEW r \in Requests, NEW o \in Orgs, NEW c \in Connections,
             NEW p \in ProviderDrafts, IngestRead(r, o, c, p)
      PROVE  EveryMailAudited'
  BY <1>1, <1>3 DEF IngestRead, Idle, TypeOK
<1>4. ASSUME NEW r \in Requests, NEW d \in DraftIds, IngestCommit(r, d)
      PROVE  EveryMailAudited'
  BY <1>1, <1>4 DEF IngestCommit, TypeOK
<1>5. ASSUME NEW r \in Requests, NEW u \in Users, NEW d \in DraftIds,
             ApproveRead(r, u, d) \/ RejectRead(r, u, d)
      PROVE  EveryMailAudited'
  BY <1>1, <1>5 DEF ApproveRead, RejectRead, Idle, TypeOK
<1>6. ASSUME NEW r \in Requests, Send(r)
      PROVE  EveryMailAudited'
  <2>1. /\ requests[r].step = "send"
        /\ UNCHANGED <<unrecorded, auditLog>>
        /\ \A s \in Requests : s # r => requests'[s] = requests[s]
        /\ mail \subseteq mail'
        /\ mail' \subseteq mail \union {<<requests[r].draft, requests[r].user>>}
        /\ requests'[r].step \in {"accepted", "refused"}
        /\ requests'[r].draft = requests[r].draft
        /\ requests'[r].user = requests[r].user
    BY <1>6 DEF Send, SendAccepted, SendUnanswered, SendRefused, Deliver, TypeOK,
                Idle, IngestRequest, ReviewRequest
  <2>2. \A s \in Requests : MailOf(s) \subseteq MailOf(s)'
    BY <2>1 DEF MailOf
  <2>3. mail' \ mail \subseteq MailOf(r)'
    BY <2>1 DEF MailOf
  <2> QED
    BY <2>1, <2>2, <2>3 DEF EveryMailAudited
<1>7. ASSUME NEW r \in Requests, Finish(r)
      PROVE  EveryMailAudited'
  <2>1. CASE RejectCommit(r)
    BY <1>1, <2>1 DEF RejectCommit, Record, TypeOK
  <2>2. CASE ReviewRollback(r)
    <3>1. /\ UNCHANGED <<mail, auditLog>> /\ unrecorded' = unrecorded \union MailOf(r)
          /\ \A s \in Requests : s # r => requests'[s] = requests[s]
      BY <2>2 DEF ReviewRollback, TypeOK
    <3> QED
      BY <3>1 DEF EveryMailAudited, MailOf
  <2>3. CASE ApproveCommit(r) \/ FailCommit(r)
    <3>1. /\ UNCHANGED <<mail, unrecorded>>
          /\ \A s \in Requests : s # r => requests'[s] = requests[s]
          /\ auditLog \subseteq auditLog'
          /\ \E a \in {"draft.approved", "draft.send_failed"} :
               [action |-> a, actor |-> requests[r].user, draft |-> requests[r].draft]
                 \in auditLog'
      BY <2>3 DEF ApproveCommit, FailCommit, Record, Entries, TypeOK
    <3> QED
      BY <3>1 DEF EveryMailAudited, MailOf
  <2> QED
    BY <1>7, <2>1, <2>2, <2>3 DEF Finish
<1>8. ASSUME NEW r \in Requests, Crash(r)
      PROVE  EveryMailAudited'
  <2>1. /\ UNCHANGED <<mail, auditLog>> /\ unrecorded' = unrecorded \union MailOf(r)
        /\ \A s \in Requests : s # r => requests'[s] = requests[s]
    BY <1>8 DEF Crash, TypeOK
  <2> QED
    BY <2>1 DEF EveryMailAudited, MailOf
<1>9. ASSUME NEW u \in Users, RemoveMember(u)
      PROVE  EveryMailAudited'
  BY <1>1, <1>9 DEF RemoveMember
<1>10. CASE UNCHANGED vars
  BY <1>1, <1>10 DEF vars
<1> QED
  BY <1>2, <1>3, <1>4, <1>5, <1>6, <1>7, <1>8, <1>9, <1>10 DEF Next

\* Whatever overlaps, dies or is removed, mail that left is audited once its
\* request is over, or that request's session was lost before its commit: by a
\* crash after the send or by the rollback on the reviewer's foreign key.
THEOREM MailAudited == Spec => []EveryMailAudited
<1>1. Init => EveryMailAudited
  BY DEF Init, EveryMailAudited
<1> QED
  BY <1>1, AuditNext, Invariance, PTL DEF Spec

------------------------------------------------------------------------------
(* Tenants whose requests come one after the other.                         *)

WorksFor(r, o) ==
  \/ requests[r].step = "insert" /\ ConnectionOrg[requests[r].connection] = o
  \/ Reviewing(r) /\ UserOrg[requests[r].user] = o

OneAtATime ==
  \A o \in Orderly, q, r \in Requests : WorksFor(q, o) /\ WorksFor(r, o) => q = r

\* What a request has read still holds: the draft is open, the row is missing.
ReviewsOpen ==
  \A r \in Requests :
    Reviewing(r) /\ UserOrg[requests[r].user] \in Orderly
      => drafts[requests[r].draft].status = "pending_review"

InsertsFresh ==
  \A r \in Requests :
    requests[r].step = "insert" /\ ConnectionOrg[requests[r].connection] \in Orderly
      => ~Ingested(requests[r].connection, requests[r].providerDraft)

QInv == OneAtATime /\ ReviewsOpen /\ InsertsFresh /\ OneRowPerProviderDraft

Safe == TypeOK /\ ReviewsOnRows /\ IInv

LEMMA Uncalled ==
  ASSUME NEW o \in Orderly, MayCall(o), NEW r \in Requests
  PROVE  ~WorksFor(r, o)
  BY DEF MayCall, Busy, WorksFor, Reviewing, Idle

\* A request that goes on with what it has read, or ends.
GoesOn(r) ==
  \/ requests'[r] = requests[r]
  \/ requests'[r] = Idle
  \/ /\ Reviewing(r) /\ Reviewing(r)'
     /\ requests'[r].draft = requests[r].draft
     /\ requests'[r].user = requests[r].user

LEMMA GoingOn ==
  ASSUME NEW r \in Requests, GoesOn(r)
  PROVE  /\ \A o : WorksFor(r, o)' => WorksFor(r, o)
         /\ Reviewing(r)' => /\ Reviewing(r)
                          /\ requests'[r].draft = requests[r].draft
                          /\ requests'[r].user = requests[r].user
         /\ requests'[r].step = "insert" => requests'[r] = requests[r]
  BY DEF GoesOn, WorksFor, Reviewing, Idle

\* Rows stay, and change by nothing but a verdict.
RowsAs ==
  \A d \in DraftIds :
    /\ drafts'[d].status = "absent" <=> drafts[d].status = "absent"
    /\ drafts'[d].org = drafts[d].org
    /\ drafts'[d].connection = drafts[d].connection
    /\ drafts'[d].providerDraft = drafts[d].providerDraft

LEMMA QueueInit == Init => QInv
<1> SUFFICES ASSUME Init PROVE QInv
  OBVIOUS
<1>1. \A r \in Requests : requests[r].step = "idle"
  BY DEF Init, Idle
<1>2. \A d \in DraftIds : drafts[d].status = "absent"
  BY DEF Init, NoRow
<1> QED
  BY <1>1, <1>2 DEF QInv, OneAtATime, WorksFor, Reviewing, ReviewsOpen, InsertsFresh,
                    OneRowPerProviderDraft

\* A step of requests that go on, which gives no verdict on a row still under review.
LEMMA QueueGoesOn ==
  ASSUME QInv, RowsAs, \A r \in Requests : GoesOn(r),
         \A r \in Requests :
           Reviewing(r)' /\ UserOrg[requests[r].user] \in Orderly
             => drafts'[requests[r].draft] = drafts[requests[r].draft]
  PROVE  QInv'
<1>1. OneAtATime'
  BY GoingOn DEF QInv, OneAtATime
<1>2. ReviewsOpen'
  BY GoingOn DEF QInv, ReviewsOpen
<1>3. \A c, p : Ingested(c, p)' <=> Ingested(c, p)
  BY DEF Ingested, RowsAs
<1>4. InsertsFresh'
  BY <1>3, GoingOn DEF QInv, InsertsFresh
<1>5. OneRowPerProviderDraft'
  BY DEF QInv, OneRowPerProviderDraft, RowsAs
<1> QED
  BY <1>1, <1>2, <1>4, <1>5 DEF QInv

LEMMA QueueIngestRead ==
  ASSUME Safe, QInv, NEW r \in Requests, NEW o \in Orgs, NEW c \in Connections,
         NEW p \in ProviderDrafts, IngestRead(r, o, c, p)
  PROVE  QInv'
<1>1. /\ MayCall(o) /\ ConnectionOrg[c] = o /\ ~Ingested(c, p)
      /\ UNCHANGED drafts
      /\ \A s \in Requests \ {r} : requests'[s] = requests[s]
      /\ requests'[r] = [step |-> "insert", connection |-> c, providerDraft |-> p]
  BY DEF IngestRead, CellMayIngest, Safe, TypeOK
<1>2. \A u : WorksFor(r, u)' => u = o
  BY <1>1 DEF WorksFor, Reviewing
<1>3. \A u, s : s \in Requests \ {r} => (WorksFor(s, u)' <=> WorksFor(s, u))
  BY <1>1 DEF WorksFor, Reviewing
<1>4. OneAtATime'
  BY <1>1, <1>2, <1>3, Uncalled DEF QInv, OneAtATime
<1>5. ReviewsOpen'
  BY <1>1 DEF QInv, ReviewsOpen, Reviewing
<1>6. \A x, y : Ingested(x, y)' <=> Ingested(x, y)
  BY <1>1 DEF Ingested
<1>7. InsertsFresh'
  BY <1>1, <1>6 DEF QInv, InsertsFresh
<1>8. OneRowPerProviderDraft'
  BY <1>1 DEF QInv, OneRowPerProviderDraft
<1> QED
  BY <1>4, <1>5, <1>7, <1>8 DEF QInv

LEMMA QueueReviewRead ==
  ASSUME Safe, QInv, NEW r \in Requests, NEW u \in Users, NEW d \in DraftIds,
         ApproveRead(r, u, d) \/ RejectRead(r, u, d)
  PROVE  QInv'
<1>1. /\ MayCall(UserOrg[u]) /\ drafts[d].status = "pending_review"
      /\ UNCHANGED drafts
      /\ \A s \in Requests \ {r} : requests'[s] = requests[s]
      /\ requests'[r].step \in {"send", "reject"}
      /\ requests'[r].draft = d /\ requests'[r].user = u
  BY DEF ApproveRead, RejectRead, Reviewable, Safe, TypeOK
<1>2. \A o : WorksFor(r, o)' => o = UserOrg[u]
  BY <1>1 DEF WorksFor, Reviewing
<1>3. \A o, s : s \in Requests \ {r} => (WorksFor(s, o)' <=> WorksFor(s, o))
  BY <1>1 DEF WorksFor, Reviewing
<1>4. OneAtATime'
  BY <1>1, <1>2, <1>3, Uncalled DEF QInv, OneAtATime
<1>5. ReviewsOpen'
  BY <1>1 DEF QInv, ReviewsOpen, Reviewing
<1>6. \A x, y : Ingested(x, y)' <=> Ingested(x, y)
  BY <1>1 DEF Ingested
<1>7. InsertsFresh'
  BY <1>1, <1>6 DEF QInv, InsertsFresh
<1>8. OneRowPerProviderDraft'
  BY <1>1 DEF QInv, OneRowPerProviderDraft
<1> QED
  BY <1>4, <1>5, <1>7, <1>8 DEF QInv

\* No other request of the org has looked for the row that an ingestion adds.
LEMMA QueueIngestCommit ==
  ASSUME Safe, QInv, NEW r \in Requests, NEW d \in DraftIds, IngestCommit(r, d)
  PROVE  QInv'
<1>1. PICK c \in Connections, p \in ProviderDrafts :
        requests[r].connection = c /\ requests[r].providerDraft = p
  BY DEF IngestCommit, Safe, TypeOK, IngestRequest, ReviewRequest, Idle
<1>2. /\ requests[r].step = "insert" /\ drafts[d] = NoRow
      /\ drafts' = [drafts EXCEPT
           ![d] = [org |-> ConnectionOrg[c], connection |-> c, providerDraft |-> p,
                   status |-> "pending_review", reviewer |-> NoUser]]
      /\ requests' = [requests EXCEPT ![r] = Idle]
  BY <1>1 DEF IngestCommit
<1>3. /\ drafts[d].status = "absent" /\ drafts[d] \notin Row
      /\ drafts'[d].org = ConnectionOrg[c] /\ drafts'[d].connection = c
      /\ drafts'[d].providerDraft = p /\ drafts'[d].status = "pending_review"
      /\ \A e \in DraftIds \ {d} : drafts'[e] = drafts[e]
      /\ \A s \in Requests \ {r} : requests'[s] = requests[s]
      /\ requests'[r] = Idle
  BY <1>2 DEF NoRow, Row, Safe, TypeOK
<1>4. \A s \in Requests : GoesOn(s)
  BY <1>3 DEF GoesOn
<1>5. OneAtATime'
  BY <1>4, GoingOn DEF QInv, OneAtATime
<1>6. ReviewsOpen'
  <2>1. \A s \in Requests : Reviewing(s) => requests[s].draft \in DraftIds \ {d}
    BY <1>3 DEF Safe, TypeOK, ReviewsOnRows, Reviewing, ReviewRequest, IngestRequest, Idle
  <2> SUFFICES ASSUME NEW s \in Requests, Reviewing(s)', UserOrg[requests'[s].user] \in Orderly
               PROVE  drafts'[requests'[s].draft].status = "pending_review"
    BY DEF ReviewsOpen
  <2>2. Reviewing(s) /\ requests'[s] = requests[s]
    BY <1>3 DEF Reviewing, Idle
  <2>3. drafts'[requests[s].draft] = drafts[requests[s].draft]
    BY <1>3, <2>1, <2>2
  <2>4. drafts[requests[s].draft].status = "pending_review"
    BY <2>2 DEF QInv, ReviewsOpen
  <2> QED
    BY <2>2, <2>3, <2>4
<1>7. \A x, y : Ingested(x, y)' => Ingested(x, y) \/ (x = c /\ y = p)
  BY <1>3 DEF Ingested
<1>8. \A s \in Requests \ {r} :
        requests[s].step = "insert" /\ ConnectionOrg[requests[s].connection] \in Orderly
          => requests[s].connection # c
  BY <1>1, <1>2 DEF QInv, OneAtATime, WorksFor
<1>9. InsertsFresh'
  BY <1>3, <1>7, <1>8 DEF QInv, InsertsFresh, Idle
<1>10. OneRowPerProviderDraft'
  <2>1. ConnectionOrg[c] \in Orderly => ~Ingested(c, p)
    BY <1>1, <1>2 DEF QInv, InsertsFresh
  <2>2. \A e \in DraftIds : drafts[e].status # "absent"
                             => ConnectionOrg[drafts[e].connection] = drafts[e].org
    BY DEF Safe, IInv, TenantIsolation
  <2> QED
    BY <1>3, <2>1, <2>2 DEF QInv, OneRowPerProviderDraft, Ingested
<1> QED
  BY <1>5, <1>6, <1>9, <1>10 DEF QInv

\* The row a review is about, and what its end leaves of it.
LEMMA FinishEffect ==
  ASSUME Safe, NEW r \in Requests, Finish(r)
  PROVE  \E d \in DraftIds, u \in Users :
           /\ Reviewing(r) /\ requests[r].draft = d /\ requests[r].user = u
           /\ drafts[d] \in Row /\ drafts[d].org = UserOrg[u]
           /\ drafts'[d] \in Row
           /\ drafts'[d].org = drafts[d].org
           /\ drafts'[d].connection = drafts[d].connection
           /\ drafts'[d].providerDraft = drafts[d].providerDraft
           /\ \A e \in DraftIds \ {d} : drafts'[e] = drafts[e]
           /\ \A s \in Requests \ {r} : requests'[s] = requests[s]
           /\ requests'[r] = Idle
<1>1. /\ Reviewing(r) /\ requests[r].draft \in DraftIds /\ requests[r].user \in Users
      /\ drafts[requests[r].draft] \in Row
      /\ drafts[requests[r].draft].org = UserOrg[requests[r].user]
  BY DEF Finish, ApproveCommit, RejectCommit, ReviewRollback, FailCommit, SendReturned,
         Idle, IngestRequest, ReviewRequest, Safe, TypeOK, ReviewsOnRows, IInv, ReviewsOwnOrg,
         Reviewing
<1> PICK d \in DraftIds, u \in Users : d = requests[r].draft /\ u = requests[r].user
  BY <1>1
<1>2. \/ drafts' = drafts
      \/ drafts' = [drafts EXCEPT ![d].status = "failed"]
      \/ \E v \in {"sent", "rejected"} :
           drafts' = [drafts EXCEPT ![d].status = v, ![d].reviewer = u]
  BY DEF Finish, ApproveCommit, RejectCommit, ReviewRollback, FailCommit, Record, FailedStatus
<1>3. /\ \A e \in DraftIds \ {d} : drafts'[e] = drafts[e]
      /\ drafts'[d] \in Row
      /\ drafts'[d].org = drafts[d].org
      /\ drafts'[d].connection = drafts[d].connection
      /\ drafts'[d].providerDraft = drafts[d].providerDraft
  BY <1>1, <1>2 DEF Safe, TypeOK, Row
<1>4. /\ \A s \in Requests \ {r} : requests'[s] = requests[s]
      /\ requests'[r] = Idle
  BY DEF Finish, ApproveCommit, RejectCommit, ReviewRollback, FailCommit, Record, Safe, TypeOK
<1> QED
  BY <1>1, <1>3, <1>4

LEMMA QueueFinish ==
  ASSUME Safe, QInv, NEW r \in Requests, Finish(r)
  PROVE  QInv'
<1> PICK d \in DraftIds, u \in Users :
      /\ Reviewing(r) /\ requests[r].draft = d /\ requests[r].user = u
      /\ drafts[d] \in Row /\ drafts[d].org = UserOrg[u]
      /\ drafts'[d] \in Row
      /\ drafts'[d].org = drafts[d].org
      /\ drafts'[d].connection = drafts[d].connection
      /\ drafts'[d].providerDraft = drafts[d].providerDraft
      /\ \A e \in DraftIds \ {d} : drafts'[e] = drafts[e]
      /\ \A s \in Requests \ {r} : requests'[s] = requests[s]
      /\ requests'[r] = Idle
  BY FinishEffect
<1>1. drafts[d].status # "absent" /\ drafts'[d].status # "absent"
  BY DEF Row
<1>2. RowsAs
  BY <1>1 DEF RowsAs
<1>3. \A s \in Requests : GoesOn(s)
  BY DEF GoesOn
<1>4. ASSUME NEW s \in Requests, Reviewing(s)', UserOrg[requests[s].user] \in Orderly
      PROVE  drafts'[requests[s].draft] = drafts[requests[s].draft]
  <2>1. s # r /\ Reviewing(s)
    BY <1>4 DEF Reviewing, Idle
  <2>2. /\ requests[s].draft \in DraftIds
        /\ drafts[requests[s].draft].org = UserOrg[requests[s].user]
    BY <2>1 DEF Safe, IInv, ReviewsOwnOrg, TypeOK, Reviewing, ReviewRequest, IngestRequest, Idle
  <2>3. requests[s].draft # d
    BY <1>4, <2>1, <2>2 DEF QInv, OneAtATime, WorksFor
  <2> QED
    BY <2>2, <2>3
<1> QED
  BY <1>2, <1>3, <1>4, QueueGoesOn

LEMMA QueueNext == Safe /\ QInv /\ [Next]_vars => QInv'
<1> SUFFICES ASSUME Safe, QInv, [Next]_vars PROVE QInv'
  OBVIOUS
<1>1. ASSUME NEW p \in ProviderDrafts, CreateProviderDraft(p) \/ OwnerDiscards(p)
      PROVE  UNCHANGED <<drafts, requests>>
  BY <1>1 DEF CreateProviderDraft, OwnerDiscards
<1>2. ASSUME NEW u \in Users, RemoveMember(u)
      PROVE  UNCHANGED <<drafts, requests>>
  BY <1>2 DEF RemoveMember
<1>3. ASSUME UNCHANGED vars
      PROVE  UNCHANGED <<drafts, requests>>
  BY <1>3 DEF vars
<1>4. ASSUME NEW r \in Requests, Send(r) \/ Crash(r)
      PROVE  UNCHANGED drafts /\ \A s \in Requests : GoesOn(s)
  BY <1>4 DEF Send, SendAccepted, SendUnanswered, SendRefused, Deliver, Crash, GoesOn, Reviewing,
              Safe, TypeOK, Idle, IngestRequest, ReviewRequest
<1>5. ASSUME UNCHANGED drafts, \A s \in Requests : GoesOn(s)
      PROVE  QInv'
  <2>1. RowsAs
    BY <1>5 DEF RowsAs
  <2> QED
    BY <1>5, <2>1, QueueGoesOn
<1>6. ASSUME UNCHANGED <<drafts, requests>>
      PROVE  QInv'
  BY <1>5, <1>6 DEF GoesOn
<1> QED
  BY <1>1, <1>2, <1>3, <1>4, <1>5, <1>6, QueueIngestRead, QueueReviewRead, QueueIngestCommit,
     QueueFinish DEF Next

LEMMA QueueInvariance == Spec => [](Safe /\ QInv)
<1>1. Safe <=> TypeOK /\ ReviewsOnRows /\ IInv
  BY DEF Safe
<1> QED
  BY <1>1, Invariance, QueueInit, QueueNext, PTL DEF Spec

\* An agent of a tenant whose requests do not overlap may ingest a provider draft as
\* often as it likes: the look-up of ingest_draft leaves one row.
THEOREM OneRow == Spec => []OneRowPerProviderDraft
<1>1. QInv => OneRowPerProviderDraft
  BY DEF QInv
<1> QED
  BY <1>1, QueueInvariance, PTL

\* Mail of a draft under review belongs to the request that is about to record it,
\* or to a session that was lost.
MailUnderWay ==
  \A d \in DraftIds, u \in Users :
    /\ <<d, u>> \in mail \ unrecorded
    /\ drafts[d].org \in Orderly
    /\ drafts[d].status = "pending_review"
    => \E r \in Requests : <<d, u>> \in MailOf(r)

MInv == MailUnderWay /\ RejectedNeverMailed

LEMMA MailNext == Safe /\ QInv /\ MInv /\ [Next]_vars => MInv'
<1> SUFFICES ASSUME Safe, QInv, MInv, [Next]_vars PROVE MInv'
  OBVIOUS
\* Steps that send nothing, give no verdict and end no sending request.
<1>1. ASSUME UNCHANGED <<drafts, unrecorded, mail>>,
             \A r \in Requests : requests[r].step \in {"accepted", "refused"}
                                 => requests'[r] = requests[r]
      PROVE  MInv'
  BY <1>1 DEF MInv, MailUnderWay, MailOf, RejectedNeverMailed
\* Steps that lose the session of a request.
<1>2. ASSUME NEW r \in Requests, UNCHANGED <<drafts, mail>>,
             unrecorded' = unrecorded \union MailOf(r),
             \A s \in Requests \ {r} : requests'[s] = requests[s]
      PROVE  MInv'
  BY <1>2 DEF MInv, MailUnderWay, MailOf, RejectedNeverMailed
<1>3. ASSUME NEW p \in ProviderDrafts, CreateProviderDraft(p) \/ OwnerDiscards(p)
      PROVE  MInv'
  BY <1>1, <1>3 DEF CreateProviderDraft, OwnerDiscards
<1>4. ASSUME NEW r \in Requests, NEW o \in Orgs, NEW c \in Connections,
             NEW p \in ProviderDrafts, IngestRead(r, o, c, p)
      PROVE  MInv'
  BY <1>1, <1>4 DEF IngestRead, Idle, Safe, TypeOK
<1>5. ASSUME NEW r \in Requests, NEW u \in Users, NEW d \in DraftIds,
             ApproveRead(r, u, d) \/ RejectRead(r, u, d)
      PROVE  MInv'
  BY <1>1, <1>5 DEF ApproveRead, RejectRead, Idle, Safe, TypeOK
<1>6. ASSUME NEW r \in Requests, NEW d \in DraftIds, IngestCommit(r, d)
      PROVE  MInv'
  <2>1. /\ drafts[d] \notin Row
        /\ \A e \in DraftIds \ {d} : drafts'[e] = drafts[e]
        /\ \A s \in Requests \ {r} : requests'[s] = requests[s]
        /\ requests[r].step = "insert"
        /\ UNCHANGED <<unrecorded, mail>>
    BY <1>6 DEF IngestCommit, NoRow, Row, Safe, TypeOK
  <2>2. \A u \in Users : <<d, u>> \notin mail
    BY <2>1 DEF Safe, IInv, ReviewsOwnOrg
  <2> QED
    BY <2>1, <2>2 DEF MInv, MailUnderWay, MailOf, RejectedNeverMailed
<1>7. ASSUME NEW r \in Requests, Send(r)
      PROVE  MInv'
  <2>1. PICK d \in DraftIds, u \in Users :
          Reviewing(r) /\ requests[r].draft = d /\ requests[r].user = u
    BY <1>7 DEF Send, SendAccepted, SendUnanswered, SendRefused, Deliver, Safe, TypeOK,
                Idle, IngestRequest, ReviewRequest, Reviewing
  <2>2. /\ UNCHANGED <<drafts, unrecorded>>
        /\ mail \subseteq mail' /\ mail' \subseteq mail \union {<<d, u>>}
        /\ \A s \in Requests \ {r} : requests'[s] = requests[s]
        /\ requests[r].step = "send"
        /\ requests'[r].step \in {"accepted", "refused"}
        /\ requests'[r].draft = d /\ requests'[r].user = u
    BY <1>7, <2>1 DEF Send, SendAccepted, SendUnanswered, SendRefused, Deliver, Safe, TypeOK,
                      Idle, IngestRequest, ReviewRequest
  <2>3. drafts[d].org \in Orderly => drafts[d].status = "pending_review"
    BY <2>1 DEF QInv, ReviewsOpen, Safe, IInv, ReviewsOwnOrg
  <2>4. \A s \in Requests : MailOf(s) \subseteq MailOf(s)'
    BY <2>2 DEF MailOf
  <2>5. <<d, u>> \in mail' => <<d, u>> \in MailOf(r)'
    BY <2>2 DEF MailOf
  <2>6. MailUnderWay'
    BY <2>2, <2>4, <2>5 DEF MInv, MailUnderWay
  <2>7. RejectedNeverMailed'
    BY <2>2, <2>3 DEF MInv, RejectedNeverMailed
  <2> QED
    BY <2>6, <2>7 DEF MInv
<1>8. ASSUME NEW r \in Requests, Finish(r)
      PROVE  MInv'
  <2> PICK d \in DraftIds, u \in Users :
        /\ Reviewing(r) /\ requests[r].draft = d /\ requests[r].user = u
        /\ drafts[d] \in Row /\ drafts[d].org = UserOrg[u]
        /\ drafts'[d].org = drafts[d].org
        /\ \A e \in DraftIds \ {d} : drafts'[e] = drafts[e]
        /\ \A s \in Requests \ {r} : requests'[s] = requests[s]
        /\ requests'[r] = Idle
    BY <1>8, FinishEffect
  <2>1. CASE ReviewRollback(r)
    BY <1>2, <2>1 DEF ReviewRollback
  <2>2. CASE ~ReviewRollback(r)
    <3>1. /\ UNCHANGED <<unrecorded, mail>>
          /\ drafts'[d].status \in {"sent", "failed", "rejected"}
          /\ drafts'[d].status = "rejected" => requests[r].step = "reject"
      BY <1>8, <2>2 DEF Finish, ApproveCommit, RejectCommit, FailCommit, Record, FailedStatus,
                        SendReturned, Safe, TypeOK, Row
    \* A second request on d would work for the same tenant.
    <3>2. ASSUME NEW s \in Requests, Reviewing(s), requests[s].draft = d, drafts[d].org \in Orderly
          PROVE  s = r
      <4>1. WorksFor(s, drafts[d].org) /\ WorksFor(r, drafts[d].org)
        BY <3>2 DEF WorksFor, Safe, IInv, ReviewsOwnOrg
      <4> QED
        BY <3>2, <4>1 DEF QInv, OneAtATime
    <3>3. MailUnderWay'
      <4>1. ASSUME NEW e \in DraftIds, NEW v \in Users, <<e, v>> \in mail \ unrecorded,
                   drafts'[e].org \in Orderly, drafts'[e].status = "pending_review"
            PROVE  \E s \in Requests : <<e, v>> \in MailOf(s)'
        <5>1. e # d /\ drafts'[e] = drafts[e]
          BY <3>1, <4>1
        <5>2. PICK s \in Requests : <<e, v>> \in MailOf(s)
          BY <4>1, <5>1 DEF MInv, MailUnderWay
        <5>3. s # r
          BY <5>1, <5>2 DEF MailOf
        <5> QED
          BY <3>1, <5>2, <5>3 DEF MailOf
      <4> QED
        BY <3>1, <4>1 DEF MailUnderWay
    <3>4. RejectedNeverMailed'
      <4>1. ASSUME NEW v \in Users, <<d, v>> \in mail \ unrecorded, drafts[d].org \in Orderly,
                   requests[r].step = "reject"
            PROVE  FALSE
        <5>1. drafts[d].status = "pending_review"
          BY <4>1 DEF QInv, ReviewsOpen
        <5>2. PICK s \in Requests : <<d, v>> \in MailOf(s)
          BY <4>1, <5>1 DEF MInv, MailUnderWay
        <5>3. Reviewing(s) /\ requests[s].draft = d /\ requests[s].step # "reject"
          BY <5>2 DEF MailOf, Reviewing
        <5> QED
          BY <3>2, <4>1, <5>3
      <4> QED
        BY <3>1, <4>1 DEF MInv, RejectedNeverMailed
    <3> QED
      BY <3>3, <3>4 DEF MInv
  <2> QED
    BY <2>1, <2>2
<1>9. ASSUME NEW r \in Requests, Crash(r) PROVE MInv'
  BY <1>9, <1>2 DEF Crash, Safe, TypeOK
<1>10. ASSUME NEW u \in Users, RemoveMember(u) PROVE MInv'
  BY <1>1, <1>10 DEF RemoveMember
<1>11. CASE UNCHANGED vars
  BY <1>1, <1>11 DEF vars
<1> QED
  BY <1>3, <1>4, <1>5, <1>6, <1>7, <1>8, <1>9, <1>10, <1>11 DEF Next

\* In such a tenant a rejected draft's mail never left, also when processes die and
\* members are removed in mid-review, unless the session that sent it was lost
\* before its commit and left the draft open (reject_draft).
THEOREM RejectedNotMailed == Spec => []RejectedNeverMailed
<1>1. Init => MInv
  BY DEF Init, MInv, MailUnderWay, RejectedNeverMailed
<1>2. MInv => RejectedNeverMailed
  BY DEF MInv
<1> QED
  BY <1>1, <1>2, MailNext, QueueInvariance, PTL DEF Spec

------------------------------------------------------------------------------
(* What is settled.                                                         *)

SettledStays(d) ==
  Settled(d) => /\ Settled(d)'
                /\ drafts'[d] = drafts[d]
                /\ \A u \in Users : <<d, u>> \in mail' => <<d, u>> \in mail

LEMMA SettledNext ==
  ASSUME Safe, [Next]_vars, NEW d \in DraftIds
  PROVE  SettledStays(d)
<1> SUFFICES ASSUME Settled(d)
             PROVE  /\ Settled(d)'
                    /\ drafts'[d] = drafts[d]
                    /\ \A u \in Users : <<d, u>> \in mail' => <<d, u>> \in mail
  BY DEF SettledStays
<1> DEFINE Stays == /\ Settled(d)'
                    /\ drafts'[d] = drafts[d]
                    /\ \A u \in Users : <<d, u>> \in mail' => <<d, u>> \in mail
\* A request that goes on or ends reviews nothing it did not review before.
<1>1. ASSUME \A s \in Requests : GoesOn(s), drafts'[d] = drafts[d],
             \A u \in Users : <<d, u>> \in mail' => <<d, u>> \in mail
      PROVE  Stays
  BY <1>1, GoingOn DEF Settled
<1>2. ASSUME NEW p \in ProviderDrafts, CreateProviderDraft(p) \/ OwnerDiscards(p)
      PROVE  Stays
  BY <1>1, <1>2 DEF CreateProviderDraft, OwnerDiscards, GoesOn
<1>3. ASSUME NEW r \in Requests, NEW o \in Orgs, NEW c \in Connections,
             NEW p \in ProviderDrafts, IngestRead(r, o, c, p)
      PROVE  Stays
  BY <1>3 DEF IngestRead, Settled, Reviewing, Safe, TypeOK
<1>4. ASSUME NEW r \in Requests, NEW e \in DraftIds, IngestCommit(r, e)
      PROVE  Stays
  <2>1. e # d
    BY <1>4 DEF IngestCommit, NoRow, Settled
  <2>2. \A s \in Requests : GoesOn(s)
    BY <1>4 DEF IngestCommit, GoesOn, Safe, TypeOK
  <2> QED
    BY <1>1, <1>4, <2>1, <2>2 DEF IngestCommit, Safe, TypeOK
<1>5. ASSUME NEW r \in Requests, NEW u \in Users, NEW e \in DraftIds,
             ApproveRead(r, u, e) \/ RejectRead(r, u, e)
      PROVE  Stays
  <2>1. e # d
    BY <1>5 DEF ApproveRead, RejectRead, Reviewable, Settled
  <2>2. /\ UNCHANGED <<drafts, mail>>
        /\ \A s \in Requests \ {r} : requests'[s] = requests[s]
        /\ requests'[r].draft = e
    BY <1>5 DEF ApproveRead, RejectRead, Safe, TypeOK
  <2> QED
    BY <2>1, <2>2 DEF Settled, Reviewing
<1>6. ASSUME NEW r \in Requests, Send(r)
      PROVE  Stays
  <2>1. /\ requests[r] \in ReviewRequest /\ Reviewing(r)
        /\ drafts' = drafts
        /\ mail' \subseteq mail \union {<<requests[r].draft, requests[r].user>>}
    BY <1>6 DEF Send, SendAccepted, SendUnanswered, SendRefused, Deliver, Safe, TypeOK,
                Idle, IngestRequest, Reviewing
  <2>2. \A s \in Requests : GoesOn(s)
    BY <1>6, <2>1 DEF Send, SendAccepted, SendUnanswered, SendRefused, Deliver, GoesOn, Reviewing,
                      Safe, TypeOK, ReviewRequest
  <2>3. requests[r].draft # d
    BY <2>1 DEF Settled
  <2> QED
    BY <1>1, <2>1, <2>2, <2>3
<1>7. ASSUME NEW r \in Requests, Finish(r)
      PROVE  Stays
  <2> PICK e \in DraftIds, u \in Users :
        /\ Reviewing(r) /\ requests[r].draft = e
        /\ \A f \in DraftIds \ {e} : drafts'[f] = drafts[f]
        /\ \A s \in Requests \ {r} : requests'[s] = requests[s]
        /\ requests'[r] = Idle
    BY <1>7, FinishEffect
  <2>1. e # d
    BY DEF Settled
  <2>2. mail' = mail
    BY <1>7 DEF Finish, ApproveCommit, RejectCommit, ReviewRollback, FailCommit, Record
  <2> QED
    BY <1>1, <2>1, <2>2 DEF GoesOn
<1>8. ASSUME NEW r \in Requests, Crash(r)
      PROVE  Stays
  BY <1>1, <1>8 DEF Crash, GoesOn, Safe, TypeOK
<1>9. ASSUME NEW u \in Users, RemoveMember(u)
      PROVE  Stays
  BY <1>1, <1>9 DEF RemoveMember, GoesOn
<1>10. CASE UNCHANGED vars
  BY <1>1, <1>10 DEF vars, GoesOn
<1> QED
  BY <1>2, <1>3, <1>4, <1>5, <1>6, <1>7, <1>8, <1>9, <1>10 DEF Next

\* Once a draft is sent or rejected and the reviews that were let in before are
\* over, no later request changes it or makes mail of it leave: approve_draft and
\* reject_draft answer 409, in every tenant and whatever overlaps.
THEOREM VerdictsFinal == Spec => VerdictIsFinal
<1>1. Safe /\ [Next]_vars
        => [\A d \in DraftIds :
              Settled(d) => /\ Settled(d)'
                            /\ drafts'[d] = drafts[d]
                            /\ \A u \in Users : <<d, u>> \in mail' => <<d, u>> \in mail]_vars
  BY SettledNext DEF SettledStays
<1> QED
  BY <1>1, QueueInvariance, PTL DEF Spec, VerdictIsFinal
==============================================================================
