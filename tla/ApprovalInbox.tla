---------------------------- MODULE ApprovalInbox ----------------------------
(***************************************************************************)
(* The way of a draft from the agent's tool to the reviewer's screen and    *)
(* out: the MCP servers' create_draft and update_draft (tools/drafts.ts),   *)
(* which change the mailbox first and tell the control plane afterwards or  *)
(* not at all; the approval inbox of the dashboard (routes/ApprovalInbox.tsx)*)
(* with its optimistic removal of a card and its rollback; and the queue    *)
(* between them, one step per review (DraftApproval has its inside).        *)
(*                                                                         *)
(* The content of a draft is a version number.  A row keeps the version it  *)
(* was filed with (subject and snippet), the provider sends the one it has. *)
(***************************************************************************)
EXTENDS Naturals, FiniteSets

CONSTANTS
  Drafts, Tabs,
  Patient,         \* tabs whose user waits for an answer before the next click
  MaxVersion       \* bound: versions of one draft

ASSUME TabsAssumption == Patient \subseteq Tabs
ASSUME VersionAssumption == MaxVersion \in Nat \ {0}

VARIABLES
  content,         \* the provider's drafts: their version, 0 where there is none
  filing,          \* the create_draft call of a draft
  rows,            \* the drafts table: status, and the version that was filed
  mail,            \* history: <<draft, version>> sent
  view,            \* what a tab shows: another page, "Loading...", or the cards
  arriving,        \* the list on its way to a loading tab
  screen,          \* the drafts whose cards it shows
  calls,           \* its reviews that are not answered
  expected         \* history: the drafts it loaded and got no review through for

provider == <<content, filing>>
tabVars == <<view, arriving, screen, calls, expected>>
vars == <<provider, rows, mail, tabVars>>

NoRow == [status |-> "absent"]
Row == [status : {"pending_review", "sent", "failed", "rejected"},
        version : 1..MaxVersion]

NoCall == [phase |-> "none"]
Posted == {"approve", "reject"}
Call == [phase : Posted \union {"ok", "error"},   \* what was asked for, or the answer
         mounted : BOOLEAN,           \* FALSE once its page was left
         previous : SUBSET Drafts]

TypeOK ==
  /\ content \in [Drafts -> 0..MaxVersion]
  /\ filing \in [Drafts -> {"none", "created", "filed", "error"}]
  /\ rows \in [Drafts -> Row \union {NoRow}]
  /\ mail \subseteq Drafts \X (1..MaxVersion)
  /\ view \in [Tabs -> {"away", "loading", "inbox"}]
  /\ arriving \in [Tabs -> SUBSET Drafts]
  /\ screen \in [Tabs -> SUBSET Drafts]
  /\ calls \in [Tabs -> [Drafts -> Call \union {NoCall}]]
  /\ expected \in [Tabs -> SUBSET Drafts]

Init ==
  /\ content = [d \in Drafts |-> 0]
  /\ filing = [d \in Drafts |-> "none"]
  /\ rows = [d \in Drafts |-> NoRow]
  /\ mail = {}
  /\ view = [t \in Tabs |-> "away"]
  /\ arriving = [t \in Tabs |-> {}]
  /\ screen = [t \in Tabs |-> {}]
  /\ calls = [t \in Tabs |-> [d \in Drafts |-> NoCall]]
  /\ expected = [t \in Tabs |-> {}]

------------------------------------------------------------------------------
(* The agent's tools. *)

CreateDraft(d) ==
  /\ filing[d] = "none"
  /\ filing' = [filing EXCEPT ![d] = "created"]
  /\ content' = [content EXCEPT ![d] = 1]
  /\ UNCHANGED <<rows, mail, tabVars>>

\* A mistake to catch: the draft is filed before the provider has it.
FileFirst(d) ==
  /\ filing[d] = "none"
  /\ filing' = [filing EXCEPT ![d] = "filed"]
  /\ rows' = [rows EXCEPT ![d] = [status |-> "pending_review", version |-> content[d]]]
  /\ UNCHANGED <<content, mail, tabVars>>

\* The second half of create_draft; when it fails the tool throws, and the draft
\* stays in the mailbox without a row.
IngestDraft(d) ==
  /\ filing[d] = "created"
  /\ \/ /\ filing' = [filing EXCEPT ![d] = "filed"]
        /\ rows' = [rows EXCEPT ![d] = [status |-> "pending_review", version |-> 1]]
     \/ /\ filing' = [filing EXCEPT ![d] = "error"]
        /\ UNCHANGED rows
  /\ UNCHANGED <<content, mail, tabVars>>

\* update_draft tells nobody.
UpdateDraft(d) ==
  /\ filing[d] \in {"filed", "error"}
  /\ content[d] \in 1..(MaxVersion - 1)
  /\ content' = [content EXCEPT ![d] = @ + 1]
  /\ UNCHANGED <<filing, rows, mail, tabVars>>

------------------------------------------------------------------------------
(* The page. *)

Pending == {d \in Drafts : rows[d].status = "pending_review"}

\* useEffect(load, []): the list is asked for when the page is mounted, and read
\* before anything can be clicked; after an error the page stays empty.
Load(t) ==
  /\ view[t] = "away"
  /\ view' = [view EXCEPT ![t] = "loading"]
  /\ \E list \in {Pending, {}} : arriving' = [arriving EXCEPT ![t] = list]
  /\ UNCHANGED <<provider, rows, mail, screen, calls, expected>>

Show(t) ==
  /\ view[t] = "loading"
  /\ view' = [view EXCEPT ![t] = "inbox"]
  /\ screen' = [screen EXCEPT ![t] = arriving[t]]
  /\ expected' = [expected EXCEPT ![t] = arriving[t]]
  /\ arriving' = [arriving EXCEPT ![t] = {}]
  /\ UNCHANGED <<provider, rows, mail, calls>>

\* Another route: the page's state is gone, its requests are not.
Leave(t) ==
  /\ view[t] # "away"
  /\ view' = [view EXCEPT ![t] = "away"]
  /\ screen' = [screen EXCEPT ![t] = {}]
  /\ expected' = [expected EXCEPT ![t] = {}]
  /\ arriving' = [arriving EXCEPT ![t] = {}]
  /\ calls' = [calls EXCEPT ![t] = [d \in Drafts |->
       IF calls[t][d] = NoCall THEN NoCall
       ELSE [calls[t][d] EXCEPT !.mounted = FALSE, !.previous = {}]]]
  /\ UNCHANGED <<provider, rows, mail>>

\* What the page waits for; it knows nothing of the requests of an earlier one.
InFlight(t) ==
  {d \in Drafts : calls[t][d] # NoCall /\ calls[t][d].mounted}

\* approve and reject: the list as rendered is kept, the card is taken off.
Click(t, d, asked) ==
  /\ view[t] = "inbox"
  /\ d \in screen[t]
  /\ calls[t][d] = NoCall
  /\ t \in Patient => InFlight(t) = {}
  /\ calls' = [calls EXCEPT ![t][d] =
       [phase |-> asked, mounted |-> TRUE, previous |-> screen[t]]]
  /\ screen' = [screen EXCEPT ![t] = @ \ {d}]
  /\ UNCHANGED <<provider, rows, mail, view, arriving, expected>>

\* A mistake to catch: the list is kept after the card has been taken off.
RollbackToRest(t, d) ==
  IF calls[t][d].mounted THEN calls[t][d].previous \ {d} ELSE screen[t]

\* A page that was left has no state to roll back.
Rollback(t, d) ==
  IF calls[t][d].mounted THEN calls[t][d].previous ELSE screen[t]

Answer(t, d) ==
  /\ calls[t][d].phase \in {"ok", "error"}
  /\ screen' = [screen EXCEPT ![t] =
       IF calls[t][d].phase = "ok" THEN @ ELSE Rollback(t, d)]
  /\ expected' = [expected EXCEPT ![t] =
       IF calls[t][d].phase = "ok" /\ calls[t][d].mounted
       THEN @ \ {d} ELSE @]
  /\ calls' = [calls EXCEPT ![t][d] = NoCall]
  /\ UNCHANGED <<provider, rows, mail, view, arriving>>

------------------------------------------------------------------------------
(* The queue: a review, and the answer, which may be lost on its way. *)

Replies(t, d, phases) ==
  \E phase \in phases : calls' = [calls EXCEPT ![t][d].phase = phase]

\* 409 when the row is no longer pending; 401, 500 or no connection at all.
ReviewFails(t, d) ==
  /\ calls[t][d].phase \in Posted
  /\ Replies(t, d, {"error"})
  /\ UNCHANGED <<provider, rows, mail, view, arriving, screen, expected>>

Verdict(d, status) == rows' = [rows EXCEPT ![d].status = status]

Reviewable(d) == rows[d].status = "pending_review"

\* The provider sends the draft as it is.
MailLeaves(d) ==
  /\ content[d] # 0
  /\ mail' = mail \union {<<d, content[d]>>}
  /\ content' = [content EXCEPT ![d] = 0]

ApproveSends(t, d) ==
  /\ calls[t][d].phase = "approve"
  /\ Reviewable(d)
  /\ MailLeaves(d)
  /\ Verdict(d, "sent")
  /\ Replies(t, d, {"ok", "error"})
  /\ UNCHANGED <<filing, view, arriving, screen, expected>>

\* The provider refuses, or its answer is lost although the mail has left.
ApproveFails(t, d) ==
  /\ calls[t][d].phase = "approve"
  /\ Reviewable(d)
  /\ MailLeaves(d) \/ UNCHANGED <<content, mail>>
  /\ Verdict(d, "failed")
  /\ Replies(t, d, {"error"})
  /\ UNCHANGED <<filing, view, arriving, screen, expected>>

\* The mail has left and the verdict is rolled back.
ApproveRolledBack(t, d) ==
  /\ calls[t][d].phase = "approve"
  /\ Reviewable(d)
  /\ MailLeaves(d)
  /\ Replies(t, d, {"error"})
  /\ UNCHANGED <<filing, rows, view, arriving, screen, expected>>

Reject(t, d) ==
  /\ calls[t][d].phase = "reject"
  /\ Reviewable(d)
  /\ Verdict(d, "rejected")
  /\ Replies(t, d, {"ok", "error"})
  /\ UNCHANGED <<provider, mail, view, arriving, screen, expected>>

Next ==
  \/ \E d \in Drafts : CreateDraft(d) \/ IngestDraft(d) \/ UpdateDraft(d)
  \/ \E t \in Tabs : Load(t) \/ Show(t) \/ Leave(t)
  \/ \E t \in Tabs, d \in Drafts :
       \/ \E asked \in Posted : Click(t, d, asked)
       \/ Answer(t, d)
       \/ ReviewFails(t, d) \/ ApproveSends(t, d) \/ ApproveFails(t, d)
       \/ ApproveRolledBack(t, d) \/ Reject(t, d)

Spec == Init /\ [][Next]_vars

------------------------------------------------------------------------------
(* Properties *)

\* Once all its reviews are answered, the page of a user who makes one at a time
\* shows the drafts it loaded without those it was told are reviewed: a rollback
\* neither brings back another one's card nor takes it away.
ScreenSettles ==
  \A t \in Patient : view[t] = "inbox" /\ InFlight(t) = {} => screen[t] = expected[t]

\* docs/architecture.md:60-61 has the body "fetched from the provider API on
\* demand when a human opens a draft for review"; ApprovalInbox shows what was
\* filed.  What is mailed should be what the reviewer was shown.
SentAsReviewed == \A d \in Drafts, v \in 1..MaxVersion :
  <<d, v>> \in mail => v = rows[d].version
=============================================================================
