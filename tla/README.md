# EmailAgent in TLA+

EmailAgent lets a language-model agent, one container ("cell") per tenant,
triage mail and prepare drafts. A control plane (FastAPI, SQLAlchemy,
PostgreSQL) keeps the accounts, the mailbox tokens, the queue of drafts that
wait for a human, the cells and the plan of each org; a React dashboard is its
user interface; MCP servers inside the cell are the agent's only way to the
mailbox. This directory models the control plane's logic in TLA+, checks it
with TLC and proves part of it with TLAPS.

`src/app` below stands for `src/control-plane/app`.

## How the program runs, and how that is modelled

* Every route but one is a synchronous function in a thread pool. Each request
  has one database session with `autoflush=False` (`src/app/db/session.py`).
  It reads committed rows (PostgreSQL, READ COMMITTED) and locks none of them.
  `get_session` (`src/app/api/deps.py:13-28`) commits after the route has
  returned **or raised an HTTPException**, and rolls back after any other
  exception. So a request is split into what it reads, its calls to the outside
  world, and its commit. Between any two of these, other requests run.
* An UPDATE names the columns that changed, and its `WHERE` clause the primary
  key only: of two requests that read the same row, the later commit wins,
  column by column.
* A flushed UPDATE keeps the row locked until the commit. Where that decides
  who waits for whom (`CellProvisioning`, `Billing`) the lock is modelled.
* Two replicas of the server is what the Helm chart installs
  (`values.yaml:12`), so "per process" and "per host" differ.
* Access tokens carry the org and the role as they were at login, for an hour
  (`src/app/core/security.py:35-65`); nothing checks them against the table.

## Inventory

| Part | State | Operations | Interacts with | What is hard | What makes it right |
|---|---|---|---|---|---|
| Draft queue (`api/v1/drafts.py`, `api/internal/drafts_ingest.py`) | `drafts`, `audit_logs` | ingest, approve, reject | cells (ingest), providers (send), users | overlapping reviews, lost answers, crashes after the send, reviewers removed meanwhile | mail only after an approval in the same org; every verdict explained; no verdict lost |
| Providers (`services/email_provider`) | provider drafts, tokens | send, refresh | queue, broker | timeout after delivery, rotating refresh tokens | a draft is sent at most once; the stored token stays valid |
| Cell provisioning (`workers/provision_cell.py`, `api/v1/cells.py`, `services/fleet_cli.py`) | `agent_cells`, staged files, container, process lock | provision, deprovision, restart | fleet CLI, config renderer | three stores and one transaction; commit after the lock is released; failures at each step; writes cut off | fleet commands one at a time; no torn or default config; the row agrees with fleet |
| Config rendering (`services/config_renderer.py`) | none | render | skill settings, VIP rules, mailboxes | "all disabled" looks like "no settings" | enabled skills are what the org chose |
| Org membership (`api/v1/orgs.py`) | `users` | invite, change role, remove | tokens, plan limits | check-then-act, claims that outlive the account | an admin remains; an org does not grow beyond its plan; only admins of the org act |
| Tokens (`core/security.py`, `api/v1/auth.py`) | none (signed claims) | login | every route | stale claims | authority ends with the account, an hour later |
| Billing (`api/v1/billing.py`, `api/internal/billing_webhook.py`) | `orgs` (tier, customer, subscription), `stripe.api_key` per process | checkout, portal, webhook | Stripe, plan limits | events repeated and reordered; a coroutine with a blocking session | the plan is what is subscribed to; customers are not mixed up; the event loop never hangs |
| Mailboxes and OAuth (`api/v1/mailboxes.py`) | `mailbox_connections`, `_oauth_state` | start, callback | providers, plan limits | state in one process's memory; check-then-act on the limit | a flow connects one mailbox; an org does not grow beyond its plan |
| Token broker, key rotation (`api/internal/token_broker.py`, `services/secrets.py`, `services/token_crypto.py`) | cached tokens, key list per process | fetch, encrypt, decrypt | providers, cells | rotation while replicas disagree; concurrent refreshes; answers lost after a rotation | every stored token can be decrypted and used |
| Skill settings, VIP rules (`api/v1/skill_settings.py`) | `org_skill_settings`, `vip_rules` | upsert, create, delete | renderer | overlapping updates of one row | an answered update is stored whole |
| Gateway client (`services/gateway_client.py`) | a socket per call | connect, run, stream | OpenClaw gateway | interleaved frames, no receive timeout, cancellation | each answer reaches its request; no gap; sockets closed |
| MCP servers (`agent-runtime/mcp-servers`) | none | `create_draft`, `update_draft`, labels, ... | broker, ingest, providers | partial failure between provider and ingest; a draft changed after it was queued | what was approved is what is sent |
| Dashboard (`dashboard/src/routes`) | component state | load, approve, reject, ... | API | optimistic updates and stale rollbacks | the inbox shows what is left to review |
| Digests, rate limit, logging, metrics, migrations, Helm, skills | little or none | | | | not modelled, see below |

`PROJECT.json` lists the components with their status, and the hazards with
their lines.

## Modules

| Module | Models | Runs of |
|---|---|---|
| `HumanGate` | the promise of the draft queue, without requests, sessions or providers | |
| `DraftApproval` | ingest, approve, reject, removal of a reviewer, the provider's side | `MCDraftApproval` |
| `DraftApprovalProofs` | theorems about `DraftApproval` | |
| `CellProvisioning` | provisioning, removal and restart of a cell | `MCCellProvisioning` |
| `CellProvisioningProofs` | theorems about `CellProvisioning` | |
| `OrgMembership` | invitations, role changes, removals, tokens | `MCOrgMembership` |
| `OrgMembershipProofs` | theorems about `OrgMembership` | |
| `Billing` | checkout, portal, webhook, event loop | `MCBilling` |
| `BillingProofs` | theorems about `Billing` | |
| `GatewayClient` | the client of a gateway: handshake, runs, streams | `MCGatewayClient` |
| `GatewayClientProofs` | theorems about `GatewayClient` | |
| `MailboxTokens` | OAuth flows, connection rows, refreshes, key rotation | `MCMailboxTokens` |
| `MailboxTokensProofs` | theorems about `MailboxTokens` | |
| `ApprovalInbox` | a draft's way from the agent's tool to the reviewer's screen and out | `MCApprovalInbox` |
| `ApprovalInboxProofs` | theorems about `ApprovalInbox` | |
| `SkillConfig` | switches, VIP rules, rendering | `MCSkillConfig` |
| `SkillConfigProofs` | theorems about `SkillConfig` | |

How they overlap. `ApprovalInbox` takes a review of `DraftApproval` as one step
with the outcomes that module finds for it (sent, failed with or without mail,
rolled back after the mail). `MailboxTokens` has the refresh inside
`provider.send_draft`, of which `DraftApproval` sees only success or failure.
`CellProvisioning` takes what `SkillConfig` renders as one revision number.
`OrgMembership` and `MailboxTokens` see of `Billing` that the webhook sets the plan
of an org to any tier at any time (`ChangePlan`), between a check of the limit and
the commit too.

### DraftApproval

State: the committed `drafts` rows (org, connection, provider draft, status,
reviewer) and `auditLog`; `members`, the users that still have an account;
`providerDrafts`, the provider's copy of each draft; `requests`, what each
slot of the thread pool is doing. `grants`, `mail` and `unrecorded` are history
variables: which approvals were let through, which of them made mail leave, and of
which of those the session died or was rolled back before it could record that.

| Action | Code |
|---|---|
| `CreateProviderDraft` | `create_draft` of the MCP servers, before it ingests |
| `OwnerDiscards` | the owner sends or deletes the draft in the mailbox (external) |
| `IngestRead`, `IngestCommit` | `ingest_draft`: checks and look-up; insert, audit row, commit |
| `ApproveRead`, `RejectRead` | the checks of `approve_draft`, `reject_draft` |
| `SendAccepted`, `SendUnanswered`, `SendRefused` | `provider.send_draft`: sent and answered, sent but raising, raising |
| `ApproveCommit`, `FailCommit`, `RejectCommit` | the assignments, the audit row and the commit |
| `ReviewRollback` | the foreign key of the reviewer column fails, `get_session` rolls back |
| `Crash` | the process dies and the session with it |
| `RemoveMember` | `remove_member` with its foreign-key failures, as one step |

Left out: wording, timestamps, the draft's text; `list_drafts` is read-only.
A connection never changes its org, and no route deletes connections, drafts
or orgs. Drafts of unsupported providers cannot be connected.

`HumanGate` is the abstract specification. `Gate` maps the queue to it:
`verdict` is the status column, `granted` and `delivered` the history. It says
that no mail leaves without a grant given while the draft was open, to a user
of its tenant, that "sent" means mail left, that "failed" means somebody's
grant was tried, and that nothing opens a draft again. It does not say that a
verdict is final, because with overlapping requests it is not; `VerdictIsFinal`
speaks of drafts that are sent or rejected and that no review still works on. A
failed draft has no place in it: `drafts.py:60` wants it reviewable.

### CellProvisioning

State: the committed `agent_cells` rows (status and config version),
`settings` (a revision number that stands for everything the renderer reads),
`fleet` (the container), `files` (the revision of each of the two staged
files, 0 for what fleet seeds, `Cut` for one that is incomplete), `loaded` (what the gateway read when it started), `lock`
(`_provision_lock` of each process), `requests`.

| Action | Code |
|---|---|
| `ProvisionRead` | `provision_cell` up to the branch: take the lock, load the row, render |
| `WriteConfig`, `WriteVips` | `_stage_config_files`, a file at a time |
| `DiskFails` | `mkdir` or `write_text` raises; `write_text` truncates the file first, so that it may be left empty or cut off (`CutOff`) |
| `InsertRow` | `db.add` and `db.flush` of a new row; a duplicate rolls back |
| `FleetOk`, `FleetFails`, `FleetTimesOut` | a subcommand of the fleet CLI: done; non-zero exit (`FleetCliError`, 502, commit); `TimeoutExpired` (rollback) |
| `RestartRead` | `restart_cell`, which takes no lock |
| `DeprovisionRead` | `deprovision_cell` |
| `Flush`, `Commit` | the audit row flushes and the lock is released; `get_session` commits |
| `ChangeSettings` | a mailbox is connected, a skill or a VIP rule changed |
| `Crash` | a process dies: its requests, its lock; a file it was writing may be cut off |

Fleet itself is modelled from how `fleet_cli.py` and its comments use it:
`create` seeds a default config and refuses a second time, `start` and
`restart` make the gateway read the files.

### OrgMembership

State: the committed `users` table (primary keys are never used again),
`referenced` (users a mailbox or a draft refers to), `tokens` in circulation,
`seats` (those of each org's `plan_tier`), `requests`; `adminsEver` is history, and
so is the `widest` of an invitation, the largest plan its org had since the check. One action per route for the checks
(`InviteRead`, `ChangeRoleRead`, `RemoveRead`) and one for the commit; `Rollback` is
the unique address, the row that is gone or the foreign key. `ChangePlan` is the
webhook, which raises or lowers the plan. The audit row of each write is part of the
same transaction and left out.
Platform admins have no org and therefore pass none of these routes.

### Billing

State: the org's row, `configured` (processes whose `stripe.api_key` is set),
`loop` (the request that keeps a process's event loop busy), `requests`, and
Stripe's side: `customers`, `subs`, `events`. `start_checkout` is
`CheckoutRead`, `CreateCustomer` or `NoCustomer`, `OpenSession` or `NoSession`,
then `Flush` and `Commit`, or `LateCommit` where the flush happens in the
teardown after an HTTPException. `billing_webhook` is `HookRead` or `HookIgnores`, `Flush`,
`Commit`. The handler is the only coroutine among the routes: from `HookRead`
to `Flush` it occupies the event loop. Committing takes a free event loop,
since the teardown of a generator dependency is started from it. `LockMode`
and `Conflict` are PostgreSQL's: an UPDATE of the unique customer id conflicts
with everything, an UPDATE of other columns with the same, and an audit row
takes a share lock on the org it refers to. Signatures are left out; an event
is genuine. The teardown of `LateCommit` starts from the event loop as well
(`NoSession` asks for a free one); its flush then waits for the row in a thread.

Of Stripe's statuses, `past_due` stands for every one but active that keeps the
plan of the price (`incomplete`, `trialing`, ...) and `unpaid` for those that end it
(`billing_webhook.py:48`). A plan may change while its subscription is past due:
the webhook looks at the price, not at payments, so the property is
`TierWasSubscribed` and says nothing about money.

### GatewayClient

State, per call: where it is (`step`: the frame it waits for), its `socket`, the
`frames` on their way to it, the request the gateway owes it an answer to
(`pending`), the run it waits for, what it returned or yielded. `runs`,
`published` and `subscribed` belong to the gateway, which is external and modelled
from the frames the client expects.

| Action | Code |
|---|---|
| `Connect`, `ReceiveChallenge`, `ReceiveHello` | `_connect`; the last one sends the first request |
| `Skip`, `Refused` | `_request`: another frame; an answer that is not ok |
| `RunUnnamed`, `RunStarted`, `RunReported` | `trigger_run`: an answer without a `runId`, with one, the result |
| `Subscribed`, `Stream` | `stream_session_events` |
| `Disconnected`, `Cancel` | `recv` raises; the caller cancels or stops reading |
| `GatewayAnswers`, `GatewayStartsRun`, `RunEnds`, `GatewayReportsRun`, `GatewayPublishes`, `Break` | the gateway and the network |

A call sends each method once, so a request is known by its method in place of
a uuid. Frames are objects with the fields the client reads; `is_live` and
`is_ready` are single probes and left out.

### MailboxTokens

State: `oauthState` of each process, the flows that were `started`, the mailboxes
`allowed` by each org's `plan_tier`, the committed `connections`, the newest refresh
token the provider has `issued`, the deployment's key list (`configured`) and the
one each process read at its start (`keys`), `requests`. `lost` is history (the
mailboxes whose newest token nobody is going to store), and so is the `widest` of a
callback, as in `OrgMembership`.

| Action | Code |
|---|---|
| `Start` | `start_gmail_oauth`, `start_outlook_oauth`, also by a platform admin who has no org |
| `Callback`, `CallbackCommit`, `CallbackFails` | the callbacks: pop the state, refuse one without an org, and count; exchange, encrypt, insert and commit; any exception |
| `AccessExpires` | a cached access token comes within 30 seconds of its end |
| `RefreshRead`, `ProviderAnswers`, `RefreshUnanswered`, `RefreshFails` | `refresh_access_token` of either provider, called by the broker or a send: answered, answered in vain after Microsoft has rotated the token, refused |
| `RefreshCommit`, `RefreshRolledBack` | the end of the session that refreshed |
| `PrependKey`, `DropRetiredKeys` | the operator rotates the key as `services/secrets.py` says |
| `Restart` | a process dies and starts with the keys configured then |
| `ChangePlan` | the billing webhook raises or lowers the plan |

A token is its number, and the key it is encrypted with. A refresh that finds a
valid cached token, or one its process cannot decrypt, changes nothing and is
no action. The provider's older refresh tokens stay good: that is what makes the
loss of a newer one survivable, and not part of a property.

### ApprovalInbox

State: the provider's `content` (a version number), `filing` (where a
`create_draft` is), the queue's `rows`, `mail`; of each tab its `view`, the list
`arriving`, the cards on the `screen`, its unanswered `calls`. `expected` is history:
what was loaded less what it was told is reviewed.

| Action | Code |
|---|---|
| `CreateDraft`, `IngestDraft`, `UpdateDraft` | the tools of the MCP servers, the first in its two halves |
| `Load`, `Show`, `Leave` | `useEffect(load, [])`, its answer, another route |
| `Click` | `approve` and `reject` up to the `await`: the list is kept, the card goes |
| `Answer` | the rest: nothing, or the rollback to the list that was kept |
| `ApproveSends`, `ApproveFails`, `ApproveRolledBack`, `Reject`, `ReviewFails` | what the queue does, and an answer that may be lost |

A tab has one unanswered review per draft: after leaving the page, a second
one for the same draft waits for the first.

### SkillConfig

State: the committed `settings` (switch and params of each skill) and `rules`, the
providers of the connected `mailboxes`, `requests`, and per org the `rendering`
with what it has read. `UpdateRead` and `UpdateCommit` are `upsert_skill_setting`;
the commit writes the columns that differ from what was read (`Written`), and the
unique constraint refuses the second of two inserts (`Stored`). `CreateRule` and
`DeleteRule` are single rows. `RenderProviders`, `RenderSkills` and `RenderVips` are
the three queries of `render_tenant_config_files`, each of which sees what is
committed by then.

## Runs

The constants of every run are in its `.cfg`. Deadlock is not checked: every
bounded instance comes to rest when its rows, accounts or versions are used up.

| Run | Instance | Checks |
|---|---|---|
| `approval_faults` | 2 orgs, 4 users, 2 mailboxes, 2 provider drafts, 2 rows, 2 overlapping requests, crashes, removals; the requests of one org come one after the other | type, `SentMeansDelivered`, `VerdictsAudited`, `TenantIsolation`, `EveryMailAudited`, `VerdictIsFinal`, refinement of `HumanGate`; in the orderly org `RejectedNeverMailed`, `OneRowPerProviderDraft` |
| `approval_verdict` | 1 org, 2 users, 1 mailbox, 1 provider draft, 2 rows, 2 overlapping requests, crashes, removals | `MailGetsVerdict` (fairness) |
| `cell_one_process` | 2 cells, 2 overlapping requests, 1 process; one cell restarted by admins, with timeouts, full disks and crashes; one retired, with failing fleet commands, full disks and writes that are cut off | type, `OnlyRestartsOverlap`, `NeverDefaultConfig`, `ConfigNotTorn`, `RowMatchesFleet`, `NeverGoesBack`, `LockIsReleased` (fairness) |
| `members` | 2 orgs that invite the same addresses, 4 accounts, plans of 1 and 2 seats between which one org moves, stale tokens, 2 overlapping requests; those of one org come one after the other | type, `AdminsChangeMembers`, `SeatLimitKept`; in the orderly org `AdminRemainsInTurn` |
| `billing` | 2 orgs, 2 customers, 2 subscriptions, 3 events, 2 requests, crashes; one org with events in order and one subscription after the other, one without | type, `CustomersKeptApart`, `TierWasSubscribed`, `PlanFollowsStripe` |
| `billing_loop_stuck` | 1 org, 2 requests in one process | violates `LoopIsFreed` (fairness) |
| `gateway_calls` | 1 call that starts a run, 1 stream, 2 run ids, 3 events; either may lose the network or be cancelled at any time | type, `AnswerIsOwn`, `SocketsClosed`, `StreamHasNoGap`, `RunCallEnds` (fairness) |
| `mailbox_tokens` | 2 orgs, 4 flows (one of a platform admin), plans of 1 and 2 mailboxes between which one org moves, 2 rows, 2 processes, 2 keys, 3 refresh tokens, 2 overlapping requests; those of one org come one after the other | type, `OneMailboxPerFlow`, `TokensReadable`, `MailboxLimitKept`; in the orderly org `RotatedTokenKept` |
| `inbox_tabs` | 2 drafts with 2 versions, 2 tabs | type, `ScreenSettles` |
| `inbox_updated_draft` | the same | violates `SentAsReviewed` |
| `skill_settings` | 1 org, 2 skills, 2 params, 1 rule, 2 overlapping requests; the updates of one switch come one after the other | type, `AnswerIsStored` |
| `skill_baseline` | the same | violates `BaselineOnlyUnconfigured` |

What the constants mean. Several of them are sets, so that one instance holds
orgs, calls or tabs of different kinds side by side, and the well-behaved one has
to hold its own while the others do their worst: `Orderly` (orgs, or in
`SkillConfig` switches, whose requests do not overlap), `Patient` (in `Billing` no
second checkout while one is open, in `ApprovalInbox` a tab whose user waits for
each answer), `InOrder` (events arrive once, in order), `StripeFails`, `Frail`
(calls whose network breaks or whose caller cancels), `Restartable`, `Retirable`,
and `Faults`, which says for each org which of fleet failures, timeouts, disk
errors, writes cut off and crashes its requests may meet. A property that needs one of these
names it in its statement; the others hold for all. `Orderly`, `Patient` and
`InOrder` are assumptions about the callers and not about the code: the code has
nothing to make requests or events come in turn, and "Seen while modelling" says
what happens when they do not.

Why the bounds suffice. Races in this program are between two requests about
one row, so two slots show them; a commit that comes late meets, in
`cell_one_process`, up to two provisionings that follow each other (three
versions of the first cell). Tenants do not share rows, so two of them show
every way to mix them up. Two rows show a double ingest; two revisions show an
older config and a newer one; three events show a completed checkout, a change
and a deletion in every order. One token at a time (`MaxTokens`) still shows
every stale one: it outlives its user's role and account, and the request that
was let through with it outlives the token. Plans of one and of two seats
and three addresses show the seat too many, and the org that a lower plan leaves
above its limit. `Subscribers` bounds the orgs whose plan moves. Three events (`MaxEvents`) show one before a subscription, one
on the wire with its answer and one after; with one run call an answer can only
be its own or nobody's, so the question among several calls is left to the
theorem `AnswersAreOwn`. Two keys (`MaxKey`) show a rotation with a process that
has not restarted; three refresh tokens (`MaxIssued`) the first and two
rotations, which is what it takes for an older one to come late. Two versions of
a draft (`MaxVersion`) show one that was changed after it was filed.

Fairness. `DraftApproval`: a request that was started goes on, since a thread
of the pool is never parked, both providers answer or time out, and commits
return; nothing is assumed about users, agents or owners. `CellProvisioning`:
the same, and strong fairness where a request waits for a row (`InsertRow`,
`Flush`), because PostgreSQL queues the waiting sessions; fleet calls end within their timeout of
120 seconds. `Billing`: threads run, Stripe's API answers, row waits are
queued; nothing is assumed about deliveries. `Commit` is weakly fair and needs
a free event loop: that is why a blocked loop is final. `GatewayClient`: the event
loop runs the coroutines, the gateway answers requests and its runs end, frames
arrive unless the network breaks; nothing is assumed about events, breaks and
cancellations. The code justifies the first part only: after `open_timeout` the
client sets no timeout, so that a run that never ends keeps its caller for ever,
and the gateway's part is an assumption. The other modules have safety properties
only and need none.

## Findings

Each of these is a run that TLC ends with a counterexample.

1. **The event loop can hang for good** (`billing_loop_stuck`). The webhook
   handler waits, on the event loop, for a row whose holder needs the event
   loop to commit. Two events for one org that arrive together suffice.
2. **What is sent need not be what was reviewed** (`inbox_updated_draft`). The
   inbox shows the subject and snippet that were filed; `update_draft` changes the
   provider's draft afterwards, and the approval sends that.
   `docs/architecture.md:60-61` has bodies fetched when a human opens a draft; no
   route does.
3. **Switching every skill off switches the defaults on** (`skill_baseline`). The
   renderer looks at enabled rows only and takes none for an org without
   settings, against its own comment (`config_renderer.py:49`).

Seen while modelling, without a run of their own. Most of them are the other side
of a property's condition: drop it, and TLC shows the behaviour.

Drafts:

* "sent" can be lost: two approvals overlap; the second send fails because the
  draft has left; its "failed" overwrites "sent". `VerdictIsFinal` starts when the
  reviews that overlap are over.
* Mail can go unaudited: the process dies after the send, or a reviewer is removed
  while the token is valid, the mail leaves, and the foreign key rolls the verdict
  and the audit row back. The draft is open again, and can then be rejected although
  its mail has left. `unrecorded` says which mail that is: `EveryMailAudited`,
  `MailGetsVerdict` and `RejectedNeverMailed` without it are violated.
* A failed send is a dead end: the comment says "keep draft reviewable"
  (`drafts.py:60`), and neither route accepts a failed draft. No property counts
  "failed" as final.
* Overlapping ingests file a provider draft twice; a failed ingest files it not at
  all, and the tool's retry creates a second provider draft.
* A user who does not wait for answers, and has two reviews fail, gets cards back
  that are reviewed or loses cards that are not: each failure puts back the list
  its click had kept (`ScreenSettles` for tabs that are not `Patient`).

Cells:

* `restart_cell` calls fleet without the lock that `fleet_cli.py:12-14` demands:
  `OnlyRestartsOverlap` has to except it.
* Two first provisionings create twice: the lock is released before the row is
  committed.
* A failure after `fleet create` rolls the row back and leaves the cell; all
  later calls are refused (`provision_cell.py:55-56`).
* With failing fleet commands a late commit can take `config_version` back, and so
  can one whose restart was refused because the cell had been removed:
  `NeverGoesBack` says nothing of the version then. The second case turned up when
  the proof of `NothingGoesBack` could not be completed for orgs without failing
  commands; TLC then showed it.
* A gateway that an admin restarts while a file is incomplete, after a write that
  failed or died, starts on that file: `NeverDefaultConfig` and `NeverGoesBack` except
  it. A retry of the provisioning writes the files again before it starts anything.
* A failed restart leaves "running"; a deprovisioned cell cannot be created again
  through `provision_cell`.

Accounts and billing:

* The last admin can go, by two requests at once (`AdminRemainsInTurn` without
  `Orderly`); two invitations at once take one seat too many
  (`services/billing.py:31-32`). `SeatLimitKept` bounds by how much: one for each
  further request at a time.
* A plan is enforced only when something is added. When the webhook lowers it
  (`billing_webhook.py:49`, `63`), members and mailboxes above the new limit stay;
  the org takes in nobody until it is below the limit again. So neither "an org has
  at most the seats of its plan" nor the same of mailboxes is a property of this
  program, and `SeatLimitKept` and `MailboxLimitKept` are about growing.
* The first customer is never created: `stripe.Customer.create` is called before
  the API key is set (`billing.py:31-33`); the tests replace that call.
* Events out of order leave the wrong plan; the deletion of one of two
  subscriptions ends the plan.

Mailboxes and keys:

* One mailbox can be connected twice, by two flows: no constraint and no look-up
  keeps its address unique. Overlapping callbacks exceed the plan's limit, by one for
  each further request at a time (`MailboxLimitKept`).
* A platform admin without an org may start a flow (`security.py:80`), and its
  callback is answered with invalid_state (`mailboxes.py:58-60`), as is one that comes
  to another process than the flow was started at, or after a restart
  (`mailboxes.py:18-20` says so). No property promises that a state is found.
* When Microsoft has rotated a refresh token and the answer is lost
  (`outlook.py:41`), the stored one is no longer the newest, until a later rotation is
  stored (`RefreshUnanswered`, `lost`).
* Of two overlapping refreshes the later commit may store the older refresh
  token; the rollback of a send forgets the new one its refresh was given
  (`RotatedTokenKept` without `Orderly` or `lost`).
* During the rollout of a new key, replicas that have not restarted cannot read
  the rows the others write; the comments describe prepending it only. Giving it to
  every replica as a previous key first would avoid that.
* A Gmail refresh token is never encrypted anew, since Google sends no new one. A
  retired key can therefore not be dropped, whatever ages out: `DropRetiredKeys`
  is never enabled while such a row has the old key.

Gateway client, skills:

* A handshake that is cancelled leaves its socket open: `except Exception` does not
  catch `CancelledError` (`gateway_client.py:94`, `127`). `SocketsClosed` speaks of
  calls that returned or raised.
* Events that arrive before the answer to the subscription are skipped by
  `_request`; `StreamHasNoGap` speaks of those after it.
* Overlapping updates of one switch can store the flag of one and the params of the
  other. The settings page shows the defaults as on while other skills are
  configured, where the renderer leaves them out, and its toggle resets the params
  (`SkillSettings.tsx:24-28`).

## What is proved

The proofs hold for every number of orgs, users, drafts, requests, processes
and settings, under the named assumptions on the constants, which say only how
the constants' types fit together (`OrgMembership` and `MailboxTokens` also need
that there are finitely many users, mailboxes and requests, to count them). Every invariant below was first checked
by TLC as an invariant of the instance in the table above.

**`DraftApprovalProofs`.**

* `TypeCorrect`: types, and that a review works on a row that is there. Rows are
  never deleted, so what the first read found stays.
* `Refinement`: `DraftApproval` implements `HumanGate`: every step maps to a step of
  the gate or a stutter.
* `SentDelivered`, `VerdictsExplained`, `TenantsIsolated` follow from `IInv`. None of
  the three is inductive by itself, because what is committed was decided two
  steps earlier, on a row that another request may have changed since. `IInv` adds
  what requests carry: who sends was granted it (`SendsGranted`, `mail ⊆ grants`),
  a reviewer belongs to the draft's org (`ReviewsOwnOrg`), and an ingest was
  checked against the org of its connection (`InsertsOwnOrg`).
* `MailAudited` (`EveryMailAudited`) holds with crashes and removals: mail joins
  `unrecorded` in the one step in which its session dies or rolls back, so mail that
  is in neither place was written to the log by the commit of its review.
* `VerdictsFinal` (the action property `VerdictIsFinal`) is about every org, whatever
  overlaps: when no review works on a sent or rejected draft, none can begin, and only
  reviews write rows that exist. `SettledNext` has this action by action.
* `OneRow` is about orderly orgs, with crashes and removals. `QInv` says that such an org has one
  request at a time (`OneAtATime`), so what it has read still holds when it commits:
  its draft is open (`ReviewsOpen`), its row is missing (`InsertsFresh`). Requests of
  other orgs cannot disturb that, because the row, the connection and the user of a
  request belong to one org (`TenantIsolation`, `ReviewsOwnOrg`).
* `RejectedNotMailed`, for orderly orgs with crashes and removals: `MailUnderWay` says
  that mail of a draft that is still open is unrecorded or belongs to the one request
  about to record it, which therefore rejects nothing.

**`OrgMembershipProofs`.** `IInv` says what a request that has passed its checks
may rely on until it commits: in an orderly org it is alone (`OneAtATime`); if it
takes an admin's role or account, another admin stays behind
(`AdminStaysBehind`). These survive the requests of all other orgs because a
request's target is in its own org or gone (`TargetsOwnOrg`), which is why that
conjunct is there.

* `AdminStays`, from `IInv`.
* `SeatsSuffice`, the action property `SeatLimitKept`, for every org and any overlap.
  `SeatsCounted` counts: the members an org has and those it has invited stay below
  the largest plan since the check of any of these invitations (`widest`), plus the
  lanes that may overlap, one in an orderly org. The webhook cannot break that: a
  plan that is raised raises `widest` with it, and one that is lowered lets no new
  invitation in.
* `AdminsAct`: the action property `AdminsChangeMembers`, for any overlap, from
  `IInv` and `AuthorityHasSource`: the claims of every valid token, and the actor of
  every request, go back to a time when that user was an admin.

**`CellProvisioningProofs`.** `TypeCorrect` needs no assumption. The other theorems
assume `SingleProcess`, because `_provision_lock` is a lock of one process: with
two replicas nothing serialises the host. `LInv` says that each job goes through
the phases of its kind, and that a provisioning or a removal holds the lock of
its process until its flush.

* `FleetInTurn`: `OnlyRestartsOverlap`, from `LInv`.
* `GatewayConfigured` (`NeverDefaultConfig`) and `ConfigWhole` (`ConfigNotTorn`) need
  `CInv`, which says what each job may rely on (`Good`): while it stages or starts,
  the files are what it has written so far (a write that is cut off ends the job); a
  first provisioning has seen no row and its cell exists; once started, its files are staged. Two more
  conjuncts hold for all: there is at most one first provisioning that got as
  far as a cell (`OneNewCell`), so its late commit surprises nobody; and an org
  with a row has its files staged (`RowIsConfigured`), which is what makes
  a restart by an admin harmless although it takes no lock: it never meets the seeded
  files. It may meet one that is cut off, which `NeverDefaultConfig` excludes only for
  orgs whose cells no admin restarts. `ConfigNotTorn` excepts the orgs admins restart, whose gateways may read between two files.
* `RowsMatch` (`RowMatchesFleet`) needs `FInv`, the order in which removals and
  provisionings of a cell may finish. A removal takes the container away under the
  lock and writes the row later; until then another session may still hold "running"
  for that row. If that session is at its flush, it holds the lock and the container
  is there (`AheadLocks`); if it is at its commit, it has the row, so that the removal
  waits for it at its own flush and writes last (`AheadCommits`). A container
  that has gone is therefore in the row, or in the hands of a removal about to write
  it (`GoneIsWritten`). `JobsSound` says what a job writes, from how far it came.
* `NothingGoesBack` (`NeverGoesBack`, a property of every step) has two halves.
  `ConfigInv`: what is loaded is no newer than the file, the file no newer than the
  settings, and no newer than what a provisioning has read that has yet to write it.
  `VersionInv`: while fleet has the cell, a provisioning keeps the lock until its
  flush, so of those of one cell at most one has yet to flush; it read the row at or
  after the version of the one that waits to commit, and is at most one ahead.
* `NobodyIsStuck` needs no `SingleProcess`. It is the half of `LockIsReleased` that needs no
  fairness: a lock belongs to a request that has yet to flush (`LockHasHolder`),
  and who has the row never waits for a row (`RowWaitsEnd`, since two sessions never
  have one row, `OneHasRow`).

`JobGoes`, `FleetGoes`, `CellsGo`, `FilesGo` and `LockStays` say once what any step does to a
request, a container, a row, a file and the lock; the invariants above are proved
from these and not action by action.

**`BillingProofs`.** `TypeCorrect` comes with `SessionHasCustomer`: a checkout session
is opened for a customer. `BInv` says that whatever a row holds, and whatever a
request is about to write to it, belongs to that org (`RowsBelong`,
`WritesBelong`: its customer, its subscription, a tier it subscribed to), and the
same of sessions and undelivered events (`SubsBelong`, `EventsBelong`). It is kept
because Stripe never reassigns a customer or a subscription, and a plan a
subscription stood for stays in its history (`StripeKeeps`): what was true at the read still is at the commit,
so neither overlap nor the order of events can break it.

* `CustomersApart`, `TierPaid`: `CustomersKeptApart` and `TierWasSubscribed`, from `BInv`.
* `PlanFollows` (`PlanFollowsStripe`) needs `PlanInv` as well, for the orgs in `Patient`
  and `InOrder`. The property speaks of an org with nothing under way; the invariant
  says what is on its way meanwhile. The plan Stripe bills is that of the latest event
  still to come, or of the row if there is none (`PlanKnown`). The one request of
  the org (`OneRequest`) has loaded the row as it is and applies the first of these
  events, or opens a subscription and leaves the tier alone (`RequestsApply`). At
  most one subscription can still change the plan (`OneSub`), and its customer is
  in the row or comes with its first event (`CustomerKnown`): otherwise the
  webhook would not find the org, and drop the event.

**`GatewayClientProofs`.** `SocketInv`: past its connection a call has a socket until it
ends; it gives `SocketsAreClosed`. `OwnInv` follows a run id on its way:
a frame that answers a call's request names a run the gateway started for that
call, one that reports a run names one that has ended (`FramesTrue`); the id a call
waits for is its own (`WaitsForOwn`), so what it returns is (`ResultsOwn`, which gives
`AnswersAreOwn`). That the ids of two calls differ is the gateway's promise.
`StreamInv` gives `StreamsHaveNoGap` (`StreamHasNoGap`). It counts: while a stream runs,
what it has yielded and what is queued add up to what was published since its
subscription (`Streams`), and behind the answer to the subscription the queue holds
just the later events (`Asked`), so that the frames `_request` skips are older ones. The
connection may break: a queue that loses its end still has no gap. `DueInv` is the
half of `RunCallEnds` that needs no fairness (`NobodyWaitsInVain`): while its
connection is open, what a call waits for is in its queue or owed by the gateway, and
the run it asks about is one the gateway knows. So a call can wait for ever only
because the gateway, or one of its runs, does.

**`SkillConfigProofs`.** `AnswersStored` needs, for a switch whose updates come in turn,
that there is one under way (`OneAtATime`) and that the row it has read is still
the row (`ReadIsCurrent`): then the columns the UPDATE leaves out hold what was
asked for.

**`MailboxTokensProofs`.**

* `TypeCorrect` comes with `RowsStay`: a refresh works on a row that is there.
* `OneMailbox`, from `FInv`: a flow is in the dictionary of one process at most
  (`HeldByOne`), and in one place only: in a dictionary, in one exchange, or in a
  row (`UsedOnce`).
* `TokensCanBeRead`, from `KInv`. `TokensReadable` is not inductive: a process that has
  not restarted encrypts with an older key, which has to be configured still
  (`HeadsConfigured`); it is, because retired keys are dropped only when every
  process has the new list.
* `LimitKept`, the action property `MailboxLimitKept`, for every org and any overlap,
  from `IInv`: `PlanCounted` counts as `SeatsCounted` does above.
* `NewestTokenKept`, for orderly orgs, from `IInv` as well: requests come one at a time
  (`OneAtATime`); a new refresh token is with the request that carries it, or in the
  row, or lost (`NewestIsKept`). A rotation that is stored takes the mailbox out of
  `lost` again, so earlier losses do not weaken what the theorem says later.

**`ApprovalInboxProofs`.** `ScreensSettle` gives `ScreenSettles` for every number of tabs
and drafts, from `SInv`: a patient user's page has at most one open review
(`OneOpenCall`); the list that review has kept is the one expected, and the cards on
the screen are that list without its own (`KeptIsExpected`). So a rollback and an
answer both end where the page should be. The tabs of other users change none of
it, and requests of a page that was left roll nothing back.

## Only model-checked

Liveness under fairness (`MailGetsVerdict`, `LockIsReleased`, `RunCallEnds`, and the
violated `LoopIsFreed`), which is out of TLAPS's reach: its rules for fairness need
ENABLED. Of `LockIsReleased` and `RunCallEnds` the safety half is proved
(`NobodyIsStuck`, `NobodyWaitsInVain`). Every invariant and every property of steps that
a passing run checks is a theorem.

## Not modelled

* Prompt text, skills and templates: instructions to a model.
* Search, label, calendar and digest tools, digests, the other pages of the
  dashboard: single calls without a state of their own.
* Migrations, Helm chart, observability, logging, metrics, rate limit:
  configuration of other programs.
* Passwords, signatures, encryption: taken to work. Of encryption, which key
  reads what is modelled.
* Lists (`list_drafts`, `list_mailboxes`, ...) and probes (`is_live`, `is_ready`):
  read-only.

## Plan

Done: the eight system modules above with `HumanGate`, their runs, and the proofs
above. What is left, the most important first:

1. `ControlPlane`: `OrgMembership` composed with `DraftApproval`, tokens that
   outlive their user in place of the one-step `RemoveMember`.
2. The body of a draft carried through `DraftApproval` to `HumanGate`, so that the gate
   itself says what `SentAsReviewed` says on the reviewer's side.
3. Theorems about these two.

New runs take the place of narrower ones: a run is kept where it asks a question
of its own.
