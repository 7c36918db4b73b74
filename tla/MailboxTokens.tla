---------------------------- MODULE MailboxTokens ----------------------------
(***************************************************************************)
(* Connected mailboxes and their tokens: the OAuth flow that connects one   *)
(* (api/v1/mailboxes.py, services/oauth_gmail.py, oauth_outlook.py), the    *)
(* refresh of its access token by the token broker and by a send            *)
(* (services/email_provider), and the keys the tokens are encrypted with    *)
(* (services/secrets.py, token_crypto.py).                                  *)
(*                                                                         *)
(* The control plane runs as several processes.  Each has its own            *)
(* dictionary of open OAuth flows, and its own list of keys, read when it   *)
(* started: it encrypts with the first and decrypts with any.  A request    *)
(* reads the row once, talks to the provider, and writes the columns it     *)
(* changed when its session commits.                                        *)
(***************************************************************************)
EXTENDS Naturals, Sequences, FiniteSets

CONSTANTS
  Orgs, Processes, Requests,
  Flows,           \* OAuth flows: the state values handed out
  FlowOrg,         \* the org of the user who starts a flow, if any
  NoOrg,           \* a platform admin has none (require_org_scope)
  Outlook,         \* the flows for an Outlook mailbox: their tokens rotate
  Connections,     \* primary keys of mailbox_connections
  PlanMailboxes,   \* the mailboxes of the plan tiers (PLAN_LIMITS)
  TrialMailboxes,  \* those of the tier an org starts with
  Subscribers,     \* bound: orgs whose plan changes
  Orderly,         \* orgs whose requests happen to come one after the other
  MaxKey,          \* bound: the keys used one after the other are 1..MaxKey
  MaxIssued        \* bound: refresh tokens issued for one mailbox

ASSUME FlowsAssumption ==
  /\ NoOrg \notin Orgs /\ FlowOrg \in [Flows -> Orgs \union {NoOrg}]
  /\ Outlook \subseteq Flows /\ Orderly \subseteq Orgs
ASSUME PlansAssumption ==
  PlanMailboxes \subseteq Nat \ {0} /\ TrialMailboxes \in PlanMailboxes
ASSUME LimitsAssumption ==
  /\ Subscribers \subseteq Orgs
  /\ IsFiniteSet(Connections) /\ IsFiniteSet(Requests)
  /\ MaxKey \in Nat \ {0} /\ MaxIssued \in Nat \ {0}

VARIABLES
  oauthState,      \* per process, the flows it has started and not popped
  started,         \* the flows whose state has been handed out
  allowed,         \* the mailboxes of the plan_tier of each org
  connections,     \* the mailbox_connections table, as committed
  issued,          \* provider: the newest refresh token of each mailbox
  lost,            \* history: mailboxes whose newest token will never be stored
  configured,      \* the key list of the deployment: current first
  keys,            \* the key list each process read when it started
  requests

flowVars == <<oauthState, started>>
keyVars == <<configured, keys>>
settings == <<allowed, keyVars>>
vars == <<flowVars, connections, issued, lost, settings, requests>>

NoRow == [status |-> "absent"]
KeyNumbers == 1..MaxKey
Tokens == 1..MaxIssued
OrgFlows == {f \in Flows : FlowOrg[f] \in Orgs}
Row == [status : {"connected"}, flow : OrgFlows,
        refresh : Tokens, refreshKey : KeyNumbers,
        access : {"valid", "expired"}, accessKey : KeyNumbers]

Idle == [step |-> "idle"]
CallbackRequest == [step : {"exchange"}, process : Processes, flow : OrgFlows,
                    widest : PlanMailboxes]  \* history: the largest plan since the check
RefreshRequest == [step : {"refresh"}, process : Processes, connection : Connections]
SaveRequest == [step : {"save"}, process : Processes, connection : Connections,
                token : Tokens \union {0}]

TypeOK ==
  /\ oauthState \in [Processes -> SUBSET Flows]
  /\ started \subseteq Flows
  /\ allowed \in [Orgs -> PlanMailboxes]
  /\ connections \in [Connections -> Row \union {NoRow}]
  /\ issued \in [Connections -> Tokens \union {0}]
  /\ lost \subseteq Connections
  /\ configured \in Seq(KeyNumbers) /\ configured # <<>>
  /\ keys \in [Processes -> Seq(KeyNumbers)]
  /\ \A p \in Processes : keys[p] # <<>>
  /\ requests \in [Requests -> {Idle} \union CallbackRequest \union RefreshRequest
                                     \union SaveRequest]

Init ==
  /\ oauthState = [p \in Processes |-> {}]
  /\ started = {}
  /\ allowed = [o \in Orgs |-> TrialMailboxes]
  /\ connections = [c \in Connections |-> NoRow]
  /\ issued = [c \in Connections |-> 0]
  /\ lost = {}
  /\ configured = <<1>>
  /\ keys = [p \in Processes |-> <<1>>]
  /\ requests = [q \in Requests |-> Idle]

Exists(c) == connections[c] # NoRow
OrgOf(c) == FlowOrg[connections[c].flow]
MailboxesOf(o) == {c \in Connections : Exists(c) /\ OrgOf(c) = o}

Serves(q, o) ==
  /\ requests[q] # Idle
  /\ o = IF requests[q].step = "exchange" THEN FlowOrg[requests[q].flow]
         ELSE OrgOf(requests[q].connection)

\* Nothing in the code keeps the requests of an org apart; an org may have one
\* user and one agent that wait for each other.
MayCall(o) == o \in Orderly => \A q \in Requests : ~Serves(q, o)

------------------------------------------------------------------------------
(* OAuth flows. *)

\* Everybody may start one, a platform admin without an org too.
Start(p, f) ==
  /\ f \notin started
  /\ started' = started \union {f}
  /\ oauthState' = [oauthState EXCEPT ![p] = @ \union {f}]
  /\ UNCHANGED <<connections, issued, lost, settings, requests>>

\* Mistakes to catch: the state is looked up and kept; the limit is compared
\* with <=.
Keep(p, f) == oauthState[p]
UpToLimit(o) == Cardinality(MailboxesOf(o)) <= allowed[o]

Pop(p, f) == oauthState[p] \ {f}
UnderLimit(o) == Cardinality(MailboxesOf(o)) < allowed[o]

\* The browser comes back, to any process, and may come back again.  A state that
\* is unknown there or has no org, and an exhausted plan, end in a redirect.
Callback(q, p, f) ==
  LET o == FlowOrg[f]
      Goes == f \in oauthState[p] /\ o # NoOrg /\ UnderLimit(o)
  IN /\ requests[q] = Idle
     /\ f \in started
     /\ MayCall(o)
     /\ oauthState' = [oauthState EXCEPT ![p] = Pop(p, f)]
     /\ requests' = IF Goes
                    THEN [requests EXCEPT ![q] = [step |-> "exchange", process |-> p,
                                                  flow |-> f, widest |-> allowed[o]]]
                    ELSE requests
     /\ UNCHANGED <<started, connections, issued, lost, settings>>

\* A mistake to catch: the previous keys come before the current one.
LastKey(p) == keys[p][Len(keys[p])]

\* encrypt_token: with the first key of the process's list.
EncryptionKey(p) == Head(keys[p])
Readable(p, k) == \E i \in DOMAIN keys[p] : keys[p][i] = k

\* complete_oauth_and_store_connection, audit row, commit.
CallbackCommit(q, c) ==
  /\ requests[q].step = "exchange"
  /\ ~Exists(c)
  /\ LET k == EncryptionKey(requests[q].process)
     IN connections' = [connections EXCEPT ![c] =
          [status |-> "connected", flow |-> requests[q].flow,
           refresh |-> 1, refreshKey |-> k, access |-> "valid", accessKey |-> k]]
  /\ issued' = [issued EXCEPT ![c] = 1]
  /\ requests' = [requests EXCEPT ![q] = Idle]
  /\ UNCHANGED <<flowVars, lost, settings>>

\* The exchange of the code, the profile or the insert fails: rolled back.
CallbackFails(q) ==
  /\ requests[q].step = "exchange"
  /\ requests' = [requests EXCEPT ![q] = Idle]
  /\ UNCHANGED <<flowVars, connections, issued, lost, settings>>

------------------------------------------------------------------------------
(* Access tokens. *)

\* 30 seconds before its expiry a cached token no longer counts.
AccessExpires(c) ==
  /\ Exists(c)
  /\ connections[c].access = "valid"
  /\ connections' = [connections EXCEPT ![c].access = "expired"]
  /\ UNCHANGED <<flowVars, issued, lost, settings, requests>>

\* refresh_access_token of a row whose cached token has expired; the refresh
\* token has to be readable.  (With a valid one, or one that cannot be read, the
\* request changes nothing.)
RefreshRead(q, p, c) ==
  /\ requests[q] = Idle
  /\ Exists(c)
  /\ MayCall(OrgOf(c))
  /\ connections[c].access = "expired"
  /\ Readable(p, connections[c].refreshKey)
  /\ requests' = [requests EXCEPT ![q] =
       [step |-> "refresh", process |-> p, connection |-> c]]
  /\ UNCHANGED <<flowVars, connections, issued, lost, settings>>

\* The provider answers with an access token; Microsoft may add a new refresh
\* token, Google never does.  Its older ones stay good.
ProviderAnswers(q) ==
  /\ requests[q].step = "refresh"
  /\ \E token \in Tokens \union {0} :
       /\ token # 0 => /\ connections[requests[q].connection].flow \in Outlook
                       /\ token = issued[requests[q].connection] + 1
       /\ issued' = IF token = 0 THEN issued
                    ELSE [issued EXCEPT ![requests[q].connection] = token]
       /\ requests' = [requests EXCEPT ![q] =
            [step |-> "save", process |-> requests[q].process,
             connection |-> requests[q].connection, token |-> token]]
  /\ UNCHANGED <<flowVars, connections, lost, settings>>

\* Microsoft has rotated the token, and the answer with the new one is lost.
RefreshUnanswered(q) ==
  LET c == requests[q].connection
  IN /\ requests[q].step = "refresh"
     /\ connections[c].flow \in Outlook
     /\ issued[c] < MaxIssued
     /\ issued' = [issued EXCEPT ![c] = @ + 1]
     /\ lost' = lost \union {c}
     /\ requests' = [requests EXCEPT ![q] = Idle]
     /\ UNCHANGED <<flowVars, connections, settings>>

\* It refuses: the broker rolls back, the send path commits nothing new.
RefreshFails(q) ==
  /\ requests[q].step = "refresh"
  /\ requests' = [requests EXCEPT ![q] = Idle]
  /\ UNCHANGED <<flowVars, connections, issued, lost, settings>>

\* A mistake to catch: the rotated refresh token is not stored.
AccessOnly(row, token, k) == [row EXCEPT !.access = "valid", !.accessKey = k]

\* A mistake to catch: an answer without a refresh token is stored as one.
ReplacedAnyway(row, token, k) ==
  [row EXCEPT !.access = "valid", !.accessKey = k, !.refresh = token, !.refreshKey = k]

\* The columns a refresh changes; the refresh token only if a new one came.
Refreshed(row, token, k) ==
  [row EXCEPT !.access = "valid", !.accessKey = k,
              !.refresh = IF token = 0 THEN row.refresh ELSE token,
              !.refreshKey = IF token = 0 THEN row.refreshKey ELSE k]

\* Request q holds the newest refresh token of c, and the table does not.
HoldsNewest(q, c) ==
  /\ requests[q].step = "save" /\ requests[q].connection = c
  /\ requests[q].token # 0 /\ requests[q].token = issued[c]

RefreshCommit(q) ==
  /\ requests[q].step = "save"
  /\ LET c == requests[q].connection
     IN /\ connections' = [connections EXCEPT ![c] =
             Refreshed(connections[c], requests[q].token,
                       EncryptionKey(requests[q].process))]
        /\ lost' = IF HoldsNewest(q, c) THEN lost \ {c} ELSE lost
  /\ requests' = [requests EXCEPT ![q] = Idle]
  /\ UNCHANGED <<flowVars, issued, settings>>

\* A send whose verdict cannot be stored, the reviewer being gone, is rolled back
\* with the tokens its refresh has changed.
RefreshRolledBack(q) ==
  /\ requests[q].step = "save"
  /\ requests' = [requests EXCEPT ![q] = Idle]
  /\ lost' = lost \union {c \in Connections : HoldsNewest(q, c)}
  /\ UNCHANGED <<flowVars, connections, issued, settings>>

------------------------------------------------------------------------------
(* Keys and processes. *)

\* secrets.py: "rotating means prepending a new current key".
PrependKey ==
  /\ Head(configured) < MaxKey
  /\ configured' = <<Head(configured) + 1>> \o configured
  /\ UNCHANGED <<flowVars, connections, issued, lost, allowed, keys, requests>>

\* "... and, once every row has been re-encrypted or aged out, dropping the
\* retired key": the operator has let the rollout of the new one finish first.
DropRetiredKeys ==
  /\ Len(configured) > 1
  /\ \A p \in Processes : keys[p] = configured
  /\ \A c \in Connections : Exists(c) =>
       /\ connections[c].refreshKey = Head(configured)
       /\ connections[c].accessKey = Head(configured)
  /\ configured' = <<Head(configured)>>
  /\ UNCHANGED <<flowVars, connections, issued, lost, allowed, keys, requests>>

\* A process ends, with the requests it was serving and the flows it had in its
\* dictionary, and starts again with the configured keys.
Restart(p) ==
  LET Died(q) == requests[q] # Idle /\ requests[q].process = p
  IN /\ oauthState' = [oauthState EXCEPT ![p] = {}]
     /\ keys' = [keys EXCEPT ![p] = configured]
     /\ requests' = [q \in Requests |-> IF Died(q) THEN Idle ELSE requests[q]]
     /\ lost' = lost \union
          {c \in Connections : \E q \in Requests : Died(q) /\ HoldsNewest(q, c)}
     /\ UNCHANGED <<started, connections, issued, allowed, configured>>

------------------------------------------------------------------------------
(* The billing webhook: an upgrade, a downgrade, or back to the trial plan,  *)
(* in a request of Stripe's that no tenant waits for.                        *)

Widen(job, o, n) ==
  IF job \in CallbackRequest /\ FlowOrg[job.flow] = o /\ job.widest < n
  THEN [job EXCEPT !.widest = n] ELSE job

ChangePlan(o, n) ==
  /\ allowed' = [allowed EXCEPT ![o] = n]
  /\ requests' = [q \in Requests |-> Widen(requests[q], o, n)]
  /\ UNCHANGED <<flowVars, connections, issued, lost, keyVars>>

------------------------------------------------------------------------------
Next ==
  \/ \E p \in Processes, f \in Flows : Start(p, f)
  \/ \E q \in Requests, p \in Processes, f \in Flows : Callback(q, p, f)
  \/ \E q \in Requests, c \in Connections : CallbackCommit(q, c)
  \/ \E q \in Requests : CallbackFails(q)
  \/ \E c \in Connections : AccessExpires(c)
  \/ \E q \in Requests, p \in Processes, c \in Connections : RefreshRead(q, p, c)
  \/ \E q \in Requests : ProviderAnswers(q) \/ RefreshUnanswered(q) \/ RefreshFails(q)
  \/ \E q \in Requests : RefreshCommit(q) \/ RefreshRolledBack(q)
  \/ PrependKey \/ DropRetiredKeys
  \/ \E p \in Processes : Restart(p)
  \/ \E o \in Subscribers, n \in PlanMailboxes : ChangePlan(o, n)

Spec == Init /\ [][Next]_vars

------------------------------------------------------------------------------
(* Properties *)

\* However often the browser comes back with a state, the flow it stands for
\* connects one mailbox at most.
OneMailboxPerFlow ==
  \A c, d \in Connections :
    Exists(c) /\ Exists(d) /\ connections[c].flow = connections[d].flow => c = d

\* An org gets another mailbox only by a callback that found one free in its plan
\* (_check_mailbox_plan_limit), as the plan was between that check and the commit:
\* once the webhook has lowered it below what the org has, the org gets no more.
\* Callbacks that overlap may each count the same free mailbox, and then outgrow
\* the plan by one for each further request the server serves at a time; in an
\* orderly org they do not.  (A plan that is lowered disconnects nothing: an org
\* may well have more mailboxes than its present plan.)
Lanes(o) == IF o \in Orderly THEN 1 ELSE Cardinality(Requests)

MailboxLimitKept ==
  [][\A o \in Orgs :
       Cardinality(MailboxesOf(o)') > Cardinality(MailboxesOf(o)) =>
         \E q \in Requests :
           /\ requests[q] \in CallbackRequest /\ FlowOrg[requests[q].flow] = o
           /\ requests'[q] = Idle
           /\ Cardinality(MailboxesOf(o)') < requests[q].widest + Lanes(o)]_vars

\* No stored token is lost to a key rotation: a process that starts now can
\* decrypt every one of them.
TokensReadable ==
  \A c \in Connections : Exists(c) =>
    \A k \in {connections[c].refreshKey, connections[c].accessKey} :
      \E i \in DOMAIN configured : configured[i] = k

\* In an org whose requests do not overlap, the stored refresh token is the newest
\* Microsoft has issued, unless the answer that carried the newest never came, or
\* the request that got it died or was rolled back.  Even then the next rotation
\* that does commit makes up for it, whatever was lost before.
RotatedTokenKept ==
  \A c \in Connections :
    /\ Exists(c) /\ OrgOf(c) \in Orderly
    /\ c \notin lost
    /\ \A q \in Requests : ~Serves(q, OrgOf(c))
    => connections[c].refresh = issued[c]
=============================================================================
