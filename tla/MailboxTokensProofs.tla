-------------------------- MODULE MailboxTokensProofs --------------------------
(* Theorems about MailboxTokens, for any number of orgs, processes, flows,     *)
(* mailboxes and keys.                                                         *)
EXTENDS MailboxTokens, FiniteSetTheorems, TLAPS

\* A refresh works on a row that is there: no route deletes connections.
RowsStay ==
  \A q \in Requests, c \in Connections :
    requests[q].step \in {"refresh", "save"} /\ requests[q].connection = c => Exists(c)

TInv == TypeOK /\ RowsStay

\* A flow is in the dictionary of one process only; one that is being exchanged or
\* has its mailbox is in none any more, and only in one of the two.
HeldByOne ==
  \A p \in Processes, f \in Flows : f \in oauthState[p] =>
    f \in started /\ \A r \in Processes : f \in oauthState[r] => r = p

Spent(f) == f \in started /\ \A p \in Processes : f \notin oauthState[p]

Exchanging(q, f) == requests[q].step = "exchange" /\ requests[q].flow = f
Connected(c, f) == Exists(c) /\ connections[c].flow = f

UsedOnce ==
  \A f \in Flows :
    /\ \A q \in Requests : Exchanging(q, f) => Spent(f)
    /\ \A c \in Connections : Connected(c, f) => Spent(f)
    /\ \A q, r \in Requests : Exchanging(q, f) /\ Exchanging(r, f) => q = r
    /\ \A q \in Requests, c \in Connections : ~(Exchanging(q, f) /\ Connected(c, f))

FInv == TInv /\ HeldByOne /\ UsedOnce /\ OneMailboxPerFlow

\* A key that some process still encrypts with is configured.
InList(s, k) == \E i \in DOMAIN s : s[i] = k

HeadsConfigured == \A p \in Processes : InList(configured, Head(keys[p]))

KInv == TInv /\ HeadsConfigured /\ TokensReadable

\* In an orderly org requests come one at a time, and no refresh token is issued
\* while another one waits to be stored.
OneAtATime ==
  \A o \in Orderly, q, r \in Requests : Serves(q, o) /\ Serves(r, o) => q = r

Waiting(o) ==
  {q \in Requests : requests[q] \in CallbackRequest /\ FlowOrg[requests[q].flow] = o}

\* The mailboxes an org has and those it has been promised fit into the plan that any
\* of its callbacks was checked against, up to the lanes that may overlap.
PlanCounted ==
  \A q \in Requests, o \in Orgs : q \in Waiting(o) =>
    /\ allowed[o] <= requests[q].widest
    /\ Cardinality(MailboxesOf(o)) + Cardinality(Waiting(o)) < requests[q].widest + Lanes(o)

Carries(q, c) ==
  requests[q].step = "save" /\ requests[q].token # 0 /\ requests[q].connection = c

NewestIsKept ==
  \A c \in Connections : Exists(c) /\ OrgOf(c) \in Orderly =>
    /\ \A q \in Requests : Carries(q, c) => requests[q].token = issued[c]
    /\ c \notin lost /\ (\A q \in Requests : ~Carries(q, c)) => connections[c].refresh = issued[c]

OInv == TInv /\ OneAtATime
IInv == OInv /\ PlanCounted /\ NewestIsKept

------------------------------------------------------------------------------
(* Rows, requests and key lists. *)

LEMMA NoRowIsNoRow == NoRow \notin Row
<1>1. \A r \in Row : DOMAIN r = {"status", "flow", "refresh", "refreshKey", "access", "accessKey"}
  BY DEF Row
<1>2. DOMAIN NoRow = {"status"}
  BY DEF NoRow
<1> QED
  BY <1>1, <1>2

LEMMA PrependToList ==
  ASSUME NEW S, NEW s \in Seq(S), NEW e \in S
  PROVE  /\ <<e>> \o s \in Seq(S)
         /\ <<e>> \o s # <<>>
         /\ \A k : InList(s, k) => InList(<<e>> \o s, k)
<1>1. <<e>> \o s \in Seq(S) /\ Len(<<e>> \o s) = Len(s) + 1
  OBVIOUS
<1>2. \A i \in DOMAIN s : i + 1 \in DOMAIN (<<e>> \o s) /\ (<<e>> \o s)[i + 1] = s[i]
  OBVIOUS
<1>3. Len(s) \in Nat /\ Len(<<>>) = 0
  OBVIOUS
<1>4. <<e>> \o s # <<>>
  BY <1>1, <1>3
<1>5. \A k : InList(s, k) => InList(<<e>> \o s, k)
  BY <1>2 DEF InList
<1> QED
  BY <1>1, <1>4, <1>5

LEMMA HeadInList ==
  ASSUME NEW S, NEW s \in Seq(S), s # <<>>
  PROVE  Head(s) \in S /\ InList(s, Head(s))
<1>1. 1 \in DOMAIN s /\ Head(s) = s[1] /\ s[1] \in S
  OBVIOUS
<1> QED
  BY <1>1 DEF InList

LEMMA EncryptionKeyType ==
  ASSUME TypeOK, NEW p \in Processes
  PROVE  EncryptionKey(p) \in KeyNumbers
<1>1. keys[p] \in Seq(KeyNumbers) /\ keys[p] # <<>>
  BY DEF TypeOK
<1> QED
  BY <1>1, HeadInList DEF EncryptionKey

LEMMA RefreshedIsRow ==
  ASSUME NEW row \in Row, NEW token \in Tokens \union {0}, NEW k \in KeyNumbers
  PROVE  /\ Refreshed(row, token, k) \in Row
         /\ Refreshed(row, token, k).flow = row.flow
         /\ Refreshed(row, token, k).refresh = IF token = 0 THEN row.refresh ELSE token
         /\ Refreshed(row, token, k).accessKey = k
         /\ Refreshed(row, token, k).refreshKey = IF token = 0 THEN row.refreshKey ELSE k
  BY DEF Refreshed, Row

\* What a request in each of its steps carries.
LEMMA RequestFields ==
  ASSUME TypeOK, NEW q \in Requests
  PROVE  /\ requests[q].step \in {"idle", "exchange", "refresh", "save"}
         /\ requests[q].step = "idle" <=> requests[q] = Idle
         /\ requests[q].step = "exchange" => requests[q] \in CallbackRequest
         /\ requests[q].step = "refresh" => requests[q] \in RefreshRequest
         /\ requests[q].step = "save" => requests[q] \in SaveRequest
  BY DEF TypeOK, Idle, CallbackRequest, RefreshRequest, SaveRequest

------------------------------------------------------------------------------
(* Types. *)

LEMMA TypeInit == Init => TInv
<1> SUFFICES ASSUME Init PROVE TInv
  OBVIOUS
<1>1. 1 \in KeyNumbers /\ 0 \in Tokens \union {0}
  BY LimitsAssumption DEF KeyNumbers, Tokens
<1>2. <<1>> \in Seq(KeyNumbers) /\ <<1>> # <<>>
  BY <1>1
<1>3. TypeOK
  BY <1>1, <1>2, PlansAssumption DEF Init, TypeOK
<1>4. RowsStay
  BY DEF Init, RowsStay, Idle
<1> QED
  BY <1>3, <1>4 DEF TInv

\* A step that keeps the rows that were there and the requests, or ends them, or
\* starts one on an existing row.
LEMMA RowsStayKept ==
  ASSUME TInv,
         \A c \in Connections : Exists(c) => Exists(c)',
         \A q \in Requests :
           \/ requests'[q] = requests[q]
           \/ requests'[q].step \in {"idle", "exchange"}
           \/ \A c \in Connections : requests'[q].connection = c => Exists(c)
  PROVE  RowsStay'
<1> SUFFICES ASSUME NEW q \in Requests, NEW c \in Connections,
                    requests'[q].step \in {"refresh", "save"},
                    requests'[q].connection = c
             PROVE  Exists(c)'
  BY DEF RowsStay
<1>1. Exists(c)
  BY DEF TInv, RowsStay
<1> QED
  BY <1>1

LEMMA StartTypes ==
  ASSUME TInv, NEW p \in Processes, NEW f \in Flows, Start(p, f)
  PROVE  TInv'
<1>1. /\ started' = started \union {f}
      /\ oauthState' = [oauthState EXCEPT ![p] = @ \union {f}]
      /\ UNCHANGED <<connections, issued, lost, settings, requests>>
  BY DEF Start
<1>2. TypeOK'
  BY <1>1 DEF TInv, TypeOK, settings, keyVars
<1>3. RowsStay'
  BY <1>1 DEF TInv, RowsStay, Exists
<1> QED
  BY <1>2, <1>3 DEF TInv

\* The request that a callback starts, and the flow it takes.
Exchange(p, f, n) == [step |-> "exchange", process |-> p, flow |-> f, widest |-> n]

LEMMA CallbackEffect ==
  ASSUME TypeOK, NEW q \in Requests, NEW p \in Processes, NEW f \in Flows,
         Callback(q, p, f)
  PROVE  /\ requests[q] = Idle /\ MayCall(FlowOrg[f]) /\ f \in started
         /\ \A r \in Requests \ {q} : requests'[r] = requests[r]
         /\ \/ UNCHANGED requests
            \/ /\ f \in OrgFlows /\ f \in oauthState[p] /\ UnderLimit(FlowOrg[f])
               /\ requests' = [requests EXCEPT ![q] = Exchange(p, f, allowed[FlowOrg[f]])]
         /\ oauthState' = [oauthState EXCEPT ![p] = @ \ {f}]
         /\ UNCHANGED <<started, connections, issued, lost, settings>>
<1>1. FlowOrg[f] # NoOrg => f \in OrgFlows
  BY FlowsAssumption DEF OrgFlows
<1> QED
  BY <1>1 DEF TypeOK, Callback, Pop, Exchange

LEMMA CallbackTypes ==
  ASSUME TInv, NEW q \in Requests, NEW p \in Processes, NEW f \in Flows,
         Callback(q, p, f)
  PROVE  TInv'
<1> USE DEF TInv
<1>1. f \in OrgFlows => Exchange(p, f, allowed[FlowOrg[f]]) \in CallbackRequest
  BY DEF CallbackRequest, Exchange, OrgFlows, TypeOK
<1>2. /\ \/ UNCHANGED requests
         \/ /\ f \in OrgFlows
            /\ requests' = [requests EXCEPT ![q] = Exchange(p, f, allowed[FlowOrg[f]])]
      /\ oauthState' = [oauthState EXCEPT ![p] = @ \ {f}]
      /\ UNCHANGED <<started, connections, issued, lost, settings>>
  BY CallbackEffect
<1>3. requests' \in [Requests -> {Idle} \union CallbackRequest \union RefreshRequest
                                        \union SaveRequest]
  BY <1>1, <1>2 DEF TypeOK
<1>4. TypeOK'
  BY <1>2, <1>3 DEF TypeOK, settings, keyVars
<1>5. \A r \in Requests :
        requests'[r] = requests[r] \/ requests'[r].step \in {"idle", "exchange"}
  BY <1>2 DEF TypeOK, Exchange
<1>6. RowsStay'
  BY <1>2, <1>5, RowsStayKept DEF Exists
<1> QED
  BY <1>4, <1>6

\* The row that a callback stores.
NewRow(f, k) ==
  [status |-> "connected", flow |-> f, refresh |-> 1, refreshKey |-> k,
   access |-> "valid", accessKey |-> k]

LEMMA CallbackCommitEffect ==
  ASSUME TypeOK, NEW q \in Requests, NEW c \in Connections, CallbackCommit(q, c)
  PROVE  /\ requests[q].step = "exchange"
         /\ requests[q].process \in Processes /\ requests[q].flow \in OrgFlows
         /\ ~Exists(c)
         /\ connections' = [connections EXCEPT ![c] =
              NewRow(requests[q].flow, EncryptionKey(requests[q].process))]
         /\ issued' = [issued EXCEPT ![c] = 1]
         /\ requests' = [requests EXCEPT ![q] = Idle]
         /\ UNCHANGED <<flowVars, lost, settings>>
<1>1. requests[q] \in CallbackRequest
  BY RequestFields DEF CallbackCommit
<1> QED
  BY <1>1 DEF CallbackCommit, CallbackRequest, NewRow

LEMMA NewRowIsRow ==
  ASSUME NEW f \in OrgFlows, NEW k \in KeyNumbers
  PROVE  NewRow(f, k) \in Row
<1>1. 1 \in Tokens
  BY LimitsAssumption DEF Tokens
<1> QED
  BY <1>1 DEF NewRow, Row

LEMMA CallbackCommitTypes ==
  ASSUME TInv, NEW q \in Requests, NEW c \in Connections, CallbackCommit(q, c)
  PROVE  TInv'
<1> USE DEF TInv
<1> DEFINE row == NewRow(requests[q].flow, EncryptionKey(requests[q].process))
<1>1. row \in Row
  BY CallbackCommitEffect, EncryptionKeyType, NewRowIsRow
<1>2. 1 \in Tokens
  BY LimitsAssumption DEF Tokens
<1>3. connections' = [connections EXCEPT ![c] = row]
  BY CallbackCommitEffect
<1>4. /\ issued' = [issued EXCEPT ![c] = 1]
      /\ requests' = [requests EXCEPT ![q] = Idle]
      /\ UNCHANGED <<flowVars, lost, settings>>
  BY CallbackCommitEffect
<1> HIDE DEF row
<1>5. TypeOK'
  BY <1>1, <1>2, <1>3, <1>4 DEF TypeOK, flowVars, settings, keyVars
<1>6. \A d \in Connections : Exists(d) => Exists(d)'
  BY <1>1, <1>3, NoRowIsNoRow DEF TypeOK, Exists
<1>7. \A r \in Requests : requests'[r] = requests[r] \/ requests'[r].step = "idle"
  BY <1>4 DEF TypeOK, Idle
<1>8. RowsStay'
  BY <1>6, <1>7, RowsStayKept
<1> QED
  BY <1>5, <1>8

\* A request that ends and changes no row.
LEMMA EndTypes ==
  ASSUME TInv, NEW q \in Requests,
         requests' = [requests EXCEPT ![q] = Idle],
         lost' \subseteq Connections,
         UNCHANGED <<flowVars, connections, issued, settings>>
  PROVE  TInv'
<1>1. TypeOK'
  BY DEF TInv, TypeOK, flowVars, settings, keyVars
<1>2. \A r \in Requests : requests'[r] = requests[r] \/ requests'[r].step = "idle"
  BY DEF TInv, TypeOK, Idle
<1>3. RowsStay'
  BY <1>2, RowsStayKept DEF Exists
<1> QED
  BY <1>1, <1>3 DEF TInv

LEMMA AccessExpiresTypes ==
  ASSUME TInv, NEW c \in Connections, AccessExpires(c)
  PROVE  TInv'
<1> USE DEF TInv
<1>1. connections[c] \in Row
  BY DEF AccessExpires, Exists, TypeOK
<1>2. [connections[c] EXCEPT !.access = "expired"] \in Row
  BY <1>1 DEF Row
<1>3. /\ connections' = [connections EXCEPT ![c] = [@ EXCEPT !.access = "expired"]]
      /\ UNCHANGED <<flowVars, issued, lost, settings, requests>>
  BY DEF AccessExpires
<1>4. TypeOK'
  BY <1>2, <1>3 DEF TypeOK, flowVars, settings, keyVars
<1>5. RowsStay'
  BY <1>2, <1>3, NoRowIsNoRow DEF TypeOK, RowsStay, Exists
<1> QED
  BY <1>4, <1>5

LEMMA RefreshReadTypes ==
  ASSUME TInv, NEW q \in Requests, NEW p \in Processes, NEW c \in Connections,
         RefreshRead(q, p, c)
  PROVE  TInv'
<1> USE DEF TInv
<1> DEFINE r == [step |-> "refresh", process |-> p, connection |-> c]
<1>1. r \in RefreshRequest /\ r.connection = c
  BY DEF RefreshRequest
<1>2. /\ requests' = [requests EXCEPT ![q] = r]
      /\ UNCHANGED <<flowVars, connections, issued, lost, settings>>
      /\ Exists(c)
  BY DEF RefreshRead
<1> HIDE DEF r
<1>3. TypeOK'
  BY <1>1, <1>2 DEF TypeOK, flowVars, settings, keyVars
<1>4. requests'[q] = r /\ \A x \in Requests \ {q} : requests'[x] = requests[x]
  BY <1>2 DEF TypeOK
<1>5. RowsStay'
  BY <1>1, <1>2, <1>4, RowsStayKept DEF Exists
<1> QED
  BY <1>3, <1>5

\* What a refresh request becomes when the provider has answered it.
Save(q, token) ==
  [step |-> "save", process |-> requests[q].process,
   connection |-> requests[q].connection, token |-> token]

LEMMA ProviderAnswersEffect ==
  ASSUME TInv, NEW q \in Requests, ProviderAnswers(q)
  PROVE  \E c \in Connections, token \in Tokens \union {0} :
           /\ requests[q].step = "refresh" /\ requests[q].connection = c
           /\ Exists(c)
           /\ token # 0 => token = issued[c] + 1
           /\ issued' = IF token = 0 THEN issued ELSE [issued EXCEPT ![c] = token]
           /\ requests' = [requests EXCEPT ![q] = Save(q, token)]
           /\ Save(q, token) \in SaveRequest
           /\ UNCHANGED <<flowVars, connections, lost, settings>>
<1>1. requests[q].step = "refresh" /\ requests[q] \in RefreshRequest
  BY RequestFields DEF ProviderAnswers, TInv
<1>2. requests[q].connection \in Connections /\ requests[q].process \in Processes
  BY <1>1 DEF RefreshRequest
<1> PICK c \in Connections : c = requests[q].connection
  BY <1>2
<1>3. Exists(c)
  BY <1>1 DEF TInv, RowsStay
<1>4. PICK token \in Tokens \union {0} :
        /\ token # 0 => token = issued[c] + 1
        /\ issued' = IF token = 0 THEN issued ELSE [issued EXCEPT ![c] = token]
        /\ requests' = [requests EXCEPT ![q] = Save(q, token)]
  BY DEF ProviderAnswers, Save
<1>5. Save(q, token) \in SaveRequest
  BY <1>2 DEF Save, SaveRequest
<1>6. UNCHANGED <<flowVars, connections, lost, settings>>
  BY DEF ProviderAnswers
<1> QED
  BY <1>1, <1>3, <1>4, <1>5, <1>6

LEMMA ProviderAnswersTypes ==
  ASSUME TInv, NEW q \in Requests, ProviderAnswers(q)
  PROVE  TInv'
<1> USE DEF TInv
<1> PICK c \in Connections, token \in Tokens \union {0} :
      /\ requests[q].step = "refresh" /\ requests[q].connection = c
      /\ Exists(c)
      /\ token # 0 => token = issued[c] + 1
      /\ issued' = IF token = 0 THEN issued ELSE [issued EXCEPT ![c] = token]
      /\ requests' = [requests EXCEPT ![q] = Save(q, token)]
      /\ Save(q, token) \in SaveRequest
      /\ UNCHANGED <<flowVars, connections, lost, settings>>
  BY ProviderAnswersEffect
<1>1. TypeOK'
  BY DEF TypeOK, flowVars, settings, keyVars
<1>2. Save(q, token).connection = c
  BY DEF Save
<1>3. \A r \in Requests :
        \/ requests'[r] = requests[r]
        \/ requests'[r].connection = c
  BY <1>2 DEF TypeOK
<1>4. RowsStay'
  BY <1>3, RowsStayKept DEF Exists
<1> QED
  BY <1>1, <1>4

\* The row, the token and the key of a refresh that commits.
LEMMA RefreshCommitEffect ==
  ASSUME TInv, NEW q \in Requests, RefreshCommit(q)
  PROVE  \E c \in Connections, p \in Processes, token \in Tokens \union {0} :
           /\ requests[q].step = "save" /\ requests[q].connection = c
           /\ requests[q].process = p /\ requests[q].token = token
           /\ connections[c] \in Row
           /\ connections' = [connections EXCEPT ![c] =
                                Refreshed(connections[c], token, EncryptionKey(p))]
           /\ Refreshed(connections[c], token, EncryptionKey(p)) \in Row
           /\ requests' = [requests EXCEPT ![q] = Idle]
           /\ lost' = IF token # 0 /\ token = issued[c] THEN lost \ {c} ELSE lost
           /\ UNCHANGED <<flowVars, issued, settings>>
<1>1. requests[q].step = "save" /\ requests[q] \in SaveRequest
  BY RequestFields DEF RefreshCommit, TInv
<1>2. PICK c \in Connections, p \in Processes, token \in Tokens \union {0} :
        /\ c = requests[q].connection /\ p = requests[q].process
        /\ token = requests[q].token
  BY <1>1 DEF SaveRequest
<1>3. connections[c] \in Row
  BY <1>1, <1>2 DEF TInv, TypeOK, RowsStay, Exists
<1>4. Refreshed(connections[c], token, EncryptionKey(p)) \in Row
  BY <1>3, RefreshedIsRow, EncryptionKeyType DEF TInv
<1>5. /\ connections' = [connections EXCEPT ![c] =
                           Refreshed(connections[c], token, EncryptionKey(p))]
      /\ requests' = [requests EXCEPT ![q] = Idle]
      /\ lost' = IF token # 0 /\ token = issued[c] THEN lost \ {c} ELSE lost
      /\ UNCHANGED <<flowVars, issued, settings>>
  BY <1>1, <1>2 DEF RefreshCommit, HoldsNewest
<1> QED
  BY <1>1, <1>2, <1>3, <1>4, <1>5

LEMMA RefreshCommitTypes ==
  ASSUME TInv, NEW q \in Requests, RefreshCommit(q)
  PROVE  TInv'
<1> USE DEF TInv
<1> PICK c \in Connections, row \in Row :
      /\ connections' = [connections EXCEPT ![c] = row]
      /\ requests' = [requests EXCEPT ![q] = Idle]
      /\ lost' \subseteq lost
      /\ UNCHANGED <<flowVars, issued, settings>>
  BY RefreshCommitEffect
<1>1. TypeOK'
  BY DEF TypeOK, flowVars, settings, keyVars
<1>2. \A d \in Connections : Exists(d) => Exists(d)'
  BY NoRowIsNoRow DEF TypeOK, Exists
<1>3. \A r \in Requests : requests'[r] = requests[r] \/ requests'[r].step = "idle"
  BY DEF TypeOK, Idle
<1>4. RowsStay'
  BY <1>2, <1>3, RowsStayKept
<1> QED
  BY <1>1, <1>4

LEMMA RefreshRolledBackTypes ==
  ASSUME TInv, NEW q \in Requests, RefreshRolledBack(q)
  PROVE  TInv'
<1>1. lost' \subseteq Connections
  BY DEF RefreshRolledBack, TInv, TypeOK
<1>2. /\ requests' = [requests EXCEPT ![q] = Idle]
      /\ UNCHANGED <<flowVars, connections, issued, settings>>
  BY DEF RefreshRolledBack
<1> QED
  BY <1>1, <1>2, EndTypes

LEMMA RefreshUnansweredEffect ==
  ASSUME TInv, NEW q \in Requests, RefreshUnanswered(q)
  PROVE  \E c \in Connections :
           /\ requests[q].step = "refresh" /\ requests[q].connection = c
           /\ Exists(c)
           /\ issued[c] + 1 \in Tokens
           /\ issued' = [issued EXCEPT ![c] = @ + 1]
           /\ lost' = lost \union {c}
           /\ requests' = [requests EXCEPT ![q] = Idle]
           /\ UNCHANGED <<flowVars, connections, settings>>
<1>1. requests[q].step = "refresh" /\ requests[q] \in RefreshRequest
  BY RequestFields DEF RefreshUnanswered, TInv
<1>2. PICK c \in Connections : c = requests[q].connection
  BY <1>1 DEF RefreshRequest
<1>3. Exists(c)
  BY <1>1, <1>2 DEF TInv, RowsStay
<1>4. issued[c] \in Tokens \union {0} /\ issued[c] < MaxIssued
  BY <1>2 DEF RefreshUnanswered, TInv, TypeOK
<1>5. issued[c] + 1 \in Tokens
  BY <1>4, LimitsAssumption DEF Tokens
<1> QED
  BY <1>1, <1>2, <1>3, <1>5 DEF RefreshUnanswered

LEMMA RefreshUnansweredTypes ==
  ASSUME TInv, NEW q \in Requests, RefreshUnanswered(q)
  PROVE  TInv'
<1> PICK c \in Connections :
      /\ issued[c] + 1 \in Tokens
      /\ issued' = [issued EXCEPT ![c] = @ + 1]
      /\ lost' = lost \union {c}
      /\ requests' = [requests EXCEPT ![q] = Idle]
      /\ UNCHANGED <<flowVars, connections, settings>>
  BY RefreshUnansweredEffect
<1>1. TypeOK'
  BY DEF TInv, TypeOK, flowVars, settings, keyVars
<1>2. \A r \in Requests : requests'[r] = requests[r] \/ requests'[r].step = "idle"
  BY DEF TInv, TypeOK, Idle
<1>3. RowsStay'
  BY <1>2, RowsStayKept DEF Exists
<1> QED
  BY <1>1, <1>3 DEF TInv

\* Rotations change the key lists only.
LEMMA PrependKeyEffect ==
  ASSUME TypeOK, PrependKey
  PROVE  /\ configured' \in Seq(KeyNumbers) /\ configured' # <<>>
         /\ \A k : InList(configured, k) => InList(configured', k)
         /\ UNCHANGED <<flowVars, connections, issued, lost, allowed, keys, requests>>
<1>1. configured \in Seq(KeyNumbers) /\ Head(configured) \in KeyNumbers
  BY HeadInList DEF TypeOK
<1>2. Head(configured) + 1 \in KeyNumbers
  BY <1>1, LimitsAssumption DEF PrependKey, KeyNumbers
<1>3. configured' = <<Head(configured) + 1>> \o configured
  BY DEF PrependKey
<1>4. UNCHANGED <<flowVars, connections, issued, lost, allowed, keys, requests>>
  BY DEF PrependKey
<1> QED
  BY <1>1, <1>2, <1>3, <1>4, PrependToList

LEMMA DropRetiredKeysEffect ==
  ASSUME TypeOK, DropRetiredKeys
  PROVE  /\ configured' \in Seq(KeyNumbers) /\ configured' # <<>>
         /\ InList(configured', Head(configured))
         /\ UNCHANGED <<flowVars, connections, issued, lost, allowed, keys, requests>>
<1>1. Head(configured) \in KeyNumbers
  BY HeadInList DEF TypeOK
<1>2. configured' = <<Head(configured)>>
  BY DEF DropRetiredKeys
<1>3. configured' \in Seq(KeyNumbers) /\ configured' # <<>>
      /\ Head(configured') = Head(configured)
  BY <1>1, <1>2
<1>4. InList(configured', Head(configured'))
  BY <1>3, HeadInList
<1>5. UNCHANGED <<flowVars, connections, issued, lost, allowed, keys, requests>>
  BY DEF DropRetiredKeys
<1> QED
  BY <1>3, <1>4, <1>5

LEMMA KeysTypes ==
  ASSUME TInv, PrependKey \/ DropRetiredKeys
  PROVE  TInv'
<1>1. /\ configured' \in Seq(KeyNumbers) /\ configured' # <<>>
      /\ UNCHANGED <<flowVars, connections, issued, lost, allowed, keys, requests>>
  BY PrependKeyEffect, DropRetiredKeysEffect DEF TInv
<1>2. TypeOK'
  BY <1>1 DEF TInv, TypeOK, flowVars
<1>3. RowsStay'
  BY <1>1 DEF TInv, RowsStay, Exists
<1> QED
  BY <1>2, <1>3 DEF TInv

LEMMA RestartTypes ==
  ASSUME TInv, NEW p \in Processes, Restart(p)
  PROVE  TInv'
<1> USE DEF TInv
<1>1. /\ oauthState' = [oauthState EXCEPT ![p] = {}]
      /\ keys' = [keys EXCEPT ![p] = configured]
      /\ UNCHANGED <<started, connections, issued, allowed, configured>>
  BY DEF Restart
<1>2. lost' \subseteq Connections
  BY DEF Restart, TypeOK
<1>3. requests' \in [Requests -> {Idle} \union CallbackRequest \union RefreshRequest
                                        \union SaveRequest]
  BY DEF Restart, TypeOK
<1>4. \A r \in Requests : requests'[r] = requests[r] \/ requests'[r] = Idle
  BY DEF Restart
<1>5. TypeOK'
  BY <1>1, <1>2, <1>3 DEF TypeOK
<1>6. RowsStay'
  BY <1>1, <1>4, RowsStayKept DEF Exists, Idle
<1> QED
  BY <1>5, <1>6

\* A change of plan touches the callbacks of the org, and only what they note of it.
LEMMA ChangePlanEffect ==
  ASSUME TInv, NEW o \in Orgs, NEW n \in PlanMailboxes, ChangePlan(o, n), NEW q \in Requests
  PROVE  \/ requests'[q] = requests[q] /\ (q \in Waiting(o) => requests[q].widest >= n)
         \/ /\ q \in Waiting(o) /\ n > requests[q].widest
            /\ requests'[q] \in CallbackRequest
            /\ requests'[q].flow = requests[q].flow
            /\ requests'[q].step = "exchange" /\ requests[q].step = "exchange"
            /\ requests'[q].widest = n
<1>1. requests'[q] = Widen(requests[q], o, n)
  BY DEF ChangePlan
<1>2. n \in Nat /\ \A job \in CallbackRequest : job.widest \in Nat /\ job.step = "exchange"
  BY PlansAssumption DEF CallbackRequest
<1>3. \A job \in CallbackRequest :
        /\ [job EXCEPT !.widest = n] \in CallbackRequest
        /\ [job EXCEPT !.widest = n].flow = job.flow
        /\ [job EXCEPT !.widest = n].widest = n
  BY DEF CallbackRequest
<1>4. CASE q \in Waiting(o) /\ requests[q].widest < n
  <2>1. requests[q] \in CallbackRequest /\ FlowOrg[requests[q].flow] = o
    BY <1>4 DEF Waiting
  <2>2. requests'[q] = [requests[q] EXCEPT !.widest = n]
    BY <1>1, <1>4, <2>1 DEF Widen
  <2> QED
    BY <1>2, <1>3, <1>4, <2>1, <2>2
<1>5. CASE ~(q \in Waiting(o) /\ requests[q].widest < n)
  <2>1. requests'[q] = requests[q]
    BY <1>1, <1>5 DEF Widen, Waiting
  <2>2. q \in Waiting(o) => requests[q].widest \in Nat
    BY <1>2 DEF Waiting
  <2> QED
    BY <1>2, <1>5, <2>1, <2>2
<1> QED
  BY <1>4, <1>5

LEMMA ChangePlanTypes ==
  ASSUME TInv, NEW o \in Orgs, NEW n \in PlanMailboxes, ChangePlan(o, n)
  PROVE  TInv'
<1>1. /\ allowed' = [allowed EXCEPT ![o] = n]
      /\ requests' = [q \in Requests |-> Widen(requests[q], o, n)]
      /\ UNCHANGED <<flowVars, connections, issued, lost, keyVars>>
  BY DEF ChangePlan
<1>2. \A q \in Requests : requests'[q] = requests[q] \/ requests'[q] \in CallbackRequest
  BY ChangePlanEffect
<1>3. requests' \in [Requests -> {Idle} \union CallbackRequest \union RefreshRequest
                                        \union SaveRequest]
  BY <1>1, <1>2 DEF TInv, TypeOK
<1>4. TypeOK'
  BY <1>1, <1>3 DEF TInv, TypeOK, flowVars, keyVars
<1>5. \A q \in Requests :
        requests'[q] = requests[q] \/ requests'[q].step \in {"idle", "exchange"}
  BY ChangePlanEffect
<1>6. RowsStay'
  BY <1>1, <1>5, RowsStayKept DEF Exists
<1> QED
  BY <1>4, <1>6 DEF TInv

LEMMA TypeNext == TInv /\ [Next]_vars => TInv'
<1> SUFFICES ASSUME TInv, [Next]_vars PROVE TInv'
  OBVIOUS
<1>1. ASSUME NEW p \in Processes, NEW f \in Flows, Start(p, f) PROVE TInv'
  BY <1>1, StartTypes
<1>2. ASSUME NEW q \in Requests, NEW p \in Processes, NEW f \in Flows, Callback(q, p, f)
      PROVE  TInv'
  BY <1>2, CallbackTypes
<1>3. ASSUME NEW q \in Requests, NEW c \in Connections, CallbackCommit(q, c) PROVE TInv'
  BY <1>3, CallbackCommitTypes
<1>4. ASSUME NEW q \in Requests, CallbackFails(q) \/ RefreshFails(q) PROVE TInv'
  <2>1. /\ requests' = [requests EXCEPT ![q] = Idle]
        /\ UNCHANGED <<flowVars, connections, issued, lost, settings>>
    BY <1>4 DEF CallbackFails, RefreshFails
  <2> QED
    BY <2>1, EndTypes DEF TInv, TypeOK
<1>5. ASSUME NEW c \in Connections, AccessExpires(c) PROVE TInv'
  BY <1>5, AccessExpiresTypes
<1>6. ASSUME NEW q \in Requests, NEW p \in Processes, NEW c \in Connections,
             RefreshRead(q, p, c)
      PROVE  TInv'
  BY <1>6, RefreshReadTypes
<1>7. ASSUME NEW q \in Requests, ProviderAnswers(q) PROVE TInv'
  BY <1>7, ProviderAnswersTypes
<1>8. ASSUME NEW q \in Requests, RefreshCommit(q) PROVE TInv'
  BY <1>8, RefreshCommitTypes
<1>9. ASSUME NEW q \in Requests, RefreshRolledBack(q) PROVE TInv'
  BY <1>9, RefreshRolledBackTypes
<1>10. ASSUME NEW p \in Processes, Restart(p) PROVE TInv'
  BY <1>10, RestartTypes
<1>11. ASSUME NEW q \in Requests, RefreshUnanswered(q) PROVE TInv'
  BY <1>11, RefreshUnansweredTypes
<1>12. ASSUME NEW o \in Subscribers, NEW n \in PlanMailboxes, ChangePlan(o, n) PROVE TInv'
  BY <1>12, ChangePlanTypes, LimitsAssumption
<1>13. CASE UNCHANGED vars
  BY <1>13 DEF TInv, TypeOK, RowsStay, Exists, vars, flowVars, settings, keyVars
<1> QED
  BY <1>1, <1>2, <1>3, <1>4, <1>5, <1>6, <1>7, <1>8, <1>9, <1>10, <1>11, <1>12, <1>13, KeysTypes
     DEF Next

\* The variables keep their types, and a refresh works on a row that is there.
THEOREM TypeCorrect == Spec => [](TypeOK /\ RowsStay)
<1>1. TypeOK /\ RowsStay <=> TInv
  BY DEF TInv
<1> QED
  BY <1>1, TypeInit, TypeNext, PTL DEF Spec

------------------------------------------------------------------------------
(* OAuth flows. *)

LEMMA OneMailboxAsConnected ==
  ASSUME TypeOK, OneMailboxPerFlow
  PROVE  \A f \in Flows, c, d \in Connections : Connected(c, f) /\ Connected(d, f) => c = d
  BY DEF OneMailboxPerFlow, Connected

LEMMA FlowsInit == Init => FInv
<1> SUFFICES ASSUME Init PROVE FInv
  OBVIOUS
<1>1. \A q \in Requests : requests[q].step = "idle"
  BY DEF Init, Idle
<1>2. \A c \in Connections : ~Exists(c)
  BY DEF Init, Exists
<1>3. HeldByOne
  BY DEF Init, HeldByOne
<1>4. UsedOnce /\ OneMailboxPerFlow
  BY <1>1, <1>2 DEF UsedOnce, Exchanging, Connected, OneMailboxPerFlow
<1> QED
  BY <1>3, <1>4, TypeInit DEF FInv

\* What starts no exchange, connects no mailbox and leaves the dictionaries alone.
LEMMA FlowsUntouched ==
  ASSUME FInv, TInv', UNCHANGED flowVars,
         \A q \in Requests, f \in Flows : Exchanging(q, f)' => Exchanging(q, f),
         \A c \in Connections, f \in Flows : Connected(c, f)' => Connected(c, f)
  PROVE  FInv'
<1>1. HeldByOne'
  BY DEF FInv, HeldByOne, flowVars
<1>2. UsedOnce'
  BY DEF FInv, UsedOnce, Spent, flowVars
<1>3. \A f \in Flows, c, d \in Connections : Connected(c, f) /\ Connected(d, f) => c = d
  BY OneMailboxAsConnected DEF FInv, TInv
<1>4. (\A f \in Flows, c, d \in Connections : Connected(c, f) /\ Connected(d, f) => c = d)'
  BY <1>3
<1>5. \A c \in Connections : Exists(c)' => connections'[c].flow \in Flows
  BY DEF TInv, TypeOK, Exists, Row, OrgFlows
<1>6. OneMailboxPerFlow'
  <2> SUFFICES ASSUME NEW c \in Connections, NEW d \in Connections,
                      Exists(c)', Exists(d)', connections'[c].flow = connections'[d].flow
               PROVE  c = d
    BY DEF OneMailboxPerFlow
  <2> PICK f \in Flows : f = connections'[c].flow
    BY <1>5
  <2>1. Connected(c, f)' /\ Connected(d, f)'
    BY DEF Connected
  <2> QED
    BY <1>4, <2>1
<1> QED
  BY <1>1, <1>2, <1>6 DEF FInv

LEMMA StartFlows ==
  ASSUME FInv, TInv', NEW p \in Processes, NEW f \in Flows, Start(p, f)
  PROVE  FInv'
<1>1. /\ f \notin started /\ started' = started \union {f}
      /\ oauthState' = [oauthState EXCEPT ![p] = @ \union {f}]
  BY DEF Start
<1>2. UNCHANGED <<connections, requests>>
  BY DEF Start
<1>3. \A r \in Processes, g \in Flows :
        g \in oauthState'[r] <=> g \in oauthState[r] \/ (r = p /\ g = f)
  BY <1>1 DEF FInv, TInv, TypeOK
<1>4. HeldByOne'
  BY <1>1, <1>3 DEF FInv, HeldByOne
<1>5. \A g \in Flows : Spent(g) => Spent(g)'
  BY <1>1, <1>3 DEF Spent
<1>6. UsedOnce'
  BY <1>2, <1>5 DEF FInv, UsedOnce, Exchanging, Connected, Exists
<1>7. OneMailboxPerFlow'
  BY <1>2 DEF FInv, OneMailboxPerFlow, Exists
<1> QED
  BY <1>4, <1>6, <1>7 DEF FInv

LEMMA CallbackFlows ==
  ASSUME FInv, TInv', NEW q \in Requests, NEW p \in Processes, NEW f \in Flows,
         Callback(q, p, f)
  PROVE  FInv'
<1>1. /\ oauthState' = [oauthState EXCEPT ![p] = @ \ {f}]
      /\ UNCHANGED <<started, connections>>
      /\ requests[q] = Idle
      /\ \/ UNCHANGED requests
         \/ /\ f \in oauthState[p]
            /\ requests' = [requests EXCEPT ![q] = Exchange(p, f, allowed[FlowOrg[f]])]
  BY CallbackEffect DEF FInv, TInv
<1>2. \A r \in Processes, g \in Flows :
        g \in oauthState'[r] <=> g \in oauthState[r] /\ ~(r = p /\ g = f)
  BY <1>1 DEF FInv, TInv, TypeOK
<1>3. HeldByOne'
  BY <1>1, <1>2 DEF FInv, HeldByOne
<1>4. OneMailboxPerFlow'
  BY <1>1 DEF FInv, OneMailboxPerFlow, Exists
<1>5. \A g \in Flows : Spent(g) => Spent(g)'
  BY <1>1, <1>2 DEF Spent
<1>6. CASE UNCHANGED requests
  <2>1. UsedOnce'
    BY <1>1, <1>5, <1>6 DEF FInv, UsedOnce, Exchanging, Connected, Exists
  <2> QED
    BY <1>3, <1>4, <2>1 DEF FInv
<1>7. CASE /\ f \in oauthState[p]
           /\ requests' = [requests EXCEPT ![q] = Exchange(p, f, allowed[FlowOrg[f]])]
  <2>1. ~Spent(f) /\ Spent(f)'
    BY <1>1, <1>2, <1>7 DEF FInv, HeldByOne, Spent
  <2>2. (\A r \in Requests : ~Exchanging(r, f)) /\ (\A c \in Connections : ~Connected(c, f))
    BY <2>1 DEF FInv, UsedOnce
  <2>3. \A r \in Requests, g \in Flows :
          (Exchanging(r, g))' <=> IF r = q THEN g = f ELSE Exchanging(r, g)
    BY <1>7 DEF FInv, TInv, TypeOK, Exchanging, Exchange
  <2>4. \A c \in Connections, g \in Flows : (Connected(c, g))' <=> Connected(c, g)
    BY <1>1 DEF Connected, Exists
  <2>5. UsedOnce'
    BY <1>5, <2>1, <2>2, <2>3, <2>4 DEF FInv, UsedOnce
  <2> QED
    BY <1>3, <1>4, <2>5 DEF FInv
<1> QED
  BY <1>1, <1>6, <1>7

LEMMA CallbackCommitFlows ==
  ASSUME FInv, TInv', NEW q \in Requests, NEW c \in Connections, CallbackCommit(q, c)
  PROVE  FInv'
<1> PICK f \in OrgFlows, k \in KeyNumbers :
      /\ requests[q].step = "exchange" /\ requests[q].flow = f
      /\ ~Exists(c)
      /\ connections' = [connections EXCEPT ![c] = NewRow(f, k)]
      /\ requests' = [requests EXCEPT ![q] = Idle]
      /\ UNCHANGED flowVars
  BY CallbackCommitEffect, EncryptionKeyType DEF FInv, TInv
<1>1. NewRow(f, k).flow = f /\ NewRow(f, k) # NoRow
  BY NewRowIsRow, NoRowIsNoRow DEF NewRow
<1>2. \A d \in Connections, g \in Flows :
        (Connected(d, g))' <=> IF d = c THEN g = f ELSE Connected(d, g)
  BY <1>1 DEF FInv, TInv, TypeOK, Connected, Exists
<1>3. Exchanging(q, f)
  BY DEF Exchanging
<1>4. \A r \in Requests, g \in Flows :
        (Exchanging(r, g))' <=> r # q /\ Exchanging(r, g)
  BY DEF FInv, TInv, TypeOK, Exchanging, Idle
<1>5. \A r \in Requests : ~(Exchanging(r, f))'
  BY <1>3, <1>4 DEF FInv, UsedOnce, OrgFlows
<1>6. \A d \in Connections : ~Connected(d, f)
  BY <1>3 DEF FInv, UsedOnce, OrgFlows
<1>7. Spent(f) /\ \A g \in Flows : Spent(g)' <=> Spent(g)
  BY <1>3 DEF FInv, UsedOnce, Spent, flowVars, OrgFlows
<1>8. UsedOnce'
  BY <1>2, <1>4, <1>5, <1>7 DEF FInv, UsedOnce
<1>9. HeldByOne'
  BY DEF FInv, HeldByOne, flowVars
<1>10. \A g \in Flows, d, e \in Connections : Connected(d, g) /\ Connected(e, g) => d = e
  BY OneMailboxAsConnected DEF FInv, TInv
<1>11. (\A g \in Flows, d, e \in Connections : Connected(d, g) /\ Connected(e, g) => d = e)'
  BY <1>2, <1>6, <1>10
<1>12. \A d \in Connections : Exists(d)' => connections'[d].flow \in Flows
  BY DEF TInv, TypeOK, Exists, Row, OrgFlows
<1>13. OneMailboxPerFlow'
  BY <1>11, <1>12 DEF OneMailboxPerFlow, Connected, Exists
<1> QED
  BY <1>8, <1>9, <1>13 DEF FInv

LEMMA RestartFlows ==
  ASSUME FInv, TInv', NEW p \in Processes, Restart(p)
  PROVE  FInv'
<1>1. /\ oauthState' = [oauthState EXCEPT ![p] = {}]
      /\ UNCHANGED <<started, connections>>
  BY DEF Restart
<1>2. \A q \in Requests : requests'[q] = requests[q] \/ requests'[q] = Idle
  BY DEF Restart
<1>3. \A r \in Processes : oauthState'[r] \subseteq oauthState[r]
  BY <1>1 DEF FInv, TInv, TypeOK
<1>4. HeldByOne'
  BY <1>1, <1>3 DEF FInv, HeldByOne
<1>5. OneMailboxPerFlow'
  BY <1>1 DEF FInv, OneMailboxPerFlow, Exists
<1>6. \A f \in Flows : Spent(f) => Spent(f)'
  BY <1>1, <1>3 DEF Spent
<1>7. \A q \in Requests, f \in Flows : (Exchanging(q, f))' => Exchanging(q, f)
  BY <1>2 DEF Exchanging, Idle
<1>8. \A c \in Connections, f \in Flows : (Connected(c, f))' <=> Connected(c, f)
  BY <1>1 DEF Connected, Exists
<1>9. UsedOnce'
  BY <1>6, <1>7, <1>8 DEF FInv, UsedOnce
<1> QED
  BY <1>4, <1>5, <1>9 DEF FInv

LEMMA FlowsNext == FInv /\ [Next]_vars => FInv'
<1> SUFFICES ASSUME FInv, [Next]_vars PROVE FInv'
  OBVIOUS
<1>1. TInv'
  BY TypeNext DEF FInv
<1>2. ASSUME NEW p \in Processes, NEW f \in Flows, Start(p, f) PROVE FInv'
  BY <1>1, <1>2, StartFlows
<1>3. ASSUME NEW q \in Requests, NEW p \in Processes, NEW f \in Flows, Callback(q, p, f)
      PROVE  FInv'
  BY <1>1, <1>3, CallbackFlows
<1>4. ASSUME NEW q \in Requests, NEW c \in Connections, CallbackCommit(q, c) PROVE FInv'
  BY <1>1, <1>4, CallbackCommitFlows
<1>5. ASSUME NEW p \in Processes, Restart(p) PROVE FInv'
  BY <1>1, <1>5, RestartFlows
\* The other steps end requests or start refreshes, and keep the flow of a row.
<1>6. ASSUME NEW q \in Requests,
             \/ CallbackFails(q) \/ RefreshFails(q) \/ RefreshRolledBack(q) \/ RefreshUnanswered(q)
             \/ \E p \in Processes, c \in Connections : RefreshRead(q, p, c)
      PROVE  FInv'
  <2>1. UNCHANGED flowVars /\ UNCHANGED connections
    BY <1>6 DEF CallbackFails, RefreshFails, RefreshRolledBack, RefreshUnanswered, RefreshRead
  <2>2. \A r \in Requests : requests'[r] = requests[r] \/ requests'[r].step # "exchange"
    BY <1>6 DEF FInv, TInv, TypeOK, Idle, CallbackFails, RefreshFails,
                RefreshRolledBack, RefreshUnanswered, RefreshRead
  <2> QED
    BY <1>1, <2>1, <2>2, FlowsUntouched DEF Exchanging, Connected, Exists
<1>7. ASSUME NEW c \in Connections, AccessExpires(c) PROVE FInv'
  <2>1. UNCHANGED flowVars /\ UNCHANGED requests
    BY <1>7 DEF AccessExpires
  <2>2. \A d \in Connections, f \in Flows : (Connected(d, f))' => Connected(d, f)
    BY <1>7 DEF AccessExpires, FInv, TInv, TypeOK, Connected, Exists, Row
  <2> QED
    BY <1>1, <2>1, <2>2, FlowsUntouched DEF Exchanging
<1>8. ASSUME NEW q \in Requests, ProviderAnswers(q) PROVE FInv'
  <2>1. UNCHANGED flowVars /\ UNCHANGED connections
    BY <1>8 DEF ProviderAnswers
  <2>2. \A r \in Requests : requests'[r] = requests[r] \/ requests'[r].step = "save"
    BY <1>8 DEF FInv, TInv, TypeOK, ProviderAnswers
  <2> QED
    BY <1>1, <2>1, <2>2, FlowsUntouched DEF Exchanging, Connected, Exists
<1>9. ASSUME NEW q \in Requests, RefreshCommit(q) PROVE FInv'
  <2>1. PICK c \in Connections, row \in Row :
          /\ Exists(c) /\ row.flow = connections[c].flow
          /\ connections' = [connections EXCEPT ![c] = row]
          /\ requests' = [requests EXCEPT ![q] = Idle]
          /\ UNCHANGED flowVars
    BY <1>9, RefreshCommitEffect, RefreshedIsRow, EncryptionKeyType, NoRowIsNoRow
       DEF FInv, TInv, Exists
  <2>2. \A r \in Requests : requests'[r] = requests[r] \/ requests'[r].step = "idle"
    BY <2>1 DEF FInv, TInv, TypeOK, Idle
  <2>3. \A d \in Connections, f \in Flows : (Connected(d, f))' => Connected(d, f)
    BY <2>1 DEF FInv, TInv, TypeOK, Connected, Exists
  <2> QED
    BY <1>1, <2>1, <2>2, <2>3, FlowsUntouched DEF Exchanging
<1>10. CASE PrependKey \/ DropRetiredKeys
  <2>1. UNCHANGED flowVars /\ UNCHANGED <<connections, requests>>
    BY <1>10 DEF PrependKey, DropRetiredKeys
  <2> QED
    BY <1>1, <2>1, FlowsUntouched DEF Exchanging, Connected, Exists
<1>11. CASE UNCHANGED vars
  <2>1. UNCHANGED flowVars /\ UNCHANGED <<connections, requests>>
    BY <1>11 DEF vars
  <2> QED
    BY <1>1, <2>1, FlowsUntouched DEF Exchanging, Connected, Exists
<1>12. ASSUME NEW o \in Subscribers, NEW n \in PlanMailboxes, ChangePlan(o, n) PROVE FInv'
  <2>1. UNCHANGED flowVars /\ UNCHANGED connections
    BY <1>12 DEF ChangePlan
  <2>2. \A r \in Requests, f \in Flows : (Exchanging(r, f))' => Exchanging(r, f)
    BY <1>12, ChangePlanEffect, LimitsAssumption DEF FInv, Exchanging
  <2> QED
    BY <1>1, <2>1, <2>2, FlowsUntouched DEF Connected, Exists
<1> QED
  BY <1>2, <1>3, <1>4, <1>5, <1>6, <1>7, <1>8, <1>9, <1>10, <1>11, <1>12 DEF Next

\* A flow connects one mailbox at most, however often and wherever the browser
\* comes back with its state (gmail_oauth_callback, outlook_oauth_callback).
THEOREM OneMailbox == Spec => []OneMailboxPerFlow
<1>1. FInv => OneMailboxPerFlow
  BY DEF FInv
<1> QED
  BY <1>1, FlowsInit, FlowsNext, PTL DEF Spec

------------------------------------------------------------------------------
(* Keys. *)

LEMMA ReadableAsInList ==
  TokensReadable <=>
    \A c \in Connections : Exists(c) =>
      /\ InList(configured, connections[c].refreshKey)
      /\ InList(configured, connections[c].accessKey)
  BY DEF TokensReadable, InList

LEMMA KeysInit == Init => KInv
<1> SUFFICES ASSUME Init PROVE KInv
  OBVIOUS
<1>1. \A p \in Processes : Head(keys[p]) = 1
  BY DEF Init
<1>2. InList(configured, 1)
  BY DEF Init, InList
<1>3. TokensReadable
  BY DEF Init, TokensReadable, Exists
<1> QED
  BY <1>1, <1>2, <1>3, TypeInit DEF KInv, HeadsConfigured

\* With the lists as they are, a row has the keys it had or the one some process
\* encrypts with.
LEMMA KeysUsed ==
  ASSUME KInv, TInv', UNCHANGED keyVars,
         \A c \in Connections : Exists(c)' =>
           /\ \/ Exists(c) /\ connections'[c].refreshKey = connections[c].refreshKey
              \/ \E p \in Processes : connections'[c].refreshKey = EncryptionKey(p)
           /\ \/ Exists(c) /\ connections'[c].accessKey = connections[c].accessKey
              \/ \E p \in Processes : connections'[c].accessKey = EncryptionKey(p)
  PROVE  KInv'
<1>1. \A p \in Processes : InList(configured, EncryptionKey(p))
  BY DEF KInv, HeadsConfigured, EncryptionKey
<1>2. \A c \in Connections : Exists(c) =>
        /\ InList(configured, connections[c].refreshKey)
        /\ InList(configured, connections[c].accessKey)
  BY ReadableAsInList DEF KInv
<1>3. \A c \in Connections : Exists(c)' =>
        /\ InList(configured, connections'[c].refreshKey)
        /\ InList(configured, connections'[c].accessKey)
  BY <1>1, <1>2
<1>4. UNCHANGED configured /\ UNCHANGED keys
  BY DEF keyVars
<1>5. TokensReadable'
  BY <1>3, <1>4 DEF TokensReadable, InList
<1>6. HeadsConfigured'
  BY <1>4 DEF KInv, HeadsConfigured, InList
<1> QED
  BY <1>5, <1>6 DEF KInv

LEMMA PrependKeyKeys ==
  ASSUME KInv, TInv', PrependKey
  PROVE  KInv'
<1>1. \A k : InList(configured, k) => InList(configured', k)
  BY PrependKeyEffect DEF KInv, TInv
<1>2. UNCHANGED <<connections, keys>>
  BY DEF PrependKey
<1>3. HeadsConfigured'
  BY <1>1, <1>2 DEF KInv, HeadsConfigured, InList
<1>4. TokensReadable'
  BY <1>1, <1>2 DEF KInv, TokensReadable, InList, Exists
<1> QED
  BY <1>3, <1>4 DEF KInv

\* When the retired keys go, every process has the new list and every row its key.
LEMMA DropRetiredKeysKeys ==
  ASSUME KInv, TInv', DropRetiredKeys
  PROVE  KInv'
<1>1. InList(configured', Head(configured))
  BY DropRetiredKeysEffect DEF KInv, TInv
<1>2. /\ \A p \in Processes : keys[p] = configured
      /\ \A c \in Connections : Exists(c) =>
           /\ connections[c].refreshKey = Head(configured)
           /\ connections[c].accessKey = Head(configured)
      /\ UNCHANGED <<connections, keys>>
  BY DEF DropRetiredKeys
<1>3. HeadsConfigured'
  BY <1>1, <1>2 DEF HeadsConfigured, InList
<1>4. TokensReadable'
  BY <1>1, <1>2 DEF TokensReadable, InList, Exists
<1> QED
  BY <1>3, <1>4 DEF KInv

LEMMA RestartKeys ==
  ASSUME KInv, TInv', NEW p \in Processes, Restart(p)
  PROVE  KInv'
<1>1. keys' = [keys EXCEPT ![p] = configured] /\ UNCHANGED <<connections, configured>>
  BY DEF Restart
<1>2. InList(configured, Head(configured))
  BY HeadInList DEF KInv, TInv, TypeOK
<1>3. \A r \in Processes : keys'[r] = keys[r] \/ keys'[r] = configured
  BY <1>1 DEF KInv, TInv, TypeOK
<1>4. HeadsConfigured'
  BY <1>1, <1>2, <1>3 DEF KInv, HeadsConfigured, InList
<1>5. TokensReadable'
  BY <1>1 DEF KInv, TokensReadable, Exists
<1> QED
  BY <1>4, <1>5 DEF KInv

LEMMA KeysNext == KInv /\ [Next]_vars => KInv'
<1> SUFFICES ASSUME KInv, [Next]_vars PROVE KInv'
  OBVIOUS
<1>1. TInv'
  BY TypeNext DEF KInv
<1>2. ASSUME NEW q \in Requests, NEW c \in Connections, CallbackCommit(q, c) PROVE KInv'
  <2>1. PICK f \in OrgFlows, p \in Processes :
          /\ connections' = [connections EXCEPT ![c] = NewRow(f, EncryptionKey(p))]
          /\ UNCHANGED keyVars
    BY <1>2, CallbackCommitEffect DEF KInv, TInv, settings
  <2>2. /\ NewRow(f, EncryptionKey(p)).refreshKey = EncryptionKey(p)
        /\ NewRow(f, EncryptionKey(p)).accessKey = EncryptionKey(p)
    BY DEF NewRow
  <2> QED
    BY <1>1, <2>1, <2>2, KeysUsed DEF KInv, TInv, TypeOK, Exists
<1>3. ASSUME NEW q \in Requests, RefreshCommit(q) PROVE KInv'
  <2>1. PICK c \in Connections, p \in Processes, token \in Tokens \union {0} :
          /\ connections[c] \in Row
          /\ connections' = [connections EXCEPT ![c] =
                               Refreshed(connections[c], token, EncryptionKey(p))]
          /\ UNCHANGED keyVars
    BY <1>3, RefreshCommitEffect DEF KInv, settings
  <2> PICK row \in Row : row = Refreshed(connections[c], token, EncryptionKey(p))
    BY <2>1, RefreshedIsRow, EncryptionKeyType DEF KInv, TInv
  <2>2. /\ row.accessKey = EncryptionKey(p)
        /\ \/ row.refreshKey = connections[c].refreshKey
           \/ row.refreshKey = EncryptionKey(p)
    BY <2>1, RefreshedIsRow, EncryptionKeyType DEF KInv, TInv
  <2>3. Exists(c)
    BY <2>1, NoRowIsNoRow DEF Exists
  <2> QED
    BY <1>1, <2>1, <2>2, <2>3, KeysUsed DEF KInv, TInv, TypeOK, Exists
<1>4. ASSUME NEW c \in Connections, AccessExpires(c) PROVE KInv'
  <2>1. Exists(c) /\ UNCHANGED keyVars
    BY <1>4 DEF AccessExpires, settings
  <2>2. \A d \in Connections : Exists(d)' =>
          /\ Exists(d)
          /\ connections'[d].refreshKey = connections[d].refreshKey
          /\ connections'[d].accessKey = connections[d].accessKey
    BY <1>4 DEF AccessExpires, KInv, TInv, TypeOK, Exists, Row
  <2> QED
    BY <1>1, <2>1, <2>2, KeysUsed
<1>5. ASSUME NEW p \in Processes, Restart(p) PROVE KInv'
  BY <1>1, <1>5, RestartKeys
<1>6. CASE UNCHANGED keyVars /\ UNCHANGED connections
  BY <1>1, <1>6, KeysUsed DEF Exists
<1>7. ASSUME NEW p \in Processes, NEW f \in Flows, Start(p, f)
      PROVE  UNCHANGED keyVars /\ UNCHANGED connections
  BY <1>7 DEF Start, settings
<1>8. ASSUME NEW q \in Requests,
             \/ CallbackFails(q) \/ ProviderAnswers(q) \/ RefreshFails(q)
             \/ RefreshUnanswered(q) \/ RefreshRolledBack(q)
             \/ \E p \in Processes, f \in Flows : Callback(q, p, f)
             \/ \E p \in Processes, c \in Connections : RefreshRead(q, p, c)
      PROVE  UNCHANGED keyVars /\ UNCHANGED connections
  BY <1>8 DEF CallbackFails, ProviderAnswers, RefreshFails, RefreshUnanswered,
              RefreshRolledBack, Callback, RefreshRead, settings
<1>9. CASE UNCHANGED vars
  <2>1. UNCHANGED keyVars /\ UNCHANGED connections
    BY <1>9 DEF vars, settings
  <2> QED
    BY <1>6, <2>1
<1>10. ASSUME NEW o \in Subscribers, NEW n \in PlanMailboxes, ChangePlan(o, n)
       PROVE  UNCHANGED keyVars /\ UNCHANGED connections
  BY <1>10 DEF ChangePlan
<1> QED
  BY <1>1, <1>2, <1>3, <1>4, <1>5, <1>6, <1>7, <1>8, <1>9, <1>10, PrependKeyKeys,
     DropRetiredKeysKeys DEF Next

\* No stored token is lost to a key rotation, provided that retired keys are dropped
\* as services/secrets.py says: a process that starts now can decrypt every one.
THEOREM TokensCanBeRead == Spec => []TokensReadable
<1>1. KInv => TokensReadable
  BY DEF KInv
<1> QED
  BY <1>1, KeysInit, KeysNext, PTL DEF Spec

------------------------------------------------------------------------------
(* Requests that come one after the other. *)

Refreshing(q, c) ==
  requests[q].step \in {"refresh", "save"} /\ requests[q].connection = c

\* An org is served by the exchanges of its flows and the refreshes of its rows.
ServesByStep ==
  \A q \in Requests, o \in Orgs :
    Serves(q, o) <=>
      \/ \E f \in Flows : Exchanging(q, f) /\ FlowOrg[f] = o
      \/ \E c \in Connections : Refreshing(q, c) /\ OrgOf(c) = o

LEMMA ServesCases == TInv => ServesByStep
<1> SUFFICES ASSUME TInv, NEW q \in Requests, NEW o \in Orgs
             PROVE  Serves(q, o) <=>
                      \/ \E f \in Flows : Exchanging(q, f) /\ FlowOrg[f] = o
                      \/ \E c \in Connections : Refreshing(q, c) /\ OrgOf(c) = o
  BY DEF ServesByStep
<1> USE DEF Serves, Exchanging, Refreshing
<1>1. CASE requests[q].step = "idle"
  BY <1>1, RequestFields DEF TInv
<1>2. CASE requests[q].step = "exchange"
  <2>1. requests[q] # Idle /\ requests[q].flow \in Flows
    BY <1>2, RequestFields DEF TInv, CallbackRequest, OrgFlows, Idle
  <2> QED
    BY <1>2, <2>1
<1>3. CASE requests[q].step \in {"refresh", "save"}
  <2>1. requests[q] # Idle /\ requests[q].connection \in Connections
    BY <1>3, RequestFields DEF TInv, RefreshRequest, SaveRequest, Idle
  <2> QED
    BY <1>3, <2>1
<1> QED
  BY <1>1, <1>2, <1>3, RequestFields DEF TInv

LEMMA OrderlyOrgs == Orderly \subseteq Orgs
  BY FlowsAssumption

\* No row changes its org, and a request r serves after the step no org but the one
\* it served before.
RowsKeepOrg == \A c \in Connections : Exists(c) => OrgOf(c)' = OrgOf(c)
Onward(r) ==
  /\ \A f \in Flows : (Exchanging(r, f))' => Exchanging(r, f)
  /\ \A c \in Connections : (Refreshing(r, c))' => Refreshing(r, c)

LEMMA ServesOnward ==
  ASSUME TInv, TInv', RowsKeepOrg, NEW r \in Requests, Onward(r), NEW o \in Orgs,
         Serves(r, o)'
  PROVE  Serves(r, o)
<1>1. ServesByStep /\ ServesByStep'
  BY ServesCases, PTL
<1>2. \/ \E f \in Flows : (Exchanging(r, f))' /\ FlowOrg[f] = o
      \/ \E c \in Connections : (Refreshing(r, c))' /\ OrgOf(c)' = o
  BY <1>1 DEF ServesByStep
<1>3. \A c \in Connections : Refreshing(r, c) => Exists(c)
  BY DEF TInv, RowsStay, Refreshing
<1>4. \/ \E f \in Flows : Exchanging(r, f) /\ FlowOrg[f] = o
      \/ \E c \in Connections : Refreshing(r, c) /\ OrgOf(c) = o
  BY <1>2, <1>3 DEF Onward, RowsKeepOrg
<1> QED
  BY <1>1, <1>4 DEF ServesByStep

LEMMA TurnsKept ==
  ASSUME OInv, TInv', RowsKeepOrg, \A r \in Requests : Onward(r)
  PROVE  OInv'
<1>1. \A r \in Requests, o \in Orderly : Serves(r, o)' => Serves(r, o)
  BY ServesOnward, OrderlyOrgs DEF OInv
<1>2. OneAtATime'
  BY <1>1 DEF OInv, OneAtATime
<1> QED
  BY <1>2 DEF OInv

\* A request that starts where nobody is served.
LEMMA TurnTaken ==
  ASSUME OInv, TInv', RowsKeepOrg, NEW q \in Requests, NEW o \in Orgs, MayCall(o),
         \A r \in Requests \ {q} : Onward(r),
         \A u \in Orgs : Serves(q, u)' => u = o
  PROVE  OInv'
<1>1. \A r \in Requests \ {q}, u \in Orderly : Serves(r, u)' => Serves(r, u)
  BY ServesOnward, OrderlyOrgs DEF OInv
<1>2. \A u \in Orderly : Serves(q, u)' => \A r \in Requests : ~Serves(r, u)
  BY OrderlyOrgs DEF MayCall
<1>3. OneAtATime'
  BY <1>1, <1>2 DEF OInv, OneAtATime
<1> QED
  BY <1>3 DEF OInv

LEMMA RequestOnward ==
  ASSUME NEW r \in Requests, requests'[r] = requests[r] \/ requests'[r] = Idle
  PROVE  Onward(r)
  BY DEF Onward, Exchanging, Refreshing, Idle

LEMMA OneRefresh ==
  ASSUME OInv, NEW c \in Connections, OrgOf(c) \in Orderly,
         NEW q \in Requests, NEW r \in Requests, Refreshing(q, c), Refreshing(r, c)
  PROVE  q = r
<1>1. Serves(q, OrgOf(c)) /\ Serves(r, OrgOf(c))
  BY ServesCases, OrderlyOrgs DEF OInv, ServesByStep
<1> QED
  BY <1>1 DEF OInv, OneAtATime

LEMMA CarriesIsRefreshing ==
  ASSUME NEW q \in Requests, NEW c \in Connections, Carries(q, c)
  PROVE  Refreshing(q, c)
  BY DEF Carries, Refreshing

LEMMA CountsFinite ==
  ASSUME NEW o
  PROVE  /\ IsFiniteSet(MailboxesOf(o)) /\ Cardinality(MailboxesOf(o)) \in Nat
         /\ IsFiniteSet(Waiting(o)) /\ Cardinality(Waiting(o)) \in Nat
<1>1. IsFiniteSet(MailboxesOf(o)) /\ IsFiniteSet(Waiting(o))
  BY LimitsAssumption, FS_Subset DEF MailboxesOf, Waiting
<1> QED
  BY <1>1, FS_CardinalityType

LEMMA LanesType ==
  ASSUME NEW o
  PROVE  Lanes(o) \in Nat
  BY LimitsAssumption, FS_CardinalityType DEF Lanes

\* The callbacks of an org that are under way fill its lanes at most.
LanesFilled == \A o \in Orgs : Cardinality(Waiting(o)) <= Lanes(o)

LEMMA LanesSuffice == OInv => LanesFilled
<1> SUFFICES ASSUME OInv, NEW o \in Orgs PROVE Cardinality(Waiting(o)) <= Lanes(o)
  BY DEF LanesFilled
<1>1. /\ IsFiniteSet(Waiting(o)) /\ Cardinality(Waiting(o)) \in Nat
      /\ Cardinality(Requests) \in Nat /\ Cardinality(Waiting(o)) <= Cardinality(Requests)
  BY LimitsAssumption, FS_Subset, FS_CardinalityType DEF Waiting
<1>2. ASSUME o \in Orderly PROVE Cardinality(Waiting(o)) <= 1
  <2>1. ASSUME NEW q \in Waiting(o), NEW r \in Waiting(o) PROVE q = r
    <3>1. Serves(q, o) /\ Serves(r, o)
      BY DEF Waiting, Serves, CallbackRequest, Idle
    <3> QED
      BY <1>2, <3>1 DEF OInv, OneAtATime, Waiting
  <2>2. CASE Waiting(o) = {}
    BY <2>2, FS_EmptySet
  <2>3. ASSUME NEW q \in Waiting(o) PROVE Cardinality(Waiting(o)) = 1
    <3>1. Waiting(o) = {q}
      BY <2>1
    <3> QED
      BY <3>1, FS_Singleton
  <2> QED
    BY <2>2, <2>3
<1> QED
  BY <1>1, <1>2 DEF Lanes

LEMMA TurnsInit == Init => IInv
<1> SUFFICES ASSUME Init PROVE IInv
  OBVIOUS
<1>1. \A q \in Requests : requests[q] = Idle /\ requests[q].step = "idle"
  BY DEF Init, Idle
<1>2. \A c \in Connections : ~Exists(c)
  BY DEF Init, Exists
<1>3. OneAtATime
  BY <1>1 DEF OneAtATime, Serves
<1>4. NewestIsKept
  BY <1>2 DEF NewestIsKept
<1>5. \A job \in CallbackRequest : job.step = "exchange"
  BY DEF CallbackRequest
<1>6. PlanCounted
  BY <1>1, <1>5 DEF PlanCounted, Waiting
<1> QED
  BY <1>3, <1>4, <1>6, TypeInit DEF IInv, OInv

\* A step that adds no mailbox, starts no request and rotates no token, or one whose
\* answer is lost; the newest token, if an ended request carries it, is lost.
QuietRows ==
  \A c \in Connections :
    /\ Exists(c)' <=> Exists(c)
    /\ Exists(c) => /\ connections'[c].flow = connections[c].flow
                    /\ connections'[c].refresh = connections[c].refresh

QuietRequests ==
  \A r \in Requests :
    \/ requests'[r] = requests[r]
    \/ requests'[r] = Idle /\ \A c \in Connections : HoldsNewest(r, c) => c \in lost'

QuietTokens ==
  \A c \in Connections :
    \/ issued'[c] = issued[c]
    \/ c \in lost' /\ \E q \in Requests : Refreshing(q, c) /\ ~Carries(q, c)

Quiet ==
  QuietRows /\ QuietRequests /\ QuietTokens /\ UNCHANGED allowed /\ lost \subseteq lost'

\* The mailboxes of an org are the same ones.
MailboxesStay == \A o \in Orgs : MailboxesOf(o)' = MailboxesOf(o)

LEMMA PlansStay ==
  ASSUME IInv, MailboxesStay, UNCHANGED allowed,
         \A r \in Requests :
           requests'[r] \in CallbackRequest => requests'[r] = requests[r]
  PROVE  PlanCounted'
<1> SUFFICES ASSUME NEW q \in Requests, NEW o \in Orgs, q \in Waiting(o)'
             PROVE  /\ allowed'[o] <= requests'[q].widest
                    /\ Cardinality(MailboxesOf(o)') + Cardinality(Waiting(o)')
                         < requests'[q].widest + Lanes(o)
  BY DEF PlanCounted
<1>1. requests'[q] = requests[q] /\ q \in Waiting(o) /\ Waiting(o)' \subseteq Waiting(o)
  BY DEF Waiting
<1> PICK w : w = requests[q].widest
  OBVIOUS
<1>2. w \in Nat
  BY <1>1, PlansAssumption DEF Waiting, CallbackRequest
<1>3. /\ Cardinality(Waiting(o)') \in Nat
      /\ Cardinality(Waiting(o)') <= Cardinality(Waiting(o))
  BY <1>1, CountsFinite, FS_Subset, FS_CardinalityType
<1>4. Cardinality(MailboxesOf(o)) \in Nat /\ Cardinality(Waiting(o)) \in Nat /\ Lanes(o) \in Nat
  BY CountsFinite, LanesType
<1>5. /\ allowed[o] <= w
      /\ Cardinality(MailboxesOf(o)) + Cardinality(Waiting(o)) < w + Lanes(o)
  BY <1>1 DEF IInv, PlanCounted
<1>6. Cardinality(MailboxesOf(o)) + Cardinality(Waiting(o)') < w + Lanes(o)
  BY <1>2, <1>3, <1>4, <1>5
<1> QED
  BY <1>1, <1>5, <1>6 DEF MailboxesStay

LEMMA NoCallback ==
  ASSUME NEW job, job.step # "exchange"
  PROVE  job \notin CallbackRequest
  BY DEF CallbackRequest

LEMMA RowsKept ==
  ASSUME \A c \in Connections :
           /\ Exists(c)' <=> Exists(c)
           /\ Exists(c) => connections'[c].flow = connections[c].flow
  PROVE  RowsKeepOrg /\ MailboxesStay
  BY DEF RowsKeepOrg, MailboxesStay, MailboxesOf, OrgOf

LEMMA QuietTurns ==
  ASSUME IInv, TInv', Quiet
  PROVE  IInv'
<1>1. RowsKeepOrg /\ MailboxesStay
  BY RowsKept DEF Quiet, QuietRows
<1>2. \A r \in Requests : Onward(r)
  BY RequestOnward DEF Quiet, QuietRequests
<1>3. OInv'
  BY <1>1, <1>2, TurnsKept DEF IInv
<1>4. PlanCounted'
  <2>1. Idle \notin CallbackRequest
    BY NoCallback DEF Idle
  <2> QED
    BY <1>1, <2>1, PlansStay DEF Quiet, QuietRequests
<1>5. NewestIsKept'
  <2> SUFFICES ASSUME NEW c \in Connections, Exists(c)', OrgOf(c)' \in Orderly
               PROVE  /\ \A q \in Requests : Carries(q, c)' => requests'[q].token = issued'[c]
                      /\ c \notin lost' /\ (\A q \in Requests : ~Carries(q, c)')
                           => connections'[c].refresh = issued'[c]
    BY DEF NewestIsKept
  <2>1. /\ Exists(c) /\ OrgOf(c) \in Orderly
        /\ connections'[c].refresh = connections[c].refresh
        /\ c \notin lost' => c \notin lost
    BY <1>1 DEF Quiet, QuietRows, RowsKeepOrg
  <2>2. ASSUME NEW q \in Requests, (Carries(q, c))'
        PROVE  Carries(q, c) /\ requests'[q] = requests[q]
    BY <2>2 DEF Quiet, QuietRequests, Carries, Idle
  <2>3. ASSUME NEW q \in Requests, Carries(q, c), c \notin lost'
        PROVE  (Carries(q, c))'
    <3>1. HoldsNewest(q, c)
      BY <2>1, <2>3 DEF IInv, NewestIsKept, Carries, HoldsNewest
    <3> QED
      BY <2>3, <3>1 DEF Quiet, QuietRequests, Carries
  <2>4. CASE issued'[c] = issued[c]
    BY <2>1, <2>2, <2>3, <2>4 DEF IInv, NewestIsKept
  <2>5. CASE issued'[c] # issued[c]
    <3>1. PICK q \in Requests : Refreshing(q, c) /\ ~Carries(q, c)
      BY <2>5 DEF Quiet, QuietTokens
    <3>2. \A r \in Requests : ~(Carries(r, c))'
      BY <2>1, <2>2, <3>1, CarriesIsRefreshing, OneRefresh DEF IInv
    <3> QED
      BY <2>5, <3>2 DEF Quiet, QuietTokens
  <2> QED
    BY <2>4, <2>5
<1> QED
  BY <1>3, <1>4, <1>5 DEF IInv

\* What starts a request, with no row or token changed.
LEMMA NewestStays ==
  ASSUME IInv, UNCHANGED <<connections, issued, lost>>, NEW q \in Requests,
         \A r \in Requests \ {q} : requests'[r] = requests[r],
         requests[q].step # "save", requests'[q].step # "save" \/ requests'[q].token = 0
  PROVE  NewestIsKept'
<1>1. \A r \in Requests, c \in Connections :
        /\ (Carries(r, c))' <=> Carries(r, c)
        /\ Carries(r, c) => requests'[r] = requests[r]
  BY DEF Carries
<1>2. \A c \in Connections : (Exists(c)' <=> Exists(c)) /\ OrgOf(c)' = OrgOf(c)
  BY DEF Exists, OrgOf
<1> QED
  BY <1>1, <1>2 DEF IInv, NewestIsKept

\* A callback that goes on has found the org under its limit: there is room for each
\* of those that are still under way.
LEMMA CallbackTurns ==
  ASSUME IInv, TInv', NEW q \in Requests, NEW p \in Processes, NEW f \in Flows,
         Callback(q, p, f)
  PROVE  IInv'
<1>1. /\ requests[q] = Idle /\ MayCall(FlowOrg[f])
      /\ UNCHANGED <<connections, issued, lost, allowed>>
      /\ \/ UNCHANGED requests
         \/ /\ f \in OrgFlows /\ UnderLimit(FlowOrg[f])
            /\ requests' = [requests EXCEPT ![q] = Exchange(p, f, allowed[FlowOrg[f]])]
  BY CallbackEffect DEF IInv, OInv, TInv, settings
<1>2. CASE UNCHANGED requests
  <2>1. Quiet
    BY <1>1, <1>2 DEF Quiet, QuietRows, QuietRequests, QuietTokens, Exists
  <2> QED
    BY <2>1, QuietTurns
<1>3. CASE /\ f \in OrgFlows /\ UnderLimit(FlowOrg[f])
           /\ requests' = [requests EXCEPT ![q] = Exchange(p, f, allowed[FlowOrg[f]])]
  <2> PICK o \in Orgs : o = FlowOrg[f]
    BY <1>3 DEF OrgFlows
  <2>1. /\ requests'[q] = Exchange(p, f, allowed[o])
        /\ \A r \in Requests \ {q} : requests'[r] = requests[r]
    BY <1>3 DEF IInv, OInv, TInv, TypeOK
  <2>2. RowsKeepOrg /\ MailboxesStay
    BY <1>1, RowsKept DEF Exists
  <2>3. \A r \in Requests \ {q} : Onward(r)
    BY <2>1, RequestOnward
  <2>4. /\ \A g \in Flows : (Exchanging(q, g))' => g = f
        /\ \A c \in Connections : ~(Refreshing(q, c))'
        /\ requests[q].step # "save" /\ requests'[q].step # "save"
    BY <1>1, <2>1 DEF Exchanging, Refreshing, Exchange, Idle
  <2>5. ServesByStep'
    BY ServesCases, PTL
  <2>6. \A u \in Orgs : Serves(q, u)' => u = o
    BY <2>4, <2>5 DEF ServesByStep
  <2>7. OInv'
    BY <1>1, <2>2, <2>3, <2>6, TurnTaken DEF IInv
  <2>8. NewestIsKept'
    BY <1>1, <2>1, <2>4, NewestStays
  <2>9. PlanCounted'
    <3> SUFFICES ASSUME NEW r \in Requests, NEW u \in Orgs, r \in Waiting(u)'
                 PROVE  /\ allowed'[u] <= requests'[r].widest
                        /\ Cardinality(MailboxesOf(u)') + Cardinality(Waiting(u)')
                             < requests'[r].widest + Lanes(u)
      BY DEF PlanCounted
    <3>1. MailboxesOf(u)' = MailboxesOf(u) /\ allowed' = allowed
      BY <1>1, <2>2 DEF MailboxesStay
    <3> PICK w : w = requests'[r].widest
      OBVIOUS
    <3>2. /\ Cardinality(MailboxesOf(u)) \in Nat /\ Cardinality(Waiting(u)) \in Nat
          /\ Lanes(u) \in Nat /\ w \in Nat /\ allowed[u] \in Nat
      BY CountsFinite, LanesType, PlansAssumption
         DEF IInv, OInv, TInv, TypeOK, Waiting, CallbackRequest
    <3>3. LanesFilled'
      BY <2>7, LanesSuffice, PTL
    <3>4. Cardinality(Waiting(u)') \in Nat /\ Cardinality(Waiting(u)') <= Lanes(u)
      BY <3>3, LimitsAssumption, FS_Subset, FS_CardinalityType DEF LanesFilled, Waiting
    <3>5. CASE u = o
      <4>1. Cardinality(MailboxesOf(u)) < allowed[u]
        BY <1>3, <3>5 DEF UnderLimit
      <4>2. allowed[u] <= w
        <5>1. CASE r = q
          BY <2>1, <3>2, <3>5, <5>1 DEF Exchange
        <5>2. CASE r # q
          <6>1. r \in Waiting(u) /\ requests'[r] = requests[r]
            BY <2>1, <5>2 DEF Waiting
          <6> QED
            BY <6>1 DEF IInv, PlanCounted
        <5> QED
          BY <5>1, <5>2
      <4> QED
        BY <3>1, <3>2, <3>4, <4>1, <4>2
    <3>6. CASE u # o
      <4>1. requests'[q].flow = f
        BY <2>1 DEF Exchange
      <4>2. r # q /\ Waiting(u)' = Waiting(u)
        BY <1>1, <2>1, <2>4, <3>6, <4>1, NoCallback DEF Waiting, Idle
      <4> QED
        BY <2>1, <3>1, <4>2 DEF IInv, PlanCounted
    <3> QED
      BY <3>5, <3>6
  <2> QED
    BY <2>7, <2>8, <2>9 DEF IInv
<1> QED
  BY <1>1, <1>2, <1>3

LEMMA RefreshReadTurns ==
  ASSUME IInv, TInv', NEW q \in Requests, NEW p \in Processes, NEW c \in Connections,
         RefreshRead(q, p, c)
  PROVE  IInv'
<1>1. /\ requests[q] = Idle /\ MayCall(OrgOf(c)) /\ Exists(c)
      /\ UNCHANGED <<connections, issued, lost, allowed>>
  BY DEF RefreshRead, settings
<1>2. /\ \A r \in Requests \ {q} : requests'[r] = requests[r]
      /\ requests'[q] = [step |-> "refresh", process |-> p, connection |-> c]
  BY DEF RefreshRead, IInv, OInv, TInv, TypeOK
<1>3. RowsKeepOrg /\ MailboxesStay
  BY <1>1, RowsKept DEF Exists
<1>4. \A r \in Requests \ {q} : Onward(r)
  BY <1>2, RequestOnward
<1>5. /\ \A g \in Flows : ~(Exchanging(q, g))'
      /\ \A d \in Connections : (Refreshing(q, d))' => d = c
  BY <1>2 DEF Exchanging, Refreshing
<1>6. ServesByStep'
  BY ServesCases, PTL
<1>7. OrgOf(c)' = OrgOf(c)
  BY <1>1, <1>3 DEF RowsKeepOrg
<1>8. \A o \in Orgs : Serves(q, o)' => o = OrgOf(c)
  BY <1>5, <1>6, <1>7 DEF ServesByStep
<1>9. OrgOf(c) \in Orgs
  BY <1>1 DEF IInv, OInv, TInv, TypeOK, OrgOf, Exists, Row, OrgFlows
<1>10. OInv'
  BY <1>1, <1>3, <1>4, <1>8, <1>9, TurnTaken DEF IInv
<1>11. PlanCounted'
  <2>1. requests'[q] \notin CallbackRequest
    BY <1>2, NoCallback
  <2> QED
    BY <1>1, <1>2, <1>3, <2>1, PlansStay
<1>12. requests[q].step # "save" /\ requests'[q].step # "save"
  BY <1>1, <1>2 DEF Idle
<1>13. NewestIsKept'
  BY <1>1, <1>2, <1>12, NewestStays
<1> QED
  BY <1>10, <1>11, <1>13 DEF IInv

\* A commit turns one callback under way into one mailbox.
LEMMA CallbackCommitTurns ==
  ASSUME IInv, TInv', NEW q \in Requests, NEW c \in Connections, CallbackCommit(q, c)
  PROVE  IInv'
<1> PICK f \in OrgFlows, k \in KeyNumbers :
      /\ requests[q].step = "exchange" /\ requests[q].flow = f
      /\ ~Exists(c)
      /\ connections' = [connections EXCEPT ![c] = NewRow(f, k)]
      /\ issued' = [issued EXCEPT ![c] = 1]
      /\ requests' = [requests EXCEPT ![q] = Idle]
      /\ UNCHANGED <<lost, allowed>>
  BY CallbackCommitEffect, EncryptionKeyType DEF IInv, OInv, TInv, settings
<1>1. NewRow(f, k).flow = f /\ NewRow(f, k).refresh = 1 /\ NewRow(f, k) # NoRow
  BY NewRowIsRow, NoRowIsNoRow DEF NewRow
<1>2. /\ connections'[c] = NewRow(f, k) /\ issued'[c] = 1
      /\ \A d \in Connections \ {c} : connections'[d] = connections[d] /\ issued'[d] = issued[d]
      /\ \A r \in Requests \ {q} : requests'[r] = requests[r]
      /\ requests'[q] = Idle
  BY DEF IInv, OInv, TInv, TypeOK
<1>3. RowsKeepOrg
  BY <1>2 DEF RowsKeepOrg, OrgOf, Exists
<1>4. \A r \in Requests : Onward(r)
  BY <1>2, RequestOnward
<1>5. OInv'
  BY <1>3, <1>4, TurnsKept DEF IInv
<1>6. \A o \in Orgs : MailboxesOf(o)' = IF o = FlowOrg[f] THEN MailboxesOf(o) \union {c}
                                         ELSE MailboxesOf(o)
  <2>1. \A d \in Connections \ {c} : (Exists(d)' <=> Exists(d)) /\ OrgOf(d)' = OrgOf(d)
    BY <1>2 DEF Exists, OrgOf
  <2>2. Exists(c)' /\ OrgOf(c)' = FlowOrg[f]
    BY <1>1, <1>2 DEF Exists, OrgOf
  <2> QED
    BY <2>1, <2>2 DEF MailboxesOf
<1>7. q \in Waiting(FlowOrg[f]) /\ FlowOrg[f] \in Orgs
  BY RequestFields DEF IInv, OInv, TInv, Waiting, OrgFlows
<1>8. /\ \A o \in Orgs : Waiting(o)' = Waiting(o) \ {q}
      /\ \A o \in Orgs : o # FlowOrg[f] => Waiting(o)' = Waiting(o)
  BY <1>2, NoCallback DEF Waiting, Idle
<1>9. PlanCounted'
  <2> SUFFICES ASSUME NEW r \in Requests, NEW o \in Orgs, r \in Waiting(o)'
               PROVE  /\ allowed'[o] <= requests'[r].widest
                      /\ Cardinality(MailboxesOf(o)') + Cardinality(Waiting(o)')
                           < requests'[r].widest + Lanes(o)
    BY DEF PlanCounted
  <2>1. r # q /\ r \in Waiting(o) /\ requests'[r] = requests[r] /\ allowed' = allowed
    BY <1>2, <1>8
  <2>2. CASE o # FlowOrg[f]
    BY <1>6, <1>8, <2>1, <2>2 DEF IInv, PlanCounted
  <2>3. CASE o = FlowOrg[f]
    <3>1. Cardinality(MailboxesOf(o)') = Cardinality(MailboxesOf(o)) + 1
      <4>1. MailboxesOf(o)' = MailboxesOf(o) \union {c} /\ c \notin MailboxesOf(o)
        BY <1>6, <2>3 DEF MailboxesOf
      <4> QED
        BY <4>1, CountsFinite, FS_AddElement
    <3>2. Cardinality(Waiting(o)') = Cardinality(Waiting(o)) - 1
      BY <1>7, <1>8, <2>3, CountsFinite, FS_RemoveElement
    <3>3. Cardinality(MailboxesOf(o)) \in Nat /\ Cardinality(Waiting(o)) \in Nat
      BY CountsFinite
    <3>4. /\ allowed[o] <= requests[r].widest
          /\ Cardinality(MailboxesOf(o)) + Cardinality(Waiting(o)) < requests[r].widest + Lanes(o)
      BY <2>1 DEF IInv, PlanCounted
    <3>5. Cardinality(MailboxesOf(o)') + Cardinality(Waiting(o)')
            = Cardinality(MailboxesOf(o)) + Cardinality(Waiting(o))
      BY <3>1, <3>2, <3>3
    <3> QED
      BY <2>1, <3>4, <3>5
  <2> QED
    BY <2>2, <2>3
<1>10. NewestIsKept'
  <2>1. \A r \in Requests, d \in Connections :
          /\ (Carries(r, d))' <=> Carries(r, d)
          /\ Carries(r, d) => requests'[r] = requests[r] /\ d # c
    <3>1. \A r \in Requests, d \in Connections : Carries(r, d) => Exists(d)
      BY DEF IInv, OInv, TInv, RowsStay, Carries
    <3> QED
      BY <1>2, <3>1 DEF Carries, Idle
  <2>2. connections'[c].refresh = issued'[c]
    BY <1>1, <1>2
  <2>3. \A d \in Connections \ {c} : (Exists(d)' <=> Exists(d)) /\ OrgOf(d)' = OrgOf(d)
    BY <1>2 DEF Exists, OrgOf
  <2> QED
    BY <1>2, <2>1, <2>2, <2>3 DEF IInv, NewestIsKept
<1> QED
  BY <1>5, <1>9, <1>10 DEF IInv

\* Only one request refreshes a mailbox of an orderly org: what it is answered is the
\* newest, and what it carries when it commits still is.
LEMMA ProviderAnswersTurns ==
  ASSUME IInv, TInv', NEW q \in Requests, ProviderAnswers(q)
  PROVE  IInv'
<1> PICK c \in Connections, token \in Tokens \union {0} :
      /\ requests[q].step = "refresh" /\ requests[q].connection = c
      /\ issued' = IF token = 0 THEN issued ELSE [issued EXCEPT ![c] = token]
      /\ requests' = [requests EXCEPT ![q] = Save(q, token)]
      /\ UNCHANGED <<connections, lost, allowed>>
  BY ProviderAnswersEffect DEF IInv, OInv, settings
<1>1. /\ \A r \in Requests \ {q} : requests'[r] = requests[r]
      /\ requests'[q].step = "save" /\ requests'[q].connection = c
      /\ requests'[q].token = token
  BY DEF IInv, OInv, TInv, TypeOK, Save
<1>2. RowsKeepOrg /\ MailboxesStay
  BY RowsKept DEF Exists
<1>3. Onward(q)
  BY <1>1 DEF Onward, Exchanging, Refreshing
<1>4. \A r \in Requests : Onward(r)
  BY <1>1, <1>3, RequestOnward
<1>5. OInv'
  BY <1>2, <1>4, TurnsKept DEF IInv
<1>6. PlanCounted'
  <2>1. requests'[q] \notin CallbackRequest
    BY <1>1, NoCallback
  <2> QED
    BY <1>1, <1>2, <2>1, PlansStay
<1>7. CASE token = 0
  <2>1. requests'[q].token = 0
    BY <1>1, <1>7
  <2>2. UNCHANGED <<connections, issued, lost>>
    BY <1>7
  <2>3. NewestIsKept'
    BY <1>1, <2>1, <2>2, NewestStays
  <2> QED
    BY <1>5, <1>6, <2>3 DEF IInv
<1>8. CASE token # 0
  <2>1. /\ issued'[c] = token
        /\ \A d \in Connections \ {c} : issued'[d] = issued[d]
    BY <1>8 DEF IInv, OInv, TInv, TypeOK
  <2>2. \A d \in Connections : (Exists(d)' <=> Exists(d)) /\ OrgOf(d)' = OrgOf(d)
    BY DEF Exists, OrgOf
  <2>3. \A d \in Connections \ {c}, r \in Requests :
          /\ (Carries(r, d))' <=> Carries(r, d)
          /\ Carries(r, d) => requests'[r] = requests[r]
    BY <1>1 DEF Carries
  <2>4. (Carries(q, c))' /\ requests'[q].token = issued'[c]
    BY <1>1, <1>8, <2>1 DEF Carries
  <2>5. ASSUME NEW r \in Requests, (Carries(r, c))', OrgOf(c) \in Orderly
        PROVE  r = q
    <3>1. Refreshing(q, c)
      BY DEF Refreshing
    <3>2. r # q => Carries(r, c)
      BY <1>1, <2>5 DEF Carries
    <3> QED
      BY <2>5, <3>1, <3>2, CarriesIsRefreshing, OneRefresh DEF IInv
  <2>6. NewestIsKept'
    BY <2>1, <2>2, <2>3, <2>4, <2>5 DEF IInv, NewestIsKept
  <2> QED
    BY <1>5, <1>6, <2>6 DEF IInv
<1> QED
  BY <1>7, <1>8

LEMMA RefreshCommitTurns ==
  ASSUME IInv, TInv', NEW q \in Requests, RefreshCommit(q)
  PROVE  IInv'
<1>1. PICK c \in Connections, row \in Row, token \in Tokens \union {0} :
        /\ requests[q].step = "save" /\ requests[q].connection = c
        /\ requests[q].token = token
        /\ connections[c] \in Row
        /\ row.flow = connections[c].flow
        /\ row.refresh = IF token = 0 THEN connections[c].refresh ELSE token
        /\ connections' = [connections EXCEPT ![c] = row]
        /\ requests' = [requests EXCEPT ![q] = Idle]
        /\ lost' = IF token # 0 /\ token = issued[c] THEN lost \ {c} ELSE lost
        /\ UNCHANGED <<issued, allowed>>
  <2>1. PICK c \in Connections, p \in Processes, token \in Tokens \union {0} :
          /\ requests[q].step = "save" /\ requests[q].connection = c
          /\ requests[q].token = token
          /\ connections[c] \in Row
          /\ connections' = [connections EXCEPT ![c] =
                               Refreshed(connections[c], token, EncryptionKey(p))]
          /\ requests' = [requests EXCEPT ![q] = Idle]
          /\ lost' = IF token # 0 /\ token = issued[c] THEN lost \ {c} ELSE lost
          /\ UNCHANGED <<issued, allowed>>
    BY RefreshCommitEffect DEF IInv, OInv, settings
  <2> PICK row \in Row : row = Refreshed(connections[c], token, EncryptionKey(p))
    BY <2>1, RefreshedIsRow, EncryptionKeyType DEF IInv, OInv, TInv
  <2>2. /\ row.flow = connections[c].flow
        /\ row.refresh = IF token = 0 THEN connections[c].refresh ELSE token
    BY <2>1, RefreshedIsRow, EncryptionKeyType DEF IInv, OInv, TInv
  <2> QED
    BY <2>1, <2>2
<1>2. /\ connections'[c] = row
      /\ \A d \in Connections \ {c} : connections'[d] = connections[d]
      /\ \A r \in Requests \ {q} : requests'[r] = requests[r]
      /\ requests'[q] = Idle
  BY <1>1 DEF IInv, OInv, TInv, TypeOK
<1>3. Exists(c) /\ Exists(c)'
  BY <1>1, <1>2, NoRowIsNoRow DEF Exists
<1>4. \A d \in Connections :
        /\ Exists(d)' <=> Exists(d)
        /\ Exists(d) => connections'[d].flow = connections[d].flow
  BY <1>1, <1>2, <1>3 DEF Exists
<1>5. RowsKeepOrg /\ MailboxesStay
  BY <1>4, RowsKept
<1>6. \A r \in Requests : Onward(r)
  BY <1>2, RequestOnward
<1>7. OInv'
  BY <1>5, <1>6, TurnsKept DEF IInv
<1>8. PlanCounted'
  <2>1. requests'[q] \notin CallbackRequest
    BY <1>2, NoCallback DEF Idle
  <2> QED
    BY <1>1, <1>2, <1>5, <2>1, PlansStay
<1>9. NewestIsKept'
  <2> SUFFICES ASSUME NEW d \in Connections, Exists(d)', OrgOf(d)' \in Orderly
               PROVE  /\ \A r \in Requests : (Carries(r, d))' => requests'[r].token = issued'[d]
                      /\ d \notin lost' /\ (\A r \in Requests : ~(Carries(r, d))')
                           => connections'[d].refresh = issued'[d]
    BY DEF NewestIsKept
  <2>1. Exists(d) /\ OrgOf(d) \in Orderly /\ issued' = issued
    BY <1>1, <1>4, <1>5 DEF RowsKeepOrg
  <2>2. /\ \A r \in Requests : Carries(r, d) => requests[r].token = issued[d]
        /\ d \notin lost /\ (\A r \in Requests : ~Carries(r, d))
             => connections[d].refresh = issued[d]
    BY <2>1 DEF IInv, NewestIsKept
  <2>3. \A r \in Requests : (Carries(r, d))' <=> r # q /\ Carries(r, d)
    BY <1>2 DEF Carries, Idle
  <2>4. \A r \in Requests : (Carries(r, d))' => requests'[r].token = issued'[d]
    BY <1>2, <2>1, <2>2, <2>3
  <2>5. CASE ~Carries(q, d)
    <3>1. /\ connections'[d].refresh = connections[d].refresh
          /\ d \notin lost' => d \notin lost
      BY <1>1, <1>2, <2>5 DEF Carries
    <3> QED
      BY <2>1, <2>2, <2>3, <2>4, <2>5, <3>1
  <2>6. CASE Carries(q, d)
    <3>1. d = c /\ token # 0 /\ token = issued[d]
      BY <1>1, <2>2, <2>6 DEF Carries
    <3>2. connections'[d].refresh = issued'[d]
      BY <1>1, <1>2, <2>1, <3>1
    <3> QED
      BY <2>4, <3>2
  <2> QED
    BY <2>5, <2>6
<1> QED
  BY <1>7, <1>8, <1>9 DEF IInv

\* A change of plan widens what the callbacks under way may fill.
LEMMA ChangePlanTurns ==
  ASSUME IInv, TInv', NEW o \in Orgs, NEW n \in PlanMailboxes, ChangePlan(o, n)
  PROVE  IInv'
<1>1. /\ allowed' = [allowed EXCEPT ![o] = n]
      /\ UNCHANGED <<connections, issued, lost>>
  BY DEF ChangePlan
<1>2. \A r \in Requests :
        \/ requests'[r] = requests[r] /\ (r \in Waiting(o) => requests[r].widest >= n)
        \/ /\ r \in Waiting(o) /\ n > requests[r].widest
           /\ requests'[r] \in CallbackRequest
           /\ requests'[r].flow = requests[r].flow
           /\ requests'[r].step = "exchange" /\ requests[r].step = "exchange"
           /\ requests'[r].widest = n
  BY ChangePlanEffect DEF IInv, OInv
<1>3. RowsKeepOrg /\ MailboxesStay
  BY <1>1, RowsKept DEF Exists
<1>4. \A r \in Requests : Onward(r)
  BY <1>2 DEF Onward, Exchanging, Refreshing
<1>5. OInv'
  BY <1>3, <1>4, TurnsKept DEF IInv
<1>6. \A u \in Orgs : Waiting(u)' = Waiting(u)
  BY <1>2 DEF Waiting
<1>7. PlanCounted'
  <2> SUFFICES ASSUME NEW r \in Requests, NEW u \in Orgs, r \in Waiting(u)'
               PROVE  /\ allowed'[u] <= requests'[r].widest
                      /\ Cardinality(MailboxesOf(u)') + Cardinality(Waiting(u)')
                           < requests'[r].widest + Lanes(u)
    BY DEF PlanCounted
  <2>1. r \in Waiting(u) /\ MailboxesOf(u)' = MailboxesOf(u)
    BY <1>3, <1>6 DEF MailboxesStay
  <2> PICK v, w : v = requests[r].widest /\ w = requests'[r].widest
    OBVIOUS
  <2>2. v \in Nat /\ n \in Nat /\ allowed[u] \in Nat
    BY <2>1, PlansAssumption DEF Waiting, CallbackRequest, IInv, OInv, TInv, TypeOK
  <2>3. w \in Nat /\ v <= w /\ (u = o => n <= w)
    BY <1>2, <2>1, <2>2
  <2>4. allowed'[u] = IF u = o THEN n ELSE allowed[u]
    BY <1>1 DEF IInv, OInv, TInv, TypeOK
  <2>5. /\ allowed[u] <= v
        /\ Cardinality(MailboxesOf(u)) + Cardinality(Waiting(u)) < v + Lanes(u)
    BY <2>1 DEF IInv, PlanCounted
  <2>6. /\ Cardinality(MailboxesOf(u)) \in Nat /\ Cardinality(Waiting(u)) \in Nat
        /\ Lanes(u) \in Nat
    BY CountsFinite, LanesType
  <2>7. /\ allowed'[u] <= w
        /\ Cardinality(MailboxesOf(u)) + Cardinality(Waiting(u)) < w + Lanes(u)
    BY <2>2, <2>3, <2>4, <2>5, <2>6
  <2> QED
    BY <1>6, <2>1, <2>7
<1>8. NewestIsKept'
  <2>1. \A r \in Requests, c \in Connections :
          /\ (Carries(r, c))' <=> Carries(r, c)
          /\ Carries(r, c) => requests'[r] = requests[r]
    BY <1>2 DEF Carries
  <2>2. \A c \in Connections : (Exists(c)' <=> Exists(c)) /\ OrgOf(c)' = OrgOf(c)
    BY <1>1 DEF Exists, OrgOf
  <2> QED
    BY <1>1, <2>1, <2>2 DEF IInv, NewestIsKept
<1> QED
  BY <1>5, <1>7, <1>8 DEF IInv

LEMMA QuietSteps ==
  ASSUME IInv, [Next]_vars
  PROVE  \/ Quiet
         \/ \E q \in Requests, p \in Processes, f \in Flows : Callback(q, p, f)
         \/ \E q \in Requests, p \in Processes, c \in Connections : RefreshRead(q, p, c)
         \/ \E q \in Requests, c \in Connections : CallbackCommit(q, c)
         \/ \E q \in Requests : ProviderAnswers(q) \/ RefreshCommit(q)
         \/ \E o \in Orgs, n \in PlanMailboxes : ChangePlan(o, n)
<1> USE DEF Quiet, QuietRows, QuietRequests, QuietTokens
<1>1. ASSUME UNCHANGED <<connections, issued, lost, allowed, requests>> PROVE Quiet
  BY <1>1 DEF Exists
<1>2. ASSUME NEW p \in Processes, NEW f \in Flows, Start(p, f) PROVE Quiet
  <2>1. UNCHANGED <<connections, issued, lost, allowed, requests>>
    BY <1>2 DEF Start, settings
  <2> QED
    BY <1>1, <2>1
<1>3. ASSUME PrependKey \/ DropRetiredKeys \/ UNCHANGED vars PROVE Quiet
  <2>1. UNCHANGED <<connections, issued, lost, allowed, requests>>
    BY <1>3 DEF PrependKey, DropRetiredKeys, vars, settings
  <2> QED
    BY <1>1, <2>1
<1>4. ASSUME NEW q \in Requests, CallbackFails(q) \/ RefreshFails(q) PROVE Quiet
  <2>1. /\ requests[q].step # "save"
        /\ requests' = [requests EXCEPT ![q] = Idle]
        /\ UNCHANGED <<connections, issued, lost, allowed>>
    BY <1>4 DEF CallbackFails, RefreshFails, settings
  <2>2. \A c \in Connections : ~HoldsNewest(q, c)
    BY <2>1 DEF HoldsNewest
  <2> QED
    BY <2>1, <2>2 DEF IInv, OInv, TInv, TypeOK, Exists
<1>5. ASSUME NEW c \in Connections, AccessExpires(c) PROVE Quiet
  <2>1. connections[c] \in Row /\ Exists(c)
    BY <1>5 DEF AccessExpires, IInv, OInv, TInv, TypeOK, Exists
  <2> PICK row \in Row : row = [connections[c] EXCEPT !.access = "expired"]
    BY <2>1 DEF Row
  <2>2. row.flow = connections[c].flow /\ row.refresh = connections[c].refresh
    BY <2>1 DEF Row
  <2>3. /\ connections' = [connections EXCEPT ![c] = row]
        /\ UNCHANGED <<issued, lost, allowed, requests>>
    BY <1>5 DEF AccessExpires, settings
  <2>4. row # NoRow
    BY NoRowIsNoRow
  <2>5. QuietRows
    BY <2>1, <2>2, <2>3, <2>4 DEF IInv, OInv, TInv, TypeOK, Exists
  <2> QED
    BY <2>3, <2>5
<1>6. ASSUME NEW q \in Requests, RefreshRolledBack(q) PROVE Quiet
  <2>1. /\ requests' = [requests EXCEPT ![q] = Idle]
        /\ lost' = lost \union {c \in Connections : HoldsNewest(q, c)}
        /\ UNCHANGED <<connections, issued, allowed>>
    BY <1>6 DEF RefreshRolledBack, settings
  <2> QED
    BY <2>1 DEF IInv, OInv, TInv, TypeOK, Exists
<1>7. ASSUME NEW p \in Processes, Restart(p) PROVE Quiet
  <2>1. UNCHANGED <<connections, issued, allowed>> /\ lost \subseteq lost'
    BY <1>7 DEF Restart
  <2>2. \A r \in Requests :
          \/ requests'[r] = requests[r]
          \/ requests'[r] = Idle /\ \A c \in Connections : HoldsNewest(r, c) => c \in lost'
    BY <1>7 DEF Restart
  <2> QED
    BY <2>1, <2>2 DEF Exists
<1>8. ASSUME NEW q \in Requests, RefreshUnanswered(q) PROVE Quiet
  <2>1. PICK c \in Connections :
          /\ requests[q].step = "refresh" /\ requests[q].connection = c
          /\ issued' = [issued EXCEPT ![c] = @ + 1]
          /\ lost' = lost \union {c}
          /\ requests' = [requests EXCEPT ![q] = Idle]
          /\ UNCHANGED <<connections, allowed>>
    BY <1>8, RefreshUnansweredEffect DEF IInv, OInv, settings
  <2>2. Refreshing(q, c) /\ \A d \in Connections : ~Carries(q, d) /\ ~HoldsNewest(q, d)
    BY <2>1 DEF Refreshing, Carries, HoldsNewest
  <2>3. QuietTokens
    BY <2>1, <2>2 DEF IInv, OInv, TInv, TypeOK
  <2>4. QuietRequests /\ QuietRows
    BY <2>1, <2>2 DEF IInv, OInv, TInv, TypeOK, Exists
  <2> QED
    BY <2>1, <2>3, <2>4
<1>9. Subscribers \subseteq Orgs
  BY LimitsAssumption
<1> QED
  BY <1>2, <1>3, <1>4, <1>5, <1>6, <1>7, <1>8, <1>9 DEF Next

LEMMA TurnsNext == IInv /\ [Next]_vars => IInv'
<1> SUFFICES ASSUME IInv, [Next]_vars PROVE IInv'
  OBVIOUS
<1>1. TInv'
  BY TypeNext DEF IInv, OInv
<1> QED
  BY <1>1, QuietSteps, QuietTurns, CallbackTurns, RefreshReadTurns, CallbackCommitTurns,
     ProviderAnswersTurns, RefreshCommitTurns, ChangePlanTurns

\* The invariant the two theorems below rest on.
THEOREM Invariance == Spec => []IInv
<1> QED
  BY TurnsInit, TurnsNext, PTL DEF Spec

LEMMA GrowthWithinPlan ==
  ASSUME IInv, [Next]_vars, NEW o \in Orgs,
         Cardinality(MailboxesOf(o)') > Cardinality(MailboxesOf(o))
  PROVE  \E q \in Requests :
           /\ requests[q] \in CallbackRequest /\ FlowOrg[requests[q].flow] = o
           /\ requests'[q] = Idle
           /\ Cardinality(MailboxesOf(o)') < requests[q].widest + Lanes(o)
<1>1. MailboxesOf(o)' # MailboxesOf(o)
  BY CountsFinite
<1>2. ~Quiet
  BY <1>1, RowsKept DEF Quiet, QuietRows, MailboxesStay
<1>3. ASSUME UNCHANGED connections PROVE FALSE
  BY <1>1, <1>3, RowsKept DEF Exists, MailboxesStay
<1>4. ASSUME NEW q \in Requests, RefreshCommit(q) PROVE FALSE
  <2>1. PICK c \in Connections, row \in Row :
          /\ Exists(c) /\ row.flow = connections[c].flow
          /\ connections' = [connections EXCEPT ![c] = row]
    BY <1>4, RefreshCommitEffect, RefreshedIsRow, EncryptionKeyType, NoRowIsNoRow
       DEF IInv, OInv, TInv, Exists
  <2>2. \A d \in Connections :
          /\ Exists(d)' <=> Exists(d)
          /\ Exists(d) => connections'[d].flow = connections[d].flow
    BY <2>1, NoRowIsNoRow DEF IInv, OInv, TInv, TypeOK, Exists
  <2> QED
    BY <1>1, <2>2, RowsKept DEF MailboxesStay
<1>5. PICK q \in Requests, c \in Connections : CallbackCommit(q, c)
  BY <1>2, <1>3, <1>4, QuietSteps
     DEF Callback, RefreshRead, ProviderAnswers, ChangePlan
<1>6. PICK f \in OrgFlows, k \in KeyNumbers :
        /\ requests[q].step = "exchange" /\ requests[q].flow = f
        /\ ~Exists(c)
        /\ connections' = [connections EXCEPT ![c] = NewRow(f, k)]
        /\ requests' = [requests EXCEPT ![q] = Idle]
  BY <1>5, CallbackCommitEffect, EncryptionKeyType DEF IInv, OInv, TInv
<1>7. \A d \in Connections \ {c} : (Exists(d)' <=> Exists(d)) /\ OrgOf(d)' = OrgOf(d)
  BY <1>6 DEF Exists, OrgOf, IInv, OInv, TInv, TypeOK
<1>8. OrgOf(c)' = FlowOrg[f]
  BY <1>6 DEF OrgOf, NewRow, IInv, OInv, TInv, TypeOK
<1>9. FlowOrg[f] = o /\ MailboxesOf(o)' \subseteq MailboxesOf(o) \union {c}
  BY <1>1, <1>6, <1>7, <1>8 DEF MailboxesOf
<1>10. Cardinality(MailboxesOf(o)') <= Cardinality(MailboxesOf(o)) + 1
  <2>1. c \notin MailboxesOf(o)
    BY <1>6 DEF MailboxesOf
  <2>2. /\ IsFiniteSet(MailboxesOf(o) \union {c})
        /\ Cardinality(MailboxesOf(o) \union {c}) = Cardinality(MailboxesOf(o)) + 1
    BY <2>1, CountsFinite, FS_AddElement
  <2> QED
    BY <1>9, <2>2, FS_Subset
<1>11. q \in Waiting(o)
  BY <1>6, <1>9, RequestFields DEF IInv, OInv, TInv, Waiting
<1>12. Cardinality(Waiting(o)) \in Nat /\ Cardinality(Waiting(o)) >= 1
  BY <1>11, CountsFinite, FS_EmptySet
<1>13. requests[q] \in CallbackRequest /\ requests[q].widest \in Nat /\ Lanes(o) \in Nat
  BY <1>11, LanesType, PlansAssumption DEF Waiting, CallbackRequest
<1>14. Cardinality(MailboxesOf(o)) + Cardinality(Waiting(o)) < requests[q].widest + Lanes(o)
  BY <1>11 DEF IInv, PlanCounted
<1>15. Cardinality(MailboxesOf(o)) \in Nat /\ Cardinality(MailboxesOf(o)') \in Nat
  <2>1. IsFiniteSet(MailboxesOf(o)')
    BY LimitsAssumption, FS_Subset DEF MailboxesOf
  <2> QED
    BY <2>1, CountsFinite, FS_CardinalityType
<1>16. Cardinality(MailboxesOf(o)') < requests[q].widest + Lanes(o)
  BY <1>10, <1>12, <1>13, <1>14, <1>15
<1>17. requests'[q] = Idle
  BY <1>6 DEF IInv, OInv, TInv, TypeOK
<1> QED
  BY <1>6, <1>9, <1>13, <1>16, <1>17

\* An org gets no mailbox beyond the largest plan it had from its callback's check to
\* the commit, however the billing webhook moves that plan (_check_mailbox_plan_limit);
\* overlapping callbacks can outgrow it by their number, those of an orderly org cannot.
THEOREM LimitKept == Spec => MailboxLimitKept
<1> DEFINE Kept == \A o \in Orgs :
       Cardinality(MailboxesOf(o)') > Cardinality(MailboxesOf(o)) =>
         \E q \in Requests :
           /\ requests[q] \in CallbackRequest /\ FlowOrg[requests[q].flow] = o
           /\ requests'[q] = Idle
           /\ Cardinality(MailboxesOf(o)') < requests[q].widest + Lanes(o)
<1>1. IInv /\ [Next]_vars => [Kept]_vars
  BY GrowthWithinPlan
<1> QED
  BY Invariance, <1>1, PTL DEF Spec, MailboxLimitKept

\* In an org whose requests come one after the other, the stored refresh token is the
\* newest one, unless the answer that carried it was lost, or a rollback or a restart
\* took it; the next one that is stored makes up for it (refresh_access_token).
THEOREM NewestTokenKept == Spec => []RotatedTokenKept
<1>1. IInv => RotatedTokenKept
  <2> SUFFICES ASSUME IInv, NEW c \in Connections, Exists(c), OrgOf(c) \in Orderly,
                      c \notin lost, \A q \in Requests : ~Serves(q, OrgOf(c))
               PROVE  connections[c].refresh = issued[c]
    BY DEF RotatedTokenKept
  <2>1. \A q \in Requests : ~Refreshing(q, c)
    BY ServesCases, OrderlyOrgs DEF IInv, OInv, ServesByStep
  <2>2. \A q \in Requests : ~Carries(q, c)
    BY <2>1, CarriesIsRefreshing
  <2> QED
    BY <2>2 DEF IInv, NewestIsKept
<1> QED
  BY <1>1, Invariance, PTL
=============================================================================
