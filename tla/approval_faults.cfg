\* Two tenants, two overlapping requests; processes die, members are removed.
\* The requests of orgB come one after the other.
SPECIFICATION Spec
SYMMETRY Symmetric
CONSTANTS
  orgA = orgA
  orgB = orgB
  ada = ada
  max = max
  bob = bob
  ben = ben
  boxA = boxA
  boxB = boxB
  pA = pA
  pB = pB
  r1 = r1
  r2 = r2
  d1 = d1
  d2 = d2
  NoUser = NoUser
  Agent = Agent
  NoOrg = NoOrg
  Orgs = {orgA, orgB}
  Users = {ada, max, bob, ben}
  Connections = {boxA, boxB}
  ProviderDrafts = {pA, pB}
  UserOrg <- MCUserOrg
  ConnectionOrg <- MCConnectionOrg
  ConnectionOwner <- MCConnectionOwner
  Mailbox <- MCMailbox
  DraftIds = {d1, d2}
  Requests = {r1, r2}
  Orderly = {orgB}
  Crashable = {r1, r2}
  OrgAdmins = {ada, bob}
INVARIANTS TypeOK SentMeansDelivered VerdictsAudited TenantIsolation EveryMailAudited RejectedNeverMailed OneRowPerProviderDraft
PROPERTIES GateSpec VerdictIsFinal
\* Nothing is left to do once every draft has a verdict.
CHECK_DEADLOCK FALSE
