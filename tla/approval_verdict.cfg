\* One tenant: overlapping requests, processes that die and a member that is
\* removed between the provider's answer and the verdict.
SPECIFICATION FairSpec
CONSTANTS
  orgA = orgA
  orgB = orgB
  ada = ada
  max = max
  bob = bob
  ben = ben
  boxA = boxA
  boxB = boxB
  pA = pA
  pB = pB
  r1 = r1
  r2 = r2
  d1 = d1
  d2 = d2
  NoUser = NoUser
  Agent = Agent
  NoOrg = NoOrg
  Orgs = {orgA}
  Users = {ada, max}
  Connections = {boxA}
  ProviderDrafts = {pA}
  UserOrg <- MCUserOrg
  ConnectionOrg <- MCConnectionOrg
  ConnectionOwner <- MCConnectionOwner
  Mailbox <- MCMailbox
  DraftIds = {d1, d2}
  Requests = {r1, r2}
  Orderly = {}
  Crashable = {r1, r2}
  OrgAdmins = {ada}
PROPERTY MailGetsVerdict
\* Nothing is left to do once every draft has a verdict.
CHECK_DEADLOCK FALSE
