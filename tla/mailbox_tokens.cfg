\* Four flows of two orgs and a platform admin, two processes, a plan that goes up and
\* down, one key rotation, two token rotations.
SPECIFICATION Spec
CONSTANTS
  o1 = o1
  o2 = o2
  f1 = f1
  f2 = f2
  f3 = f3
  f4 = f4
  none = none
  NoOrg = none
  m1 = m1
  m2 = m2
  p1 = p1
  p2 = p2
  q1 = q1
  q2 = q2
  Orgs <- MCOrgs
  Flows <- MCFlows
  FlowOrg <- MCFlowOrg
  Outlook <- MCOutlook
  Connections <- MCConnections
  PlanMailboxes = {1, 2}
  TrialMailboxes = 1
  Subscribers <- MCSubscribers
  Orderly <- MCOrderly
  Processes <- MCProcesses
  Requests <- MCRequests
  MaxKey = 2
  MaxIssued = 3
SYMMETRY MCSymmetry
INVARIANTS
  TypeOK
  OneMailboxPerFlow
  TokensReadable
  RotatedTokenKept
PROPERTIES
  MailboxLimitKept
CHECK_DEADLOCK FALSE
