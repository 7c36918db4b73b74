\* Two requests in one process.
SPECIFICATION FairSpec
CONSTANTS
  o1 = o1
  o2 = o2
  c1 = c1
  c2 = c2
  s1 = s1
  s2 = s2
  r1 = r1
  r2 = r2
  p1 = p1
  None = None
  Orgs = {o1}
  Customers = {c1}
  Subs = {s1}
  Requests = {r1, r2}
  Processes = {p1}
  ProcessOf <- OneProcess
  KeyInEnvironment = {p1}
  Patient = {}
  InOrder = {}
  Crashable = {}
  StripeFails = {}
  MaxEvents = 2
PROPERTY LoopIsFreed
\* Customers, subscriptions and events are bounded.
CHECK_DEADLOCK FALSE
