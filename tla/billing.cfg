\* o1 has one subscription after the other and its events in order; o2 checks
\* out as it likes, and its events come reordered and repeated.
SPECIFICATION Spec
CONSTANTS
  o1 = o1
  o2 = o2
  c1 = c1
  c2 = c2
  s1 = s1
  s2 = s2
  r1 = r1
  r2 = r2
  p1 = p1
  None = None
  Orgs = {o1, o2}
  Customers = {c1, c2}
  Subs = {s1, s2}
  Requests = {r1, r2}
  Processes = {p1}
  ProcessOf <- OneProcess
  KeyInEnvironment = {p1}
  Patient = {o1}
  InOrder = {o1}
  Crashable = {p1}
  StripeFails = {o1}
  MaxEvents = 3
SYMMETRY Symmetric
INVARIANTS TypeOK CustomersKeptApart TierWasSubscribed PlanFollowsStripe
\* Customers, subscriptions and events are bounded.
CHECK_DEADLOCK FALSE
