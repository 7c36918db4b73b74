\* Two orgs that invite the same addresses; those of o1 come one after the other,
\* while its plan goes up and down.
SPECIFICATION Spec
CONSTANTS
  o1 = o1
  o2 = o2
  u1 = u1
  u2 = u2
  u3 = u3
  u4 = u4
  e1 = e1
  e2 = e2
  e3 = e3
  e4 = e4
  r1 = r1
  r2 = r2
  NoAccount = NoAccount
  Removed = Removed
  Orgs = {o1, o2}
  Users = {u1, u2, u3, u4}
  Emails = {e1, e2, e3, e4}
  Email <- MCEmail
  Founder <- MCFounder
  PlanSeats = {1, 2}
  TrialSeats = 2
  Subscribers = {o1}
  Orderly = {o1}
  Referable = {u2}
  MaxTokens = 1
  Requests = {r1, r2}
SYMMETRY Symmetric
INVARIANTS TypeOK AdminRemainsInTurn
PROPERTIES AdminsChangeMembers SeatLimitKept
\* The accounts of the instance can be used up.
CHECK_DEADLOCK FALSE
