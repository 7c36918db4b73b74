\* Two cells: o1 is restarted by platform admins, o2 is flaky, its writes may be
\* cut off, and it is retired.
SPECIFICATION FairSpec
CONSTANTS
  o1 = o1
  o2 = o2
  r1 = r1
  r2 = r2
  p1 = p1
  NoRequest = NoRequest
  Orgs = {o1, o2}
  Requests = {r1, r2}
  Processes = {p1}
  ProcessOf <- OneProcess
  Restartable = {o1}
  Retirable = {o2}
  Faults <- SomeFaults
  MaxRevision <- Two
  MaxVersion <- Versions
INVARIANTS TypeOK OnlyRestartsOverlap NeverDefaultConfig ConfigNotTorn RowMatchesFleet
PROPERTIES LockIsReleased NeverGoesBack
\* The bounds on revisions and versions let the system come to rest.
CHECK_DEADLOCK FALSE
