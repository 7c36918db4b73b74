\* Two updates that may overlap, and renderings between them.
SPECIFICATION Spec
CONSTANTS
  o1 = o1
  gmail = gmail
  q1 = q1
  q2 = q2
  triage = triage
  digest = digest
  p1 = p1
  p2 = p2
  r1 = r1
  Orgs = {o1}
  Skills = {triage, digest}
  Providers = {gmail}
  Requests = {q1, q2}
  Params = {p1, p2}
  Rules = {r1}
  RuleOrg <- MCRuleOrg
  Baseline <- MCBaseline
  Orderly <- MCOrderly
SYMMETRY MCSymmetry
INVARIANT TypeOK
PROPERTY AnswerIsStored
