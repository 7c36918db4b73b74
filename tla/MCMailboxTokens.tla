--------------------------- MODULE MCMailboxTokens ---------------------------
(* Two orgs, one of them orderly; two processes. *)
EXTENDS MailboxTokens, TLC

CONSTANTS o1, o2, none, f1, f2, f3, f4, m1, m2, p1, p2, q1, q2
MCOrgs == {o1, o2}
MCFlows == {f1, f2, f3, f4}
MCFlowOrg == [f \in MCFlows |-> CASE f = f3 -> o2 [] f = f4 -> none [] OTHER -> o1]
MCOutlook == {f1}
MCConnections == {m1, m2}
MCSubscribers == {o1}
MCOrderly == {o1}
MCProcesses == {p1, p2}
MCRequests == {q1, q2}
MCSymmetry ==
  Permutations(MCConnections) \union Permutations(MCProcesses) \union Permutations(MCRequests)
=============================================================================
