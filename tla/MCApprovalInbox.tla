-------------------------- MODULE MCApprovalInbox --------------------------
(* Two drafts and two tabs, whose users wait for the answer to a review.  *)
EXTENDS ApprovalInbox, TLC

CONSTANTS d1, d2, t1, t2
MCDrafts == {d1, d2}
MCTabs == {t1, t2}
MCPatient == {t1, t2}
MCSymmetry == Permutations(MCDrafts) \union Permutations(MCTabs)
=============================================================================
