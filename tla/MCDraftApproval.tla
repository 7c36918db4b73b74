--------------------------- MODULE MCDraftApproval ---------------------------
(* Small instances of DraftApproval: two tenants, each with an admin who owns *)
(* its mailbox and a member who can be removed.                              *)
EXTENDS DraftApproval, TLC

CONSTANTS orgA, orgB, ada, max, bob, ben, boxA, boxB, pA, pB,
          r1, r2, d1, d2

MCUserOrg == [u \in Users |-> IF u \in {bob, ben} THEN orgB ELSE orgA]
MCConnectionOrg == [c \in Connections |-> IF c = boxB THEN orgB ELSE orgA]
MCConnectionOwner == [c \in Connections |-> IF c = boxB THEN bob ELSE ada]
MCMailbox == [p \in ProviderDrafts |-> IF p = pB THEN boxB ELSE boxA]

Symmetric == Permutations(Requests) \union Permutations(DraftIds)
==============================================================================
