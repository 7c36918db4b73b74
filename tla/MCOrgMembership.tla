--------------------------- MODULE MCOrgMembership ---------------------------
(* Instances of OrgMembership: u1 and u4 are the founders of the two orgs;   *)
(* both may invite the address of u2; u3 would take a seat too many.         *)
EXTENDS OrgMembership, TLC

CONSTANTS o1, o2, u1, u2, u3, u4, e1, e2, e3, e4, r1, r2

MCFounder == [o \in Orgs |-> IF o = o1 THEN u1 ELSE u4]
MCEmail == [u \in Users |-> CASE u = u1 -> e1 [] u = u2 -> e2 [] u = u3 -> e3 [] u = u4 -> e4]

Symmetric == Permutations(Requests)
==============================================================================
