------------------------------- MODULE MCBilling -------------------------------
(* Instances of Billing: one or two orgs, one server process.                *)
EXTENDS Billing, TLC

CONSTANTS o1, o2, c1, c2, s1, s2, r1, r2, p1

OneProcess == [r \in Requests |-> p1]

Symmetric == Permutations(Customers) \union Permutations(Subs) \union Permutations(Requests)
==============================================================================
