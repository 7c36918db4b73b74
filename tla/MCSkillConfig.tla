---------------------------- MODULE MCSkillConfig ----------------------------
(* A default skill whose updates come one after the other and an opt-in one *)
(* whose updates may overlap.                                               *)
EXTENDS SkillConfig, TLC
CONSTANTS o1, gmail, q1, q2, triage, digest, p1, p2, r1

MCOrderly == {<<o1, triage>>}
MCBaseline == {triage}
MCRuleOrg == [r \in Rules |-> o1]
MCSymmetry == Permutations(Requests) \union Permutations(Params)
=============================================================================
