-------------------------- MODULE MCCellProvisioning --------------------------
(* Instances of CellProvisioning: one host, served by one process.           *)
EXTENDS CellProvisioning, TLC

CONSTANTS o1, o2, r1, r2, p1

OneProcess == [r \in Requests |-> p1]
SomeFaults == o1 :> {"timeout", "disk", "crash"} @@ o2 :> {"cli", "disk", "cut"}
Two == [o \in Orgs |-> 2]
Versions == o1 :> 3 @@ o2 :> 2
==============================================================================
