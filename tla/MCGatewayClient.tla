-------------------------- MODULE MCGatewayClient --------------------------
(* A run and a stream at one gateway; both may lose the network. *)
EXTENDS GatewayClient

CONSTANTS c1, s1, r1, r2
MCRunCalls == {c1}
MCStreamCalls == {s1}
MCRuns == {r1, r2}
MCFrail == {c1, s1}
=============================================================================
