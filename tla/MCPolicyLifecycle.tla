--------------------------- MODULE MCPolicyLifecycle ---------------------------
(* Small instances of PolicyLifecycle for TLC. *)
EXTENDS PolicyLifecycle

CONSTANTS h1, h2, r1, r2, root, x, y

OneEach == [h \in Handlers |-> IF h = h1 THEN r1 ELSE r2]
BothOnOne == [h \in Handlers |-> r1]

(* Sources that never change, and that may be unreachable.                 *)
Reliable == {[b \in Bundles |-> b]}
Outages == Reliable \cup {[b \in Bundles |-> IF b = x THEN None ELSE b]}
=============================================================================
