--------------------------- MODULE MCModelStartup ---------------------------
(* Two replicas, of which one may be killed while it saves.                *)
EXTENDS ModelStartup

CONSTANTS r1, r2

TwoReplicas == {r1, r2}
=============================================================================
