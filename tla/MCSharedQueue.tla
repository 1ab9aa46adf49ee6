--------------------------- MODULE MCSharedQueue ---------------------------
(* Three workers; two filters per request as in envoy.yaml.                *)
EXTENDS SharedQueue

CONSTANTS w1, w2, w3

TwoWorkers   == {w1, w2}
ThreeWorkers == {w1, w2, w3}
=============================================================================
