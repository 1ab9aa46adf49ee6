---------------------------- MODULE MCSharedData ----------------------------
(* Three workers; two filters per request as in envoy.yaml.                *)
EXTENDS SharedData

CONSTANTS w1, w2, w3

ThreeWorkers == {w1, w2, w3}
=============================================================================
