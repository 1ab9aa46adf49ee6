-------------------------- MODULE MCDigitPipeline --------------------------
(* Two replicas of the checker are enough for one to serve while another   *)
(* saves; the page posts its canvas, anybody may post what is no picture.  *)
EXTENDS DigitPipeline

CONSTANTS r1, r2, q1, q2

TwoReplicas == {r1, r2}
TwoRequests == {q1, q2}
Drawings    == [q \in Requests |-> "canvas"]
MixedKinds  == [q \in Requests |-> IF q = q1 THEN "canvas" ELSE "notpng"]
=============================================================================
