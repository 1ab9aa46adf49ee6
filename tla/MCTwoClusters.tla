--------------------------- MODULE MCTwoClusters ---------------------------
(* Two European cities ask an Antarctic one, the only pair of continents   *)
(* whose latencies (5 to 10 s) can exceed the timeout of 8 s, and it asks  *)
(* them; so both of them work at once on the one city.                     *)
EXTENDS TwoClusters

CONSTANTS danzig, cracovia, frozen_camp

Europe       == {danzig, cracovia}
ThreeCities  == Europe \cup {frozen_camp}
EachOther    == [c \in ThreeCities |-> IF c \in Europe THEN {frozen_camp} ELSE Europe]
Shortest     == [c \in ThreeCities |-> IF c \in Europe THEN 5 ELSE 0]
Longest      == [c \in ThreeCities |-> IF c \in Europe THEN 10 ELSE 0]
=============================================================================
