-------------------------- MODULE MCExamplePrograms --------------------------
(* fibb(10) = 55 fits 7 bits with a sign as fibb(92) fits 64; fibb(11) and *)
(* fibb(12) are the first that do not.                                     *)
EXTENDS ExamplePrograms

CONSTANTS p1, p2, u1, u2

TwoRequests == {p1, p2}
TwoUsers    == {u1, u2}
SomeNumbers == {-1, 0, 1, 2, 10, 11, 12}
=============================================================================
