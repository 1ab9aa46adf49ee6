---------------------------- MODULE SerialServer ----------------------------
(***************************************************************************)
(* What a serial web server promises to those who post to it: requests are *)
(* handled one at a time, each is answered once, with a text that fits it, *)
(* and only a restart cuts requests short, those that wait included.       *)
(***************************************************************************)
CONSTANTS
    Requests,
    Possible,   \* the texts each request may be answered with
    Reset,      \* what a client gets whose connection is cut
    NoAnswer

VARIABLES stage, answer
serverVars == <<stage, answer>>

Init ==
    /\ stage = [q \in Requests |-> "new"]
    /\ answer = [q \in Requests |-> NoAnswer]

Arrive(q) ==
    /\ stage[q] = "new"
    /\ stage' = [stage EXCEPT ![q] = "queued"]
    /\ UNCHANGED answer

Begin(q) ==
    /\ stage[q] = "queued"
    /\ \A p \in Requests : stage[p] # "handled"
    /\ stage' = [stage EXCEPT ![q] = "handled"]
    /\ UNCHANGED answer

Finish(q) ==
    /\ stage[q] = "handled"
    /\ \E text \in Possible[q] : answer' = [answer EXCEPT ![q] = text]
    /\ stage' = [stage EXCEPT ![q] = "answered"]

Restart ==
    LET Cut == {q \in Requests : stage[q] \in {"queued", "handled"}}
    IN  /\ stage' = [q \in Requests |-> IF q \in Cut THEN "answered" ELSE stage[q]]
        /\ answer' = [q \in Requests |-> IF q \in Cut THEN Reset ELSE answer[q]]

Next == Restart \/ \E q \in Requests : Arrive(q) \/ Begin(q) \/ Finish(q)

Spec == Init /\ [][Next]_serverVars
=============================================================================
