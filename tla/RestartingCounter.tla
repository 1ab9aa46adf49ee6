-------------------------- MODULE RestartingCounter --------------------------
(***************************************************************************)
(* What the shared_data filters promise: a counter that hands out          *)
(* successive values, each to one caller, but may start again from 1 a     *)
(* bounded number of times (the first start included).                     *)
(***************************************************************************)
EXTENDS Integers

CONSTANTS Values,       \* the values that can be handed out
          MaxRestarts   \* how often counting can start from 1

VARIABLES next,         \* the value the next caller gets
          handed,       \* handed[v]: how many callers got v
          restarts      \* how often counting started from 1

vars == <<next, handed, restarts>>

Init == next = 1 /\ handed = [v \in Values |-> 0] /\ restarts = 0

Give(given) ==
    handed' = [v \in Values |-> IF v = given THEN handed[v] + 1 ELSE handed[v]]

(* A caller gets the next value.                                           *)
HandOut ==
    /\ restarts > 0
    /\ Give(next)
    /\ next' = next + 1
    /\ UNCHANGED restarts

(* A caller that found no counter gets 1, and counting goes on from 2.     *)
Restart ==
    /\ restarts < MaxRestarts
    /\ restarts' = restarts + 1
    /\ Give(1)
    /\ next' = 2

Next == HandOut \/ Restart
Spec == Init /\ [][Next]_vars

(* Since the last start each value below next was handed out, and none     *)
(* from next on: a value is handed out at most once per start.             *)
OncePerStart ==
    \A v \in Values :
        /\ handed[v] <= restarts
        /\ v >= next /\ restarts > 0 => handed[v] < restarts
        /\ v < next => handed[v] >= 1
=============================================================================
