---------------------------- MODULE FibbResource ----------------------------
(***************************************************************************)
(* Terraform/custom-provider: the resource "fibb" of the provider written  *)
(* in Go, as terraform drives it.  The user edits n in main.tf, or takes   *)
(* the resource out of it, and runs terraform apply; terraform plans from  *)
(* the state it has, calls the provider, and saves what the provider       *)
(* leaves in its ResourceData, also when the call returns an error.  In    *)
(* partial mode only the fields named by SetPartial are saved.             *)
(***************************************************************************)
EXTENDS Integers

CONSTANTS
    Arguments,   \* values of n the user tries
    FirstN,      \* n of the main.tf that comes with the example
    Width,       \* bits of an int (64 in the program)
    Absent       \* no resource, no plan

ASSUME FibbAssumption ==
    /\ Arguments \subseteq Int /\ FirstN \in Arguments
    /\ Width \in Nat /\ Width > 1
    /\ Absent \notin Int

VARIABLES
    main,     \* n in main.tf
    fibbState, \* the resource in terraform.tfstate: n, result, and the n in its id
    plan      \* what the terraform at work is about to do
fibbVars == <<main, fibbState, plan>>

(* An int of Go: two's complement.                                         *)
GoInt(i) ==
    LET m == i % (2 ^ Width) IN IF m < 2 ^ (Width - 1) THEN m ELSE m - 2 ^ Width

fibb[n \in Nat] ==
    IF n = 0 THEN 0 ELSE IF n = 1 THEN 1 ELSE GoInt(fibb[n - 1] + fibb[n - 2])

Resources == [id : Int, n : Int, result : Int]
FibbTypeOK ==
    /\ main \in Arguments \cup {Absent}
    /\ fibbState = Absent \/ fibbState \in Resources
    /\ plan = Absent \/ plan \in [call : {"create", "update", "delete"}, n : Int]

FibbInit == main = FirstN /\ fibbState = Absent /\ plan = Absent

Edit ==
    /\ \E n \in Arguments \cup {Absent} : n # main /\ main' = n
    /\ UNCHANGED <<fibbState, plan>>

(* terraform compares main.tf with its state.                              *)
Plan ==
    /\ plan = Absent
    /\ \/ /\ main # Absent /\ fibbState = Absent
          /\ plan' = [call |-> "create", n |-> main]
       \/ /\ main # Absent /\ fibbState # Absent /\ fibbState.n # main
          /\ plan' = [call |-> "update", n |-> main]
       \/ /\ main = Absent /\ fibbState # Absent
          /\ plan' = [call |-> "delete", n |-> fibbState.n]
    /\ UNCHANGED <<main, fibbState>>

(* terraform dies before it has saved its state.                           *)
Killed == plan # Absent /\ plan' = Absent /\ UNCHANGED <<main, fibbState>>

-----------------------------------------------------------------------------
(* The provider.                                                           *)
checkn(n)       == n >= 0
updateResult(n) == fibb[n]

(* A create that fails before SetId leaves no resource.                    *)
Create ==
    /\ plan # Absent /\ plan.call = "create"
    /\ fibbState' = IF checkn(plan.n)
                    THEN [id |-> plan.n, n |-> plan.n, result |-> updateResult(plan.n)]
                    ELSE Absent
    /\ plan' = Absent /\ UNCHANGED main

(* Mutant: without d.Partial(true) a failed update saves the planned n.    *)
UpdateWhole ==
    /\ plan # Absent /\ plan.call = "update"
    /\ fibbState' = [fibbState EXCEPT
          !.n = plan.n, !.result = IF checkn(plan.n) THEN updateResult(plan.n) ELSE @]
    /\ plan' = Absent /\ UNCHANGED main

(* The id stays.  The early return for a negative n leaves partial mode on *)
(* with no field named: nothing is saved.                                  *)
Update ==
    /\ plan # Absent /\ plan.call = "update"
    /\ fibbState' = IF checkn(plan.n)
                    THEN [fibbState EXCEPT !.n = plan.n, !.result = updateResult(plan.n)]
                    ELSE fibbState
    /\ plan' = Absent /\ UNCHANGED main

Delete ==
    /\ plan # Absent /\ plan.call = "delete"
    /\ fibbState' = Absent
    /\ plan' = Absent /\ UNCHANGED main

FibbNext == Edit \/ Plan \/ Killed \/ Create \/ Update \/ Delete

-----------------------------------------------------------------------------
(* The Fibonacci numbers, from pairs of neighbours and without overflow.   *)
FibonacciPair[n \in Nat] ==
    IF n = 0 THEN <<0, 1>>
    ELSE LET p == FibonacciPair[n - 1] IN <<p[2], p[1] + p[2]>>
Fibonacci(n) == FibonacciPair[n][1]

(* Whatever was applied, refused or interrupted before, the result in the  *)
(* state is the Fibonacci number of the n next to it, cut to the width of  *)
(* an int.  (The id is of no use here: it names the first n, not this one.) *)
ResultOfN ==
    fibbState # Absent =>
        fibbState.n >= 0 /\ fibbState.result = GoInt(Fibonacci(fibbState.n))
=============================================================================
