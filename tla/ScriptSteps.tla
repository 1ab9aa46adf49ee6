---------------------------- MODULE ScriptSteps ----------------------------
(***************************************************************************)
(* What the example scripts are made of.  A script is a sequence of steps, *)
(* each a command or a loop that waits; a step names the objects it makes, *)
(* removes or waits for, and the place they are in.  Checks in a row, and  *)
(* things shown in a row, are one step.                                    *)
(***************************************************************************)
EXTENDS Naturals, Sequences

Ops == {"require", "show", "create", "apply", "listen", "delete", "switch",
        "await", "await any", "block", "tear down"}

Step(op, at, on, strict) == [op |-> op, at |-> at, on |-> on, strict |-> strict]

(* Places that exist as long as an object of the place "places" has their  *)
(* name (namespaces, clusters), and the namespace kubectl is switched to.  *)
Places == "places"
Here   == "current namespace"

Require             == Step("require", "host", {}, 1)       \* or exit 1
Show                == Step("show", "host", {}, 0)          \* print, browse
Create(at, on)      == Step("create", at, on, 0)            \* refused if there
CreateOrExit(at, on) == Step("create", at, on, 1)
Apply(at, on)       == Step("apply", at, on, 0)             \* taken over if there
ApplyOrExit(at, on) == Step("apply", at, on, 1)
Listen(port, image) == Step("listen", port, {image}, 0)     \* refused if taken
Delete(at, on)      == Step("delete", at, on, 0)
Switch(namespace)   == Step("switch", namespace, {}, 0)     \* kubens
Await(at, on)       == Step("await", at, on, 0)             \* loop until ready
AwaitAny(port)      == Step("await any", port, {}, 0)       \* whoever answers
Block               == Step("block", "host", {}, 0)         \* until Ctrl+C
TearDown            == Step("tear down", "host", {}, 0)     \* called by name

(* Scripts with "trap tearDown SIGINT", scripts without, and scripts that  *)
(* their README wants run after another one.                               *)
Script(main, down)       == [needs |-> {}, trap |-> 1, main |-> main, down |-> down]
Untrapped(main)          == [needs |-> {}, trap |-> 0, main |-> main, down |-> <<>>]
ScriptAfter(needs, main, down) ==
    [needs |-> needs, trap |-> 1, main |-> main, down |-> down]
=============================================================================
