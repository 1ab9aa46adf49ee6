---------------------------- MODULE ScriptRunner ----------------------------
(***************************************************************************)
(* One user runs the example scripts of a book one after the other, in any *)
(* order, and may press Ctrl+C at any moment.  bash waits for the command  *)
(* at hand, which got the signal as well and may have done part of its     *)
(* work, and then calls tearDown; a second Ctrl+C calls it once more, from *)
(* its first command, and its exit ends the script.  A command that fails  *)
(* is ignored, unless the script tests for it and exits.                   *)
(***************************************************************************)
EXTENDS ScriptSteps

CONSTANTS
    Book,         \* the scripts by name
    Transient,    \* places that exist only once a script has made them
    MaxStarts,    \* bound: scripts run
    MaxFaults,    \* bound: commands that fail for reasons of their own
    MaxSigints    \* bound: times Ctrl+C is pressed

Namespaces == {"default"} \cup Transient

ASSUME RunnerAssumption ==
    /\ {MaxStarts, MaxFaults, MaxSigints} \subseteq Nat
    /\ {Places, Here, "default"} \cap Transient = {}
    /\ \A s \in DOMAIN Book : Book[s].trap \in {0, 1}
    /\ \A s \in DOMAIN Book :
          \A steps \in {Book[s].main, Book[s].down} :
              /\ steps \in Seq([op : Ops, at : STRING, on : SUBSET STRING, strict : {0, 1}])
              /\ \A i \in DOMAIN steps :
                     /\ steps[i].at = Places => steps[i].on \subseteq Transient
                     /\ steps[i].op = "switch" => steps[i].at \in Namespaces

Makes        == {"create", "listen", "apply"}
Making(s)    == {i \in DOMAIN s.main : s.main[i].op \in Makes}
Switches(s)  == \E steps \in {s.main, s.down} :
                    \E i \in DOMAIN steps : steps[i].op = "switch"
TearsDown(s) == s.trap = 1 \/ \E i \in DOMAIN s.main : s.main[i].op = "tear down"

(* What the steps of a script say of it.  Every name it makes something    *)
(* under is one its tearDown deletes, in the same place or with the whole  *)
(* place; a script that switches the namespace does not delete in "the     *)
(* current one", and makes nothing there but what goes with a namespace it *)
(* has switched to.  "claims" in the current namespace are what no chart   *)
(* removes.                                                                *)
RemovesPlace(s, place) ==
    \E j \in DOMAIN s.down : /\ s.down[j].op = "delete" /\ s.down[j].at = Places
                             /\ place \in s.down[j].on
Removes(s, i, name) ==
    \/ \E j \in DOMAIN s.down : /\ s.down[j].op = "delete" /\ name \in s.down[j].on
                                /\ s.down[j].at = s.main[i].at
    \/ s.main[i].at # Here /\ RemovesPlace(s, s.main[i].at)
    \/ /\ s.main[i].at = Here
       /\ \E k \in 1..(i - 1) : s.main[k].op = "switch"
       /\ \A k \in 1..(i - 1) :
             s.main[k].op = "switch" => RemovesPlace(s, s.main[k].at)
Tidy(s) ==
    /\ \A j \in DOMAIN s.down : s.down[j].op \notin Makes \cup {"tear down"}
    /\ Switches(s) =>
          \A j \in DOMAIN s.down : s.down[j].op = "delete" => s.down[j].at # Here
    /\ \A i \in Making(s) : \A name \in s.main[i].on :
          (name = "claims" /\ s.main[i].at = Here) \/ Removes(s, i, name)
ASSUME TidyAssumption == \A s \in DOMAIN Book : TearsDown(Book[s]) => Tidy(Book[s])

(* The webapp of DigitRecon is made only by a step that a strict create of *)
(* the checker's service leads to, with nothing in between that removes or *)
(* switches.                                                               *)
LeadsTo(steps, k, i) ==
    /\ k < i
    /\ steps[k].op = "create" /\ steps[k].strict = 1 /\ "checker-service" \in steps[k].on
    /\ steps[k].at = steps[i].at
    /\ \A m \in k..i : steps[m].op \notin {"delete", "switch", "tear down"}
ASSUME ChainedAssumption ==
    \A s \in DOMAIN Book :
        \A steps \in {Book[s].main, Book[s].down} :
            \A i \in DOMAIN steps :
                steps[i].op \in Makes /\ "webapp-deployment" \in steps[i].on =>
                    \E k \in DOMAIN steps : LeadsTo(steps, k, i)

(* What scripts without a trap make, and may leave for good.               *)
Lasting == UNION {UNION {{Book[s].main[i].at} \X Book[s].main[i].on : i \in Making(Book[s])} :
                  s \in {s \in DOMAIN Book : Book[s].trap = 0}}

(* A script with a trap that makes anything stays until Ctrl+C or calls    *)
(* its tearDown; claims it makes in the current namespace are in no        *)
(* namespace of its own; the others know where they make things.           *)
ClaimsHere(s) == \E i \in Making(s) : s.main[i].at = Here /\ "claims" \in s.main[i].on
Stays(s) ==
    /\ s.trap = 1 /\ Making(s) # {} =>
          \E k \in DOMAIN s.main : s.main[k].op \in {"block", "tear down"}
    /\ ClaimsHere(s) =>
          ~Switches(s) /\ \A i \in Making(s) : s.main[i].at \notin Transient \cup {Places}
    /\ s.trap = 0 => /\ ~TearsDown(s)
                     /\ \A i \in Making(s) : s.main[i].at # Here

(* A strict create takes names that nothing else has, and what its script  *)
(* makes before it is in the same namespace; a strict apply makes things   *)
(* in a place that is always there.                                        *)
Demands(s, i) ==
    \/ s.main[i].op = "apply" /\ s.main[i].at \notin Transient \cup {Here}
    \/ /\ s.main[i].op = "create" /\ s.main[i].at = Here /\ ~Switches(s)
       /\ "claims" \notin s.main[i].on /\ \A o \in Lasting : o[2] \notin s.main[i].on
       /\ \A k \in Making(s) : k < i =>
             s.main[k].at = Here /\ s.main[k].on \cap s.main[i].on = {}

(* A script switches to namespaces that are always there, or that it makes *)
(* and has not removed.                                                    *)
Reaches(steps, i, k) ==
    /\ i < k
    /\ steps[i].op \in {"create", "apply"}
    /\ steps[i].at = Places /\ steps[k].at \in steps[i].on
    /\ \A m \in i..k : steps[m].op # "delete"
Finds(steps, k) ==
    /\ steps[k].at # "claims" /\ <<Places, steps[k].at>> \notin Lasting
    /\ steps[k].at \in Transient => \E i \in DOMAIN steps : Reaches(steps, i, k)

(* A tearDown deletes no name, and no place, that lasts.                   *)
Spares(s, j) ==
    /\ "claims" \notin s.down[j].on
    /\ \A o \in Lasting :
          /\ s.down[j].at \in {o[1], Here} => o[2] \notin s.down[j].on
          /\ s.down[j].at = Places => o[1] \notin s.down[j].on

ASSUME ApartAssumption ==
    \A s \in DOMAIN Book :
        /\ Stays(Book[s])
        /\ \A i \in Making(Book[s]) : Book[s].main[i].strict = 1 => Demands(Book[s], i)
        /\ \A steps \in {Book[s].main, Book[s].down} : \A k \in DOMAIN steps :
              steps[k].op = "switch" => Finds(steps, k)
        /\ \A j \in DOMAIN Book[s].down : Book[s].down[j].op = "delete" => Spares(Book[s], j)

(* What a loop waits for, a step before it makes in the same place, as the *)
(* script's own; nothing in between removes, switches or makes a place.    *)
Provides(steps, i, k) ==
    /\ i < k /\ steps[i].at = steps[k].at
    /\ \A m \in i..k : steps[m].op \notin {"delete", "switch"} /\ steps[m].at # Places
Owns(s, i, name) ==
    \/ s.main[i].op = "apply"
    \/ /\ s.main[i].op = "create" /\ s.trap = 1
       /\ name # "claims" /\ \A o \in Lasting : o[2] # name
Stands(s, k) ==
    \/ s.main[k].at \notin Transient
    \/ <<Places, s.main[k].at>> \in s.needs /\ \A m \in 1..(k - 1) : s.main[m].op # "delete"
    \/ \E i \in DOMAIN s.main : Reaches(s.main, i, k)
Awaits(s, k) ==
    /\ Stands(s, k)
    /\ \A name \in s.main[k].on : \E i \in DOMAIN s.main :
          Provides(s.main, i, k) /\ name \in s.main[i].on /\ Owns(s, i, name)

(* A script that waits for any answer listens before; and only scripts     *)
(* without a trap make anything there, and remove it before they end.      *)
Answers == UNION {{Book[s].main[k].at : k \in {k \in DOMAIN Book[s].main :
                                                  Book[s].main[k].op = "await any"}} :
                  s \in DOMAIN Book}
Listens(s, i, k) ==
    Provides(s.main, i, k) /\ s.main[i].op = "listen" /\ s.main[i].on # {}
Frees(s, i) ==
    /\ s.trap = 0
    /\ \E j \in DOMAIN s.main : /\ i < j /\ s.main[j].op = "delete"
                                /\ s.main[j].at = s.main[i].at
                                /\ s.main[i].on \subseteq s.main[j].on

ASSUME AwaitedAssumption ==
    /\ Answers \cap ({Here} \cup Namespaces) = {}
    /\ \A s \in DOMAIN Book :
          /\ \A k \in DOMAIN Book[s].main :
                /\ Book[s].main[k].op = "await" => Awaits(Book[s], k)
                /\ Book[s].main[k].op = "await any" =>
                      \E i \in DOMAIN Book[s].main : Listens(Book[s], i, k)
          /\ \A i \in Making(Book[s]) :
                Book[s].main[i].at \in Answers => Frees(Book[s], i)

VARIABLES
    objects,    \* what exists: <<place, name>>
    namespace,  \* the namespace kubectl is switched to
    script, phase, pc,  \* the script at hand, its main part or tearDown, the step
    mine,       \* what the script at hand has made or taken over
    missed,     \* what its failing commands did not remove
    astray,     \* where kubectl stayed when a switch failed in this run
    exit,       \* how the last script ended
    abandoned,  \* 1 once a script has ended without its tearDown
    starts, faults, sigints

bounds == <<starts, faults, sigints>>
vars   == <<objects, namespace, script, phase, pc, mine, missed, astray, exit,
            abandoned, bounds>>

None     == "none"
StepsOf(part) == CASE part = "main" -> script.main
                   [] part = "down" -> script.down
                   [] part = "off"  -> <<>>
Ended    == pc > Len(StepsOf(phase))
Now      == StepsOf(phase)[pc]

Exists(place) ==
    \/ <<Places, place>> \in objects
    \/ place \notin Transient
Place      == IF Now.at = Here THEN namespace ELSE Now.at
Targets    == {Place} \X Now.on
(* Removing a namespace or a cluster removes what is in it.                *)
Within(S)  == S \cup {o \in objects : <<Places, o[1]>> \in S}

TypeOK ==
    /\ namespace \in Namespaces /\ astray \subseteq Namespaces
    /\ phase \in {"off", "main", "down"}
    /\ phase # "off" => pc \in 1..(Len(StepsOf(phase)) + 1)
    /\ exit \in {None, "ok", "torn down", "gave up", "killed"}
    /\ abandoned \in {0, 1}
    /\ starts \in 0..MaxStarts /\ faults \in 0..MaxFaults /\ sigints \in 0..MaxSigints

Init ==
    /\ objects = {} /\ mine = {} /\ missed = {}
    /\ namespace = "default"
    /\ script = None /\ phase = "off" /\ pc = 1 /\ exit = None
    /\ astray = {} /\ abandoned = 0
    /\ starts = 0 /\ faults = 0 /\ sigints = 0

-----------------------------------------------------------------------------
Start ==
    /\ phase = "off" /\ starts < MaxStarts
    /\ starts' = starts + 1
    /\ \E s \in DOMAIN Book : Book[s].needs \subseteq objects /\ script' = Book[s]
    /\ phase' = "main" /\ pc' = 1 /\ exit' = None
    /\ mine' = {} /\ missed' = {} /\ astray' = {}
    /\ UNCHANGED <<objects, namespace, abandoned, faults, sigints>>

GoOn == pc' = pc + 1 /\ UNCHANGED <<phase, exit, abandoned>>
(* [[ $? != 0 ]] && exit 1                                                 *)
GiveUp == phase' = "off" /\ exit' = "gave up" /\ abandoned' = 1 /\ UNCHANGED pc

(* The command at hand does its work on the targets in S.                  *)
Work(S) ==
    CASE Now.op \in {"create", "listen"} ->
             objects' = objects \cup S /\ mine' = mine \cup (S \ objects)
      [] Now.op = "apply"  -> objects' = objects \cup S /\ mine' = mine \cup S
      [] Now.op = "delete" -> objects' = objects \ Within(S) /\ mine' = mine
      [] OTHER             -> UNCHANGED <<objects, mine>>

(* Nothing can be made in, or removed from, a place that does not exist;   *)
(* what is there already cannot be created, and a port that is taken       *)
(* cannot be listened on.                                                  *)
Taken    == \E o \in objects : o[1] = Place
Feasible == IF Exists(Place) /\ ~(Now.op = "listen" /\ Taken) THEN Targets ELSE {}
Refused  == \/ Now.op \in {"create", "apply"} /\ ~Exists(Place)
            \/ Now.op = "create" /\ Targets \cap objects # {}

Command ==
    /\ ~Ended /\ Now.op \in {"create", "listen", "apply", "delete"}
    /\ Work(Feasible)
    /\ IF Refused /\ Now.strict = 1 THEN GiveUp ELSE GoOn
    /\ UNCHANGED <<namespace, script, missed, astray, bounds>>

(* kubens refuses a namespace that does not exist.                         *)
SwitchNamespace ==
    /\ ~Ended /\ Now.op = "switch"
    /\ IF Exists(Now.at) THEN namespace' = Now.at /\ UNCHANGED astray
                         ELSE astray' = astray \cup {namespace} /\ UNCHANGED namespace
    /\ GoOn
    /\ UNCHANGED <<objects, script, mine, missed, bounds>>

(* A prerequisite that is met, a page shown, a loop whose condition holds. *)
Pass ==
    /\ ~Ended
    /\ \/ Now.op \in {"require", "show"}
       \/ Now.op = "await" /\ Targets \subseteq objects
       \/ Now.op = "await any" /\ Taken
    /\ GoOn
    /\ UNCHANGED <<objects, namespace, script, mine, missed, astray, bounds>>

(* Mutant: the call is forgotten, and the script ends.                     *)
CallTearDownForgotten ==
    /\ ~Ended /\ Now.op = "tear down"
    /\ phase' = "off" /\ exit' = "ok"
    /\ UNCHANGED <<objects, namespace, script, pc, mine, missed, astray,
                   abandoned, bounds>>

CallTearDown ==
    /\ ~Ended /\ Now.op = "tear down"
    /\ phase' = "down" /\ pc' = 1
    /\ UNCHANGED <<objects, namespace, script, mine, missed, astray, exit,
                   abandoned, bounds>>

(* The end of the script, or the exit 0 of its tearDown.                   *)
Exit ==
    /\ phase # "off" /\ Ended
    /\ phase' = "off" /\ exit' = IF phase = "down" THEN "torn down" ELSE "ok"
    /\ UNCHANGED <<objects, namespace, script, pc, mine, missed, astray,
                   abandoned, bounds>>

Run == Command \/ SwitchNamespace \/ Pass \/ CallTearDown \/ Exit

(* Mutant: the kubectl create are run one after the other, without &&.     *)
FailGoesOn ==
    /\ ~Ended /\ faults < MaxFaults
    /\ Now.op \in {"require", "create", "listen", "apply", "delete", "switch"}
    /\ faults' = faults + 1
    /\ \E S \in SUBSET Feasible :
          /\ Work(S)
          /\ missed' = IF Now.op = "delete" THEN missed \cup (Within(Targets) \ Within(S))
                                            ELSE missed
    /\ astray' = IF Now.op = "switch" THEN astray \cup {namespace} ELSE astray
    /\ GoOn
    /\ UNCHANGED <<namespace, script, starts, sigints>>

(* A command fails: part of its work may be done, and only a script that   *)
(* tests for it stops.                                                     *)
Fail ==
    /\ ~Ended /\ faults < MaxFaults
    /\ Now.op \in {"require", "create", "listen", "apply", "delete", "switch"}
    /\ faults' = faults + 1
    /\ \E S \in SUBSET Feasible :
          /\ Work(S)
          /\ missed' = IF Now.op = "delete" THEN missed \cup (Within(Targets) \ Within(S))
                                            ELSE missed
    /\ astray' = IF Now.op = "switch" THEN astray \cup {namespace} ELSE astray
    /\ IF Now.strict = 1 THEN GiveUp ELSE GoOn
    /\ UNCHANGED <<namespace, script, starts, sigints>>

(* Ctrl+C: the command at hand has done what it had time for.              *)
CutShort ==
    IF Ended THEN UNCHANGED <<objects, mine, namespace>>
    ELSE /\ \E S \in SUBSET Feasible : Work(S)
         /\ \/ UNCHANGED namespace
            \/ Now.op = "switch" /\ Exists(Now.at) /\ namespace' = Now.at

(* Mutants: tearDown is entered at the position of the script; a tearDown  *)
(* that is interrupted goes on with its next command.                      *)
InterruptKeepsPosition ==
    /\ phase # "off" /\ sigints < MaxSigints
    /\ sigints' = sigints + 1
    /\ CutShort
    /\ script.trap = 1 /\ phase' = "down"
    /\ UNCHANGED <<script, pc, missed, astray, exit, abandoned, starts, faults>>
InterruptSkips ==
    /\ phase # "off" /\ sigints < MaxSigints
    /\ sigints' = sigints + 1
    /\ CutShort
    /\ script.trap = 1 /\ phase' = "down"
    /\ pc' = IF phase = "main" THEN 1 ELSE IF Ended THEN pc ELSE pc + 1
    /\ UNCHANGED <<script, missed, astray, exit, abandoned, starts, faults>>

(* Then tearDown starts at its first command; a script without a trap      *)
(* dies.                                                                   *)
Interrupt ==
    /\ phase # "off" /\ sigints < MaxSigints
    /\ sigints' = sigints + 1
    /\ CutShort
    /\ \/ /\ script.trap = 1
          /\ phase' = "down" /\ pc' = 1
          /\ UNCHANGED <<exit, abandoned>>
       \/ /\ script.trap = 0
          /\ phase' = "off" /\ exit' = "killed" /\ abandoned' = 1
          /\ UNCHANGED pc
    /\ UNCHANGED <<script, missed, astray, starts, faults>>

Next == Start \/ Run \/ Fail \/ Interrupt

Spec == Init /\ [][Next]_vars

-----------------------------------------------------------------------------
(* Wherever Ctrl+C came, and however often, a script that got through its  *)
(* tearDown leaves nothing of its own: what stays is what a failing        *)
(* command did not remove, the volume claims that no chart removes, and    *)
(* what went where kubectl had stayed because kubens had failed.           *)
TornDownClean ==
    exit = "torn down" =>
        \A o \in mine \cap objects :
            \/ o \in missed
            \/ o[2] = "claims"
            \/ o[1] \in astray

(* The scripts do not stand in each other's way, whatever was interrupted  *)
(* before: none gives up unless a command failed, or kubectl was left in a *)
(* namespace that is gone.                                                 *)
NeverBarred ==
    exit = "gave up" => faults > 0 \/ ~Exists(namespace)

(* While nothing has failed, whatever a script waits for is there, and is  *)
(* its own.                                                                *)
Undisturbed == faults = 0 /\ abandoned = 0 /\ Exists(namespace)
NeverAwaitsInVain ==
    phase = "main" /\ ~Ended /\ Undisturbed =>
        /\ Now.op = "await" => Targets \subseteq objects \cap mine
        /\ Now.op = "await any" => \E o \in objects \cap mine : o[1] = Place

(* While nothing has failed a tearDown, which goes by names, removes only  *)
(* what its own script has made.                                           *)
RemovesOnlyItsOwn ==
    [][phase = "down" /\ Undisturbed => objects \ objects' \subseteq mine]_vars

(* Whatever failed or was interrupted, the webapp of DigitRecon is made    *)
(* only where checker-service is: it finds the checker by the environment  *)
(* its pods are started with, which names the services there are by then.  *)
WebappFindsChecker ==
    [][\A p \in {"default"} \cup Transient :
          <<p, "webapp-deployment">> \in objects' \ objects
              => <<p, "checker-service">> \in objects]_vars

(* e08-namespaces/run_all.sh:81 "Going back to defaul namespace": a script *)
(* that has ended leaves kubectl in the namespace it found it in.          *)
BackToDefault == phase = "off" => namespace = "default"
=============================================================================
