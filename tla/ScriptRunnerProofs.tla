-------------------------- MODULE ScriptRunnerProofs --------------------------
(***************************************************************************)
(* For any book of scripts, and any number of runs, failures and           *)
(* interrupts: the type invariant; if tearDowns name what their main parts *)
(* make (TidyAssumption), that a tearDown leaves nothing; if the webapp is *)
(* made only after its checker's service (ChainedAssumption), that the one *)
(* is never made without the other; if the scripts keep their names apart  *)
(* (ApartAssumption), that none bars another, or removes what another has  *)
(* made; and if they make what they wait for (AwaitedAssumption), that no  *)
(* loop waits in vain.                                                     *)
(***************************************************************************)
EXTENDS ScriptRunner, TLAPS

(* The script at hand is one of the book, and only a script that has a     *)
(* tearDown to call is in it.                                              *)
Scripted ==
    /\ TypeOK
    /\ pc \in Nat \ {0}
    /\ phase # "off" => /\ \E s \in DOMAIN Book : script = Book[s]
                        /\ exit = None
    /\ phase = "down" => TearsDown(script)

(* What exists is in a place that exists.                                  *)
Housed == \A o \in objects : o = <<o[1], o[2]>> /\ Exists(o[1])

(* kubectl is where the script has switched it to, if no switch failed.    *)
Follows ==
    phase = "main" =>
        \/ namespace \in astray
        \/ \A k \in 1..(pc - 1) : script.main[k].op # "switch"
        \/ \E k \in 1..(pc - 1) : /\ script.main[k].op = "switch"
                                  /\ script.main[k].at = namespace

(* The step removes the object.                                            *)
PlaceOf(step) == IF step.at = Here THEN namespace ELSE step.at
Kills(step, o) ==
    /\ step.op = "delete"
    /\ \/ o[2] \in step.on /\ o[1] = PlaceOf(step)
       \/ step.at = Places /\ o[1] \in step.on

(* What TornDownClean allows to stay.                                      *)
Excused(o) == o \in missed \/ (o[2] = "claims" /\ ClaimsHere(script)) \/ o[1] \in astray

(* Whatever the script has made, a step of its tearDown is still to come   *)
(* that removes it.                                                        *)
First == IF phase = "down" THEN pc ELSE 1
Covered ==
    phase # "off" /\ TearsDown(script) =>
        \A o \in mine \cap objects :
            Excused(o) \/ \E j \in First..Len(script.down) : Kills(script.down[j], o)

(* Between the create of the service and what it leads to, it is there.    *)
Chained ==
    phase # "off" =>
        \A k, i \in DOMAIN StepsOf(phase) :
            LeadsTo(StepsOf(phase), k, i) /\ k < pc /\ pc <= i =>
                <<PlaceOf(StepsOf(phase)[i]), "checker-service">> \in objects

RunnerInv == Scripted /\ Housed /\ Follows /\ Covered /\ Chained /\ TornDownClean

-----------------------------------------------------------------------------
(* The steps of a script.                                                  *)

StepType == [op : Ops, at : STRING, on : SUBSET STRING, strict : {0, 1}]

LEMMA Bounds == MaxStarts \in Nat /\ MaxFaults \in Nat /\ MaxSigints \in Nat
  BY RunnerAssumption

LEMMA BookSteps ==
    ASSUME NEW s \in DOMAIN Book, NEW steps \in {Book[s].main, Book[s].down}
    PROVE  /\ steps \in Seq(StepType) /\ Len(steps) \in Nat
           /\ DOMAIN steps = 1..Len(steps)
           /\ \A i \in 1..Len(steps) :
                 /\ steps[i] \in StepType
                 /\ steps[i].at = Places => steps[i].on \subseteq Transient
                 /\ steps[i].op = "switch" => steps[i].at \in Namespaces
<1>1. steps \in Seq(StepType)
    BY RunnerAssumption DEF StepType
<1>2. Len(steps) \in Nat /\ DOMAIN steps = 1..Len(steps)
    BY <1>1
<1>3. \A i \in 1..Len(steps) : steps[i] \in StepType
    BY <1>1
<1>4. \A i \in DOMAIN steps :
          /\ steps[i].at = Places => steps[i].on \subseteq Transient
          /\ steps[i].op = "switch" => steps[i].at \in Namespaces
    BY RunnerAssumption
<1>5. QED BY <1>1, <1>2, <1>3, <1>4

(* The sequence at hand and its current step.                              *)
LEMMA AtHand ==
    ASSUME Scripted
    PROVE  /\ phase \in {"off", "main", "down"} /\ pc \in Nat \ {0}
           /\ phase = "off" => Ended
           /\ phase = "main" => StepsOf(phase) = script.main
           /\ phase = "down" => StepsOf(phase) = script.down
           /\ Len(StepsOf(phase)) \in Nat
           /\ phase # "off" => /\ DOMAIN StepsOf(phase) = 1..Len(StepsOf(phase))
                               /\ DOMAIN script.main = 1..Len(script.main)
                               /\ DOMAIN script.down = 1..Len(script.down)
                               /\ Len(script.main) \in Nat /\ Len(script.down) \in Nat
           /\ ~Ended => /\ phase # "off"
                        /\ pc \in 1..Len(StepsOf(phase))
                        /\ Now = StepsOf(phase)[pc] /\ Now \in StepType
                        /\ Now.at = Places => Now.on \subseteq Transient
                        /\ Now.op = "switch" => Now.at \in Namespaces
<1>1. phase \in {"off", "main", "down"} /\ pc \in Nat \ {0}
    BY DEF Scripted, TypeOK
<1>2. CASE phase = "off"
    <2>1. StepsOf(phase) = <<>> /\ Len(StepsOf(phase)) = 0
        BY <1>2 DEF StepsOf
    <2>2. Ended
        BY <1>1, <2>1 DEF Ended
    <2>3. QED BY <1>1, <1>2, <2>1, <2>2
<1>3. CASE phase # "off"
    <2>1. PICK s \in DOMAIN Book : script = Book[s]
        BY <1>3 DEF Scripted
    <2>2. /\ phase = "main" => StepsOf(phase) = Book[s].main
          /\ phase = "down" => StepsOf(phase) = Book[s].down
        BY <2>1 DEF StepsOf
    <2>3. StepsOf(phase) \in {Book[s].main, Book[s].down}
        BY <1>1, <1>3, <2>2
    <2>4. /\ Len(StepsOf(phase)) \in Nat
          /\ DOMAIN StepsOf(phase) = 1..Len(StepsOf(phase))
          /\ \A i \in 1..Len(StepsOf(phase)) :
                 /\ StepsOf(phase)[i] \in StepType
                 /\ StepsOf(phase)[i].at = Places => StepsOf(phase)[i].on \subseteq Transient
                 /\ StepsOf(phase)[i].op = "switch" => StepsOf(phase)[i].at \in Namespaces
        BY <2>3, BookSteps
    <2>5. ~Ended => pc \in 1..Len(StepsOf(phase))
        BY <1>1, <2>4 DEF Ended
    <2>6. /\ DOMAIN script.main = 1..Len(script.main) /\ Len(script.main) \in Nat
          /\ DOMAIN script.down = 1..Len(script.down) /\ Len(script.down) \in Nat
        BY <2>1, BookSteps
    <2>7. ~Ended => /\ Now \in StepType
                    /\ Now.at = Places => Now.on \subseteq Transient
                    /\ Now.op = "switch" => Now.at \in Namespaces
        BY <2>4, <2>5 DEF Now
    <2>8. QED BY <1>1, <1>3, <2>1, <2>2, <2>4, <2>5, <2>6, <2>7 DEF Now
<1>4. QED BY <1>2, <1>3

(* The script at hand is tidy.                                             *)
LEMMA TidyAtHand ==
    ASSUME Scripted, phase # "off", TearsDown(script)
    PROVE  Tidy(script)
  BY TidyAssumption DEF Scripted

LEMMA NamespacesAndPlaces ==
    /\ Places \notin Transient /\ Places \notin Namespaces /\ Places # Here
    /\ Here \notin Namespaces /\ "default" \notin Transient
  BY RunnerAssumption DEF Namespaces, Places, Here

(* What the command at hand may work on.                                   *)
LEMMA Workable ==
    /\ Feasible \subseteq Targets
    /\ \A o \in Targets : o = <<Place, o[2]>> /\ o[1] = Place /\ o[2] \in Now.on
    /\ \A o \in Feasible : Exists(Place)
    /\ Exists(Place) /\ Now.op # "listen" => Feasible = Targets
    /\ Place = PlaceOf(Now)
  BY DEF Feasible, Targets, Place, PlaceOf

LEMMA WorkDone ==
    ASSUME NEW S, Work(S), Scripted, ~Ended
    PROVE  \/ /\ Now.op \in Makes
              /\ objects' = objects \cup S
              /\ mine \subseteq mine' /\ mine' \subseteq mine \cup S
              /\ objects' \ objects \subseteq mine'
           \/ /\ Now.op = "delete"
              /\ objects' = objects \ Within(S) /\ mine' = mine
           \/ /\ Now.op \notin Makes \cup {"delete"}
              /\ UNCHANGED <<objects, mine>>
<1>1. CASE Now.op \in {"create", "listen"}
    <2>1. objects' = objects \cup S /\ mine' = mine \cup (S \ objects)
        BY <1>1 DEF Work
    <2>2. QED BY <1>1, <2>1 DEF Makes
<1>2. CASE Now.op = "apply"
    <2>1. objects' = objects \cup S /\ mine' = mine \cup S
        BY <1>2 DEF Work
    <2>2. QED BY <1>2, <2>1 DEF Makes
<1>3. CASE Now.op = "delete"
    BY <1>3 DEF Work
<1>4. CASE Now.op \notin {"create", "listen", "apply", "delete"}
    <2>1. UNCHANGED <<objects, mine>>
        BY <1>4 DEF Work
    <2>2. QED BY <1>4, <2>1 DEF Makes
<1>5. QED BY <1>1, <1>2, <1>3, <1>4

(* Only a command at hand changes what exists.                             *)
LEMMA Effects ==
    ASSUME Next
    PROVE  \/ UNCHANGED objects
           \/ ~Ended /\ \E S \in SUBSET Feasible : Work(S)
<1>1. CASE Command
    BY <1>1 DEF Command
<1>2. CASE Fail
    BY <1>2 DEF Fail
<1>3. CASE Interrupt
    BY <1>3 DEF Interrupt, CutShort
<1>4. CASE Start \/ SwitchNamespace \/ Pass \/ CallTearDown \/ Exit
    BY <1>4 DEF Start, SwitchNamespace, Pass, CallTearDown, Exit
<1>5. QED BY <1>1, <1>2, <1>3, <1>4 DEF Next, Run

-----------------------------------------------------------------------------
(* What every step leaves of the script and its position.                  *)

LEMMA NextPosition ==
    ASSUME Scripted, ~Ended
    PROVE  pc + 1 \in 1..(Len(StepsOf(phase)) + 1) /\ pc + 1 \in Nat \ {0}
<1>1. pc \in 1..Len(StepsOf(phase)) /\ Len(StepsOf(phase)) \in Nat
    BY AtHand
<1>2. QED BY <1>1

(* A command that goes on, or gives up.                                    *)
LEMMA GoesOn ==
    ASSUME Scripted, ~Ended, GoOn \/ GiveUp, script' = script,
           namespace' \in Namespaces, astray' \subseteq Namespaces,
           starts' \in 0..MaxStarts, faults' \in 0..MaxFaults, sigints' \in 0..MaxSigints
    PROVE  Scripted'
<1>1. TypeOK /\ pc \in Nat \ {0} /\ phase # "off" /\ exit = None
    BY AtHand DEF Scripted
<1>2. CASE GoOn
    <2>1. phase' = phase /\ pc' = pc + 1 /\ UNCHANGED <<exit, abandoned>>
        BY <1>2 DEF GoOn
    <2>2. StepsOf(phase') = StepsOf(phase) /\ StepsOf(phase)' = StepsOf(phase)
        BY <2>1 DEF StepsOf
    <2>3. pc' \in 1..(Len(StepsOf(phase)) + 1) /\ pc' \in Nat \ {0}
        BY <2>1, NextPosition
    <2>4. TypeOK'
        BY <1>1, <2>1, <2>2, <2>3 DEF TypeOK
    <2>5. QED BY <1>1, <2>1, <2>3, <2>4 DEF Scripted
<1>3. CASE GiveUp
    <2>1. phase' = "off" /\ exit' = "gave up" /\ abandoned' = 1 /\ pc' = pc
        BY <1>3 DEF GiveUp
    <2>2. TypeOK'
        BY <1>1, <2>1 DEF TypeOK
    <2>3. QED BY <1>1, <2>1, <2>2 DEF Scripted
<1>4. QED BY <1>2, <1>3

(* A tearDown that begins, or begins again.                                *)
LEMMA GoesDown ==
    ASSUME Scripted, phase # "off", TearsDown(script), phase' = "down", pc' = 1,
           UNCHANGED <<script, exit, abandoned>>,
           namespace' \in Namespaces, astray' \subseteq Namespaces,
           starts' \in 0..MaxStarts, faults' \in 0..MaxFaults, sigints' \in 0..MaxSigints
    PROVE  Scripted'
<1>1. StepsOf(phase)' = script.down /\ Len(script.down) \in Nat
    BY AtHand DEF StepsOf
<1>2. pc' \in 1..(Len(StepsOf(phase)') + 1)
    BY <1>1
<1>3. TypeOK'
    BY <1>2 DEF Scripted, TypeOK
<1>4. TearsDown(script)'
    BY DEF TearsDown
<1>5. (\E s \in DOMAIN Book : script = Book[s])' /\ exit' = None
    BY DEF Scripted
<1>6. QED BY <1>3, <1>4, <1>5 DEF Scripted

LEMMA ScriptedStep ==
    ASSUME Scripted, [Next]_vars
    PROVE  Scripted'
<1> USE Bounds
<1>1. /\ TypeOK /\ pc \in Nat \ {0}
      /\ namespace \in Namespaces /\ astray \subseteq Namespaces
      /\ starts \in 0..MaxStarts /\ faults \in 0..MaxFaults /\ sigints \in 0..MaxSigints
    BY DEF Scripted, TypeOK
<1>2. CASE Start
    <2>1. PICK s \in DOMAIN Book : script' = Book[s]
        BY <1>2 DEF Start
    <2>2. /\ starts' \in 0..MaxStarts /\ phase' = "main" /\ pc' = 1 /\ exit' = None
          /\ astray' = {} /\ UNCHANGED <<namespace, abandoned, faults, sigints>>
        BY <1>1, <1>2 DEF Start
    <2>3. StepsOf(phase)' = Book[s].main
        BY <2>1, <2>2 DEF StepsOf
    <2>4. Len(StepsOf(phase)') \in Nat
        BY <2>3, BookSteps
    <2>5. pc' \in 1..(Len(StepsOf(phase)') + 1)
        BY <2>2, <2>4
    <2>6. TypeOK'
        BY <1>1, <2>2, <2>5 DEF TypeOK, None
    <2>7. QED BY <2>1, <2>2, <2>6 DEF Scripted
<1>3. CASE Command
    <2>1. /\ ~Ended /\ (GoOn \/ GiveUp) /\ script' = script
          /\ UNCHANGED <<namespace, astray, bounds>>
        BY <1>3 DEF Command
    <2>2. QED BY <1>1, <1>3, <2>1, GoesOn DEF Command, bounds
<1>4. CASE SwitchNamespace
    <2>1. ~Ended /\ Now.at \in Namespaces
        BY <1>4, AtHand DEF SwitchNamespace
    <2>2. namespace' \in Namespaces /\ astray' \subseteq Namespaces
        BY <1>1, <1>4, <2>1 DEF SwitchNamespace
    <2>3. GoOn /\ script' = script /\ UNCHANGED bounds
        BY <1>4 DEF SwitchNamespace
    <2>4. QED BY <1>1, <2>1, <2>2, <2>3, GoesOn DEF bounds
<1>5. CASE Pass
    BY <1>1, <1>5, GoesOn DEF Pass, bounds
<1>6. CASE CallTearDown
    <2>1. /\ ~Ended /\ Now.op = "tear down" /\ phase' = "down" /\ pc' = 1
          /\ UNCHANGED <<script, exit, abandoned, namespace, astray, bounds>>
        BY <1>6 DEF CallTearDown
    <2>2. phase \in {"main", "down"} /\ pc \in 1..Len(StepsOf(phase)) /\ Now = StepsOf(phase)[pc]
        BY <2>1, AtHand
    <2>3. CASE phase = "main"
        <3>1. pc \in DOMAIN script.main /\ script.main[pc].op = "tear down"
            BY <2>1, <2>2, <2>3, AtHand
        <3>2. TearsDown(script)
            BY <3>1 DEF TearsDown
        <3>3. QED BY <1>1, <2>1, <2>2, <3>2, GoesDown DEF bounds
    <2>4. CASE phase = "down"
        <3>1. TearsDown(script)
            BY <2>4 DEF Scripted
        <3>2. QED BY <1>1, <2>1, <2>2, <3>1, GoesDown DEF bounds
    <2>5. QED BY <2>2, <2>3, <2>4
<1>7. CASE Exit
    <2>1. /\ phase' = "off" /\ exit' \in {"torn down", "ok"}
          /\ UNCHANGED <<namespace, script, pc, astray, abandoned, bounds>>
        BY <1>7 DEF Exit
    <2>2. TypeOK'
        BY <1>1, <2>1 DEF TypeOK, bounds
    <2>3. QED BY <1>1, <2>1, <2>2 DEF Scripted
<1>8. CASE Fail
    <2>1. ~Ended /\ (GoOn \/ GiveUp) /\ UNCHANGED <<namespace, script, starts, sigints>>
        BY <1>8 DEF Fail
    <2>2. astray' \subseteq Namespaces /\ faults' \in 0..MaxFaults
        BY <1>1, <1>8 DEF Fail
    <2>3. QED BY <1>1, <2>1, <2>2, GoesOn
<1>9. CASE Interrupt
    <2>1. /\ phase # "off" /\ sigints' \in 0..MaxSigints
          /\ UNCHANGED <<script, astray, starts, faults>>
        BY <1>1, <1>9 DEF Interrupt
    <2>2. namespace' \in Namespaces
        BY <1>1, <1>9, AtHand DEF Interrupt, CutShort
    <2>3. CASE script.trap = 1 /\ phase' = "down" /\ pc' = 1 /\ UNCHANGED <<exit, abandoned>>
        <3>1. TearsDown(script)
            BY <2>3 DEF TearsDown
        <3>2. QED BY <1>1, <2>1, <2>2, <2>3, <3>1, GoesDown
    <2>4. CASE phase' = "off" /\ exit' = "killed" /\ abandoned' = 1 /\ UNCHANGED pc
        <3>1. TypeOK'
            BY <1>1, <2>1, <2>2, <2>4 DEF TypeOK
        <3>2. QED BY <1>1, <2>4, <3>1 DEF Scripted
    <2>5. QED BY <1>9, <2>3, <2>4 DEF Interrupt
<1>10. CASE UNCHANGED vars
    BY <1>10 DEF vars, bounds, Scripted, TypeOK, StepsOf, TearsDown
<1>11. QED
    BY <1>2, <1>3, <1>4, <1>5, <1>6, <1>7, <1>8, <1>9, <1>10 DEF Next, Run

-----------------------------------------------------------------------------
(* What exists is housed: things are made only in places that exist, and   *)
(* what removes a place removes what is in it.                             *)

LEMMA HousedStep ==
    ASSUME Scripted, Housed, [Next]_vars
    PROVE  Housed'
<1>1. CASE UNCHANGED objects
    BY <1>1 DEF Housed, Exists
<1>2. ASSUME ~Ended, NEW S \in SUBSET Feasible, Work(S)
      PROVE  Housed'
    <2>1. CASE objects' = objects \cup S
        <3>1. \A place : Exists(place) => Exists(place)'
            BY <2>1 DEF Exists
        <3>2. \A o \in S : o = <<o[1], o[2]>> /\ Exists(o[1])
            BY <1>2, Workable
        <3>3. QED BY <2>1, <3>1, <3>2 DEF Housed
    <2>2. CASE Now.op = "delete" /\ objects' = objects \ Within(S)
        <3>1. ASSUME NEW place, <<Places, place>> \in S
              PROVE  place # Places
            <4>1. Place = Places /\ place \in Now.on
                BY <3>1, <1>2, Workable
            <4>2. Now.at = Places
                BY <4>1, NamespacesAndPlaces DEF Place, Scripted, TypeOK
            <4>3. Now.on \subseteq Transient
                BY <1>2, <4>2, AtHand
            <4>4. QED BY <4>1, <4>3, NamespacesAndPlaces
        <3>2. ASSUME NEW o \in objects'
              PROVE  o = <<o[1], o[2]>> /\ Exists(o[1])'
            <4>1. o \in objects /\ o \notin Within(S)
                BY <2>2
            <4>2. o = <<o[1], o[2]>> /\ Exists(o[1])
                BY <4>1 DEF Housed
            <4>3. CASE <<Places, o[1]>> \in objects
                <5> DEFINE p == <<Places, o[1]>>
                <5>1. p[1] = Places
                    OBVIOUS
                <5>2. <<Places, o[1]>> \notin S
                    BY <4>1 DEF Within
                <5>3. <<Places, Places>> \notin S
                    BY <3>1
                <5>4. p \notin Within(S)
                    BY <5>1, <5>2, <5>3 DEF Within
                <5>5. <<Places, o[1]>> \in objects'
                    BY <2>2, <4>3, <5>4
                <5>6. QED BY <4>2, <5>5 DEF Exists
            <4>4. CASE o[1] \notin Transient
                BY <4>2, <4>4 DEF Exists
            <4>5. QED BY <4>2, <4>3, <4>4 DEF Exists
        <3>3. QED BY <3>2 DEF Housed
    <2>3. QED BY <1>1, <1>2, <2>1, <2>2, WorkDone
<1>3. CASE UNCHANGED vars
    BY <1>1, <1>3 DEF vars
<1>4. QED BY <1>1, <1>2, <1>3, Effects

-----------------------------------------------------------------------------
(* kubectl follows the switches of the script.                             *)

LEMMA FollowsStep ==
    ASSUME Scripted, Follows, [Next]_vars
    PROVE  Follows'
<1> SUFFICES ASSUME phase' = "main"
             PROVE  \/ namespace' \in astray'
                    \/ \A k \in 1..(pc' - 1) : script'.main[k].op # "switch"
                    \/ \E k \in 1..(pc' - 1) : /\ script'.main[k].op = "switch"
                                               /\ script'.main[k].at = namespace'
    BY DEF Follows
<1>1. CASE Start
    BY <1>1 DEF Start
<1>2. CASE UNCHANGED vars
    BY <1>2 DEF vars, Follows
<1>3. ASSUME ~Ended, GoOn, script' = script, astray \subseteq astray',
             Now.op # "switch" => UNCHANGED namespace,
             Now.op = "switch" => namespace' = Now.at \/ (namespace' = namespace /\ namespace \in astray')
      PROVE  \/ namespace' \in astray'
             \/ \A k \in 1..(pc' - 1) : script'.main[k].op # "switch"
             \/ \E k \in 1..(pc' - 1) : /\ script'.main[k].op = "switch"
                                        /\ script'.main[k].at = namespace'
    <2>1. phase = "main" /\ pc' = pc + 1 /\ pc \in Nat \ {0}
        BY <1>3, AtHand DEF GoOn
    <2>2. Now = script.main[pc]
        BY <1>3, <2>1, AtHand
    <2>3. 1..(pc' - 1) = 1..(pc - 1) \cup {pc}
        BY <2>1
    <2>4. QED BY <1>3, <2>1, <2>2, <2>3 DEF Follows
<1>4. CASE Command
    BY <1>3, <1>4 DEF Command, GiveUp
<1>5. CASE SwitchNamespace
    BY <1>3, <1>5 DEF SwitchNamespace
<1>6. CASE Pass
    BY <1>3, <1>6 DEF Pass
<1>7. CASE CallTearDown \/ Exit \/ Interrupt
    BY <1>7 DEF CallTearDown, Exit, Interrupt
<1>8. CASE Fail
    BY <1>3, <1>8 DEF Fail, GiveUp
<1>9. QED BY <1>1, <1>2, <1>4, <1>5, <1>6, <1>7, <1>8 DEF Next, Run

-----------------------------------------------------------------------------
(* The webapp and the service of its checker.                              *)

LEMMA Positions ==
    Scripted /\ phase # "off" =>
        DOMAIN StepsOf(phase) = 1..Len(StepsOf(phase)) /\ Len(StepsOf(phase)) \in Nat
  BY AtHand

LEMMA ChainedStep ==
    ASSUME Scripted, Chained, [Next]_vars
    PROVE  Chained'
<1> SUFFICES ASSUME phase' # "off",
                    NEW k \in DOMAIN StepsOf(phase)', NEW i \in DOMAIN StepsOf(phase)',
                    LeadsTo(StepsOf(phase)', k, i), k < pc', pc' <= i
             PROVE  <<PlaceOf(StepsOf(phase)[i])', "checker-service">> \in objects'
    BY DEF Chained
<1>1. Scripted' /\ DOMAIN StepsOf(phase)' = 1..Len(StepsOf(phase)')
    <2>1. Scripted'
        BY ScriptedStep
    <2>2. (Scripted /\ phase # "off" =>
              DOMAIN StepsOf(phase) = 1..Len(StepsOf(phase)) /\ Len(StepsOf(phase)) \in Nat)'
        BY Positions, PTL
    <2>3. QED BY <2>1, <2>2
<1>2. k \in Nat /\ k >= 1
    BY <1>1
<1>3. CASE Start \/ CallTearDown \/ Interrupt
    <2>1. pc' = 1
        BY <1>3 DEF Start, CallTearDown, Interrupt
    <2>2. QED BY <1>2, <2>1
<1>4. CASE Exit
    BY <1>4 DEF Exit
<1>5. CASE UNCHANGED vars
    <2>1. UNCHANGED <<phase, pc, script, namespace, objects>>
        BY <1>5 DEF vars
    <2>2. StepsOf(phase)' = StepsOf(phase)
        BY <2>1 DEF StepsOf
    <2>3. PlaceOf(StepsOf(phase)[i])' = PlaceOf(StepsOf(phase)[i])
        BY <2>1, <2>2 DEF PlaceOf
    <2>4. QED BY <2>1, <2>2, <2>3 DEF Chained
<1>6. ASSUME ~Ended, GoOn, UNCHANGED script, Now.op # "switch" => UNCHANGED namespace,
             NEW S \in SUBSET Feasible, Work(S),
             Now.op = "create" /\ Now.strict = 1 => S = Targets
      PROVE  <<PlaceOf(StepsOf(phase)[i])', "checker-service">> \in objects'
    <2> DEFINE steps == StepsOf(phase)
    <2>1. phase' = phase /\ pc' = pc + 1 /\ steps' = steps
        BY <1>6 DEF GoOn, StepsOf
    <2>2. /\ pc \in Nat \ {0} /\ DOMAIN steps = 1..Len(steps) /\ Len(steps) \in Nat
          /\ Now = steps[pc] /\ pc \in 1..Len(steps)
        BY <1>6, AtHand
    <2>3. /\ LeadsTo(steps, k, i) /\ k \in DOMAIN steps /\ i \in DOMAIN steps
          /\ k <= pc /\ pc <= i /\ i \in Nat
        BY <1>2, <2>1, <2>2
    <2> HIDE DEF steps
    <2>4. Now.op \notin {"delete", "switch", "tear down"}
        <3>1. pc \in k..i
            BY <1>2, <2>2, <2>3
        <3>2. QED BY <2>2, <2>3, <3>1 DEF LeadsTo
    <2>5. UNCHANGED namespace /\ PlaceOf(steps[i])' = PlaceOf(steps[i])
        BY <1>6, <2>1, <2>4 DEF PlaceOf
    <2>6. objects \subseteq objects'
        BY <1>6, <2>4, WorkDone
    <2>7. CASE k < pc
        BY <2>1, <2>2, <2>3, <2>5, <2>6, <2>7, <1>6, AtHand DEF Chained, steps
    <2>8. CASE k = pc
        <3>1. /\ Now.op = "create" /\ Now.strict = 1 /\ "checker-service" \in Now.on
              /\ Now.at = steps[i].at
            BY <2>2, <2>3, <2>8 DEF LeadsTo
        <3>2. PlaceOf(steps[i]) = Place
            BY <3>1 DEF PlaceOf, Place
        <3>3. <<Place, "checker-service">> \in S
            BY <1>6, <3>1 DEF Targets
        <3>4. objects' = objects \cup S
            BY <1>6, <3>1, WorkDone DEF Makes
        <3>5. QED BY <2>5, <3>2, <3>3, <3>4, <2>1 DEF steps
    <2>9. QED BY <1>2, <2>2, <2>3, <2>7, <2>8
<1>7. CASE Command
    <2>1. ~Ended /\ Work(Feasible) /\ UNCHANGED <<namespace, script>>
        BY <1>7 DEF Command
    <2>2. GoOn /\ ~(Refused /\ Now.strict = 1)
        BY <1>7 DEF Command, GiveUp
    <2>3. Now.op = "create" /\ Now.strict = 1 => Feasible = Targets
        BY <2>2, Workable DEF Refused
    <2>4. QED BY <1>6, <2>1, <2>2, <2>3
<1>8. CASE SwitchNamespace \/ Pass
    <2>1. /\ ~Ended /\ GoOn /\ UNCHANGED <<script, objects, mine>>
          /\ Now.op \in {"switch", "require", "show", "await", "await any"}
          /\ Now.op # "switch" => UNCHANGED namespace
        BY <1>8 DEF SwitchNamespace, Pass
    <2>2. {} \in SUBSET Feasible /\ Work({})
        BY <2>1 DEF Work
    <2>3. QED BY <1>6, <2>1, <2>2
<1>9. CASE Fail
    <2>1. ~Ended /\ GoOn /\ Now.strict # 1 /\ UNCHANGED <<namespace, script>>
        BY <1>9 DEF Fail, GiveUp
    <2>2. PICK S \in SUBSET Feasible : Work(S)
        BY <1>9 DEF Fail
    <2>3. QED BY <1>6, <2>1, <2>2
<1>10. QED
    BY <1>3, <1>4, <1>5, <1>7, <1>8, <1>9 DEF Next, Run

-----------------------------------------------------------------------------
(* What the main part makes, its tearDown removes.                         *)

LEMMA MadeIsCovered ==
    ASSUME Scripted, Follows, ~Ended, phase = "main", TearsDown(script),
           Now.op \in Makes, NEW o \in Targets
    PROVE  Excused(o) \/ \E j \in 1..Len(script.down) : Kills(script.down[j], o)
<1>1. o[1] = Place /\ o[2] \in Now.on /\ Place = PlaceOf(Now)
    BY Workable
<1>2. /\ Now = script.main[pc] /\ pc \in DOMAIN script.main /\ pc \in Nat \ {0}
      /\ DOMAIN script.down = 1..Len(script.down)
    BY AtHand
<1>3. Tidy(script)
    BY TidyAtHand
<1> DEFINE claimed == o[2] = "claims" /\ Now.at = Here
<1>4. CASE claimed
    <2>1. pc \in Making(script)
        BY <1>2 DEF Making
    <2>2. ClaimsHere(script)
        BY <1>1, <1>2, <1>4, <2>1 DEF ClaimsHere
    <2>3. QED BY <1>4, <2>2 DEF Excused
<1>5. CASE ~claimed
    <2>1. Removes(script, pc, o[2])
        BY <1>1, <1>2, <1>3, <1>5 DEF Tidy, Making
    <2>2. ASSUME NEW place, RemovesPlace(script, place), o[1] = place
          PROVE  \E j \in 1..Len(script.down) : Kills(script.down[j], o)
        BY <1>2, <2>2 DEF RemovesPlace, Kills
    <2>3. CASE \E j \in DOMAIN script.down :
                   /\ script.down[j].op = "delete" /\ o[2] \in script.down[j].on
                   /\ script.down[j].at = script.main[pc].at
        BY <1>1, <1>2, <2>3 DEF Kills, PlaceOf
    <2>4. CASE script.main[pc].at # Here /\ RemovesPlace(script, script.main[pc].at)
        BY <1>1, <1>2, <2>2, <2>4 DEF PlaceOf
    <2>5. CASE /\ script.main[pc].at = Here
               /\ \E k \in 1..(pc - 1) : script.main[k].op = "switch"
               /\ \A k \in 1..(pc - 1) :
                     script.main[k].op = "switch" => RemovesPlace(script, script.main[k].at)
        <3>1. o[1] = namespace
            BY <1>1, <1>2, <2>5 DEF PlaceOf
        <3>2. CASE namespace \in astray
            BY <3>1, <3>2 DEF Excused
        <3>3. CASE namespace \notin astray
            <4>1. PICK k \in 1..(pc - 1) : /\ script.main[k].op = "switch"
                                           /\ script.main[k].at = namespace
                BY <2>5, <3>3 DEF Follows
            <4>2. RemovesPlace(script, namespace)
                BY <2>5, <4>1
            <4>3. QED BY <2>2, <3>1, <4>2
        <3>4. QED BY <3>2, <3>3
    <2>6. QED BY <2>1, <2>3, <2>4, <2>5 DEF Removes
<1>6. QED BY <1>4, <1>5

(* What a step of tearDown would remove does not depend on where kubectl   *)
(* is, or kubectl stays there.                                             *)
LEMMA KillsStay ==
    ASSUME Scripted, phase # "off", TearsDown(script), UNCHANGED script,
           UNCHANGED namespace \/ (~Ended /\ Now.op = "switch"),
           NEW j \in 1..Len(script.down), NEW o, Kills(script.down[j], o)
    PROVE  Kills(script.down[j], o)'
<1>1. Tidy(script) /\ j \in DOMAIN script.down
    BY TidyAtHand, AtHand
<1>2. CASE UNCHANGED namespace
    BY <1>2 DEF Kills, PlaceOf
<1>3. CASE ~Ended /\ Now.op = "switch"
    <2>1. /\ phase = "main" => pc \in DOMAIN script.main /\ script.main[pc].op = "switch"
          /\ phase = "down" => pc \in DOMAIN script.down /\ script.down[pc].op = "switch"
          /\ phase \in {"main", "down"}
        BY <1>3, AtHand
    <2>2. Switches(script)
        BY <2>1 DEF Switches
    <2>3. script.down[j].at # Here
        BY <1>1, <2>2 DEF Tidy, Kills
    <2>4. QED BY <2>3 DEF Kills, PlaceOf
<1>4. QED BY <1>2, <1>3

(* A step of tearDown at hand removes what it is to remove, and a failing  *)
(* one has missed what it leaves.                                          *)
LEMMA DeleteRemoves ==
    ASSUME Scripted, Housed, ~Ended, NEW o \in objects, Kills(Now, o)
    PROVE  o \in Within(Targets) /\ o \in Within(Feasible)
<1>1. Now.op = "delete" /\ Place = PlaceOf(Now) /\ o = <<o[1], o[2]>> /\ Exists(o[1])
    BY Workable DEF Kills, Housed
<1>2. CASE o[2] \in Now.on /\ o[1] = PlaceOf(Now)
    <2>1. o \in Targets
        BY <1>1, <1>2 DEF Targets
    <2>2. Feasible = Targets
        BY <1>1, <1>2, Workable
    <2>3. QED BY <2>1, <2>2 DEF Within
<1>3. CASE Now.at = Places /\ o[1] \in Now.on
    <2>1. Place = Places /\ <<Places, o[1]>> \in Targets
        BY <1>3, NamespacesAndPlaces DEF Place, Targets
    <2>2. Exists(Place)
        BY <2>1, NamespacesAndPlaces DEF Exists
    <2>3. Feasible = Targets
        BY <1>1, <2>2, Workable
    <2>4. QED BY <2>1, <2>3 DEF Within
<1>4. QED BY <1>2, <1>3 DEF Kills

LEMMA ExcusedStays ==
    ASSUME NEW o, Excused(o), UNCHANGED script,
           missed \subseteq missed', astray \subseteq astray'
    PROVE  Excused(o)'
  BY DEF Excused, ClaimsHere, Making

(* A step of tearDown leaves to the steps after it what it does not do.    *)
LEMMA CoveredOn ==
    ASSUME Scripted, Covered, ~Ended, GoOn, UNCHANGED script,
           UNCHANGED namespace \/ Now.op = "switch",
           missed \subseteq missed', astray \subseteq astray',
           \A o \in mine' \cap objects' :
               \/ o \in mine \cap objects
               \/ phase = "main" /\ o \in Targets /\ Now.op \in Makes,
           phase = "down" =>
               \A o \in mine' \cap objects' : Kills(Now, o) => o \in missed',
           Follows
    PROVE  Covered'
<1> SUFFICES ASSUME TearsDown(script), NEW o \in mine' \cap objects', ~Excused(o)'
             PROVE  \E j \in First'..Len(script.down) : Kills(script.down[j], o)'
    BY DEF Covered, TearsDown
<1>1. /\ phase' = phase /\ pc' = pc + 1 /\ phase \in {"main", "down"}
      /\ pc \in Nat \ {0} /\ Len(script.down) \in Nat
    BY AtHand DEF GoOn
<1>2. ~Excused(o)
    BY ExcusedStays
<1>3. PICK j \in First..Len(script.down) : Kills(script.down[j], o)
    <2>1. CASE o \in mine \cap objects
        BY <1>1, <1>2, <2>1 DEF Covered
    <2>2. CASE phase = "main" /\ o \in Targets /\ Now.op \in Makes
        BY <1>2, <2>2, MadeIsCovered DEF First
    <2>3. QED BY <2>1, <2>2
<1>4. j \in 1..Len(script.down)
    BY <1>1, <1>3 DEF First
<1>5. Kills(script.down[j], o)'
    BY <1>1, <1>3, <1>4, KillsStay
<1>6. CASE phase = "main"
    <2>1. First' = 1
        BY <1>1, <1>6 DEF First
    <2>2. QED BY <1>4, <1>5, <2>1
<1>7. CASE phase = "down"
    <2>1. Now = script.down[pc] /\ First = pc /\ First' = pc + 1
        BY <1>1, <1>7, AtHand DEF First
    <2>2. j # pc
        BY <1>3, <1>7, <2>1 DEF Excused
    <2>3. j \in First'..Len(script.down)
        BY <1>1, <1>3, <2>1, <2>2
    <2>4. QED BY <1>5, <2>3
<1>8. QED BY <1>1, <1>6, <1>7

LEMMA CoveredStep ==
    ASSUME Scripted, Housed, Follows, Covered, [Next]_vars
    PROVE  Covered'
<1>1. CASE Start
    BY <1>1 DEF Start, Covered
<1>2. CASE phase' = "off"
    BY <1>2 DEF Covered
<1>3. CASE UNCHANGED vars
    BY <1>3 DEF vars, Covered, TearsDown, First, Excused, ClaimsHere, Making, Kills, PlaceOf
(* In a tearDown nothing is made.                                          *)
<1>4. ASSUME ~Ended, phase = "down", TearsDown(script)
      PROVE  Now.op \notin Makes \cup {"tear down"}
    <2>1. Tidy(script) /\ pc \in DOMAIN script.down /\ Now = script.down[pc]
        BY <1>4, AtHand, TidyAtHand
    <2>2. QED BY <2>1 DEF Tidy
<1>5. ASSUME ~Ended, GoOn, UNCHANGED <<script, namespace>>,
             missed \subseteq missed', astray \subseteq astray',
             NEW S \in SUBSET Feasible, Work(S),
             Now.op = "delete" => Within(Targets) \subseteq Within(S) \cup missed'
                                  \/ S = Feasible
      PROVE  Covered'
    <2>1. CASE phase = "down" /\ ~TearsDown(script)
        BY <2>1 DEF Scripted
    <2>2. CASE phase = "down" => TearsDown(script)
        <3>1. \A o \in mine' \cap objects' :
                  \/ o \in mine \cap objects
                  \/ phase = "main" /\ o \in Targets /\ Now.op \in Makes
            BY <1>4, <1>5, <2>2, WorkDone, Workable, AtHand
        <3>2. ASSUME phase = "down", NEW o \in mine' \cap objects', Kills(Now, o)
              PROVE  o \in missed'
            <4>1. Now.op = "delete"
                BY <3>2 DEF Kills
            <4>2. objects' = objects \ Within(S)
                BY <1>5, <4>1, WorkDone DEF Makes
            <4>3. o \in objects /\ o \notin Within(S)
                BY <4>2
            <4>4. o \in Within(Targets) /\ o \in Within(Feasible)
                BY <1>5, <3>2, <4>3, DeleteRemoves
            <4>5. QED BY <1>5, <4>1, <4>3, <4>4
        <3>3. QED BY <1>5, <3>1, <3>2, CoveredOn
    <2>3. QED BY <2>1, <2>2
<1>6. CASE Command /\ phase' # "off"
    <2>1. /\ ~Ended /\ Work(Feasible) /\ GoOn
          /\ UNCHANGED <<namespace, script, missed, astray>>
        BY <1>6 DEF Command, GiveUp
    <2>2. QED BY <1>5, <2>1
<1>7. CASE SwitchNamespace \/ Pass
    <2>1. /\ ~Ended /\ GoOn /\ UNCHANGED <<script, objects, mine, missed>>
          /\ astray \subseteq astray' /\ Now.op # "delete"
          /\ UNCHANGED namespace \/ Now.op = "switch"
        BY <1>7 DEF SwitchNamespace, Pass
    <2>2. \A o : ~Kills(Now, o)
        BY <2>1 DEF Kills
    <2>3. QED BY <2>1, <2>2, CoveredOn
<1>8. CASE Fail /\ phase' # "off"
    <2>1. ~Ended /\ GoOn /\ UNCHANGED <<namespace, script>>
        BY <1>8 DEF Fail, GiveUp
    <2>2. PICK S \in SUBSET Feasible :
              /\ Work(S)
              /\ missed' = IF Now.op = "delete" THEN missed \cup (Within(Targets) \ Within(S))
                                                ELSE missed
        BY <1>8 DEF Fail
    <2>3. astray \subseteq astray'
        BY <1>8 DEF Fail
    <2>4. missed \subseteq missed' /\ (Now.op = "delete" => Within(Targets) \subseteq Within(S) \cup missed')
        BY <2>2
    <2>5. QED BY <1>5, <2>1, <2>2, <2>3, <2>4
(* tearDown begins, or begins again, with all of its steps to come.        *)
<1>9. ASSUME phase # "off", phase' = "down", pc' = 1,
             UNCHANGED <<script, missed, astray>>,
             UNCHANGED namespace \/ (~Ended /\ Now.op = "switch"),
             TearsDown(script),
             \/ UNCHANGED <<objects, mine>>
             \/ ~Ended /\ \E S \in SUBSET Feasible : Work(S)
      PROVE  Covered'
    <2> SUFFICES ASSUME NEW o \in mine' \cap objects', ~Excused(o)'
                 PROVE  \E j \in First'..Len(script.down) : Kills(script.down[j], o)'
        BY <1>9 DEF Covered, TearsDown
    <2>1. ~Excused(o) /\ First' = 1
        BY <1>9, ExcusedStays DEF First
    <2>2. \/ o \in mine \cap objects
          \/ ~Ended /\ phase = "main" /\ o \in Targets /\ Now.op \in Makes
        BY <1>4, <1>9, WorkDone, Workable, AtHand
    <2>3. PICK j \in First..Len(script.down) : Kills(script.down[j], o)
        <3>1. CASE o \in mine \cap objects
            BY <1>9, <2>1, <3>1 DEF Covered
        <3>2. CASE ~Ended /\ phase = "main" /\ o \in Targets /\ Now.op \in Makes
            BY <1>9, <2>1, <3>2, MadeIsCovered DEF First
        <3>3. QED BY <2>2, <3>1, <3>2
    <2>4. j \in 1..Len(script.down)
        BY <1>9, <2>3, AtHand DEF First
    <2>5. QED BY <1>9, <2>1, <2>3, <2>4, KillsStay
<1>10. CASE CallTearDown
    <2>1. /\ ~Ended /\ phase' = "down" /\ pc' = 1
          /\ UNCHANGED <<objects, namespace, script, mine, missed, astray>>
        BY <1>10 DEF CallTearDown
    <2>2. phase # "off"
        BY <2>1, AtHand
    <2>3. TearsDown(script)
        BY <2>1, ScriptedStep DEF Scripted, TearsDown
    <2>4. QED BY <1>9, <2>1, <2>2, <2>3
<1>11. CASE Interrupt /\ phase' # "off"
    <2>1. /\ phase # "off" /\ script.trap = 1 /\ phase' = "down" /\ pc' = 1
          /\ CutShort /\ UNCHANGED <<script, missed, astray>>
        BY <1>11 DEF Interrupt
    <2>2. TearsDown(script)
        BY <2>1 DEF TearsDown
    <2>3. \/ UNCHANGED <<objects, mine>>
          \/ ~Ended /\ \E S \in SUBSET Feasible : Work(S)
        BY <2>1 DEF CutShort
    <2>4. UNCHANGED namespace \/ (~Ended /\ Now.op = "switch")
        BY <2>1 DEF CutShort
    <2>5. QED BY <1>9, <2>1, <2>2, <2>3, <2>4
<1>12. CASE Exit
    BY <1>2, <1>12 DEF Exit
<1>13. QED
    BY <1>1, <1>2, <1>3, <1>6, <1>7, <1>8, <1>10, <1>11, <1>12 DEF Next, Run

-----------------------------------------------------------------------------
LEMMA NoneToCome ==
    ASSUME NEW m \in Nat, NEW n \in Nat, m > n
    PROVE  \A j \in m..n : FALSE
  OBVIOUS

(* A tearDown that has ended has no step to come.                          *)
LEMMA CleanStep ==
    ASSUME Scripted, Covered, TornDownClean, [Next]_vars
    PROVE  TornDownClean'
<1> SUFFICES ASSUME exit' = "torn down", NEW o \in mine' \cap objects'
             PROVE  o \in missed' \/ o[2] = "claims" \/ o[1] \in astray'
    BY DEF TornDownClean
<1>1. CASE Exit
    <2>1. /\ phase = "down" /\ Ended /\ UNCHANGED <<objects, mine, missed, astray>>
        BY <1>1 DEF Exit
    <2>2. TearsDown(script) /\ First = pc /\ pc \in Nat
        BY <2>1 DEF Scripted, First
    <2>3. Len(script.down) \in Nat /\ pc > Len(script.down)
        BY <2>1, AtHand DEF Ended
    <2>4. \A j \in First..Len(script.down) : FALSE
        BY <2>2, <2>3, NoneToCome
    <2>5. Excused(o)
        BY <2>1, <2>2, <2>4 DEF Covered
    <2>6. QED BY <2>1, <2>5 DEF Excused
<1>2. CASE UNCHANGED vars
    BY <1>2 DEF vars, TornDownClean
(* Elsewhere the script at hand has not ended, or ends in another way.     *)
<1>3. CASE Start
    BY <1>3 DEF Start, None
<1>4. ASSUME ~Ended, GoOn \/ GiveUp \/ UNCHANGED exit
      PROVE  FALSE
    <2>1. exit = None
        BY <1>4, AtHand DEF Scripted
    <2>2. QED BY <1>4, <2>1 DEF GoOn, GiveUp, None
<1>5. CASE Command \/ SwitchNamespace \/ Pass \/ CallTearDown \/ Fail
    BY <1>4, <1>5 DEF Command, SwitchNamespace, Pass, CallTearDown, Fail
<1>6. CASE Interrupt
    <2>1. exit = None
        BY <1>6 DEF Interrupt, Scripted
    <2>2. QED BY <1>6, <2>1 DEF Interrupt, None
<1>7. QED BY <1>1, <1>2, <1>3, <1>5, <1>6 DEF Next, Run

-----------------------------------------------------------------------------
THEOREM RunnerInvariant == Spec => []RunnerInv
<1>1. Init => RunnerInv
    <2> SUFFICES ASSUME Init PROVE RunnerInv
        OBVIOUS
    <2>1. Scripted
        BY Bounds DEF Init, Scripted, TypeOK, Namespaces, None
    <2>2. Housed /\ Follows /\ Covered /\ Chained /\ TornDownClean
        BY DEF Init, Housed, Follows, Covered, Chained, TornDownClean, None
    <2>3. QED BY <2>1, <2>2 DEF RunnerInv
<1>2. RunnerInv /\ [Next]_vars => RunnerInv'
    BY ScriptedStep, HousedStep, FollowsStep, CoveredStep, ChainedStep, CleanStep
       DEF RunnerInv
<1>3. QED BY <1>1, <1>2, PTL DEF Spec

(* The script at hand is at one of its steps, whatever is interrupted.     *)
THEOREM TypeCorrect == Spec => []TypeOK
<1>1. RunnerInv => TypeOK
    BY DEF RunnerInv, Scripted
<1>2. QED BY <1>1, RunnerInvariant, PTL

(* However often and wherever it is interrupted, and whatever fails, a     *)
(* script that got through its tearDown leaves nothing of its own but what *)
(* a failing command missed, volume claims, and what a failed switch of    *)
(* the namespace sent astray.                                              *)
THEOREM TearDownLeavesNothing == Spec => []TornDownClean
<1>1. RunnerInv => TornDownClean
    BY DEF RunnerInv
<1>2. QED BY <1>1, RunnerInvariant, PTL

(* The webapp of DigitRecon is made only where its checker's service is.   *)
THEOREM CheckerBeforeWebapp == Spec => WebappFindsChecker
<1> DEFINE A == \A p \in {"default"} \cup Transient :
                    <<p, "webapp-deployment">> \in objects' \ objects
                        => <<p, "checker-service">> \in objects
<1>1. RunnerInv /\ [Next]_vars => [A]_vars
    <2> SUFFICES ASSUME RunnerInv, Next, NEW p,
                        <<p, "webapp-deployment">> \in objects' \ objects
                 PROVE  <<p, "checker-service">> \in objects
        OBVIOUS
    <2>1. Scripted /\ Chained
        BY DEF RunnerInv
    <2>2. PICK S \in SUBSET Feasible : ~Ended /\ Work(S)
        BY Effects
    <2>3. Now.op \in Makes /\ <<p, "webapp-deployment">> \in S
        BY <2>1, <2>2, WorkDone
    <2>4. p = Place /\ "webapp-deployment" \in Now.on /\ Place = PlaceOf(Now)
        BY <2>2, <2>3, Workable
    <2>5. /\ phase \in {"main", "down"} /\ Now = StepsOf(phase)[pc]
          /\ pc \in DOMAIN StepsOf(phase) /\ pc \in Nat
          /\ DOMAIN StepsOf(phase) = 1..Len(StepsOf(phase))
        BY <2>1, <2>2, AtHand
    <2>6. PICK s \in DOMAIN Book : StepsOf(phase) \in {Book[s].main, Book[s].down}
        BY <2>1, <2>5, AtHand DEF Scripted
    <2>7. PICK k \in DOMAIN StepsOf(phase) : LeadsTo(StepsOf(phase), k, pc)
        BY <2>3, <2>4, <2>5, <2>6, ChainedAssumption
    <2>8. k < pc /\ pc <= pc /\ phase # "off"
        <3>1. k < pc
            BY <2>7 DEF LeadsTo
        <3>2. pc <= pc
            BY <2>5
        <3>3. QED BY <2>5, <3>1, <3>2
    <2>9. <<PlaceOf(StepsOf(phase)[pc]), "checker-service">> \in objects
        BY <2>1, <2>5, <2>7, <2>8 DEF Chained
    <2>10. QED BY <2>4, <2>5, <2>9
<1>2. QED BY <1>1, RunnerInvariant, PTL DEF Spec, WebappFindsChecker

-----------------------------------------------------------------------------
(* What the scripts leave for each other.  Whatever the script at hand has *)
(* made, a step of its main part made, where it says.                      *)
PlacesOf(i) ==
    IF script.main[i].at # Here THEN {script.main[i].at}
    ELSE IF Switches(script) THEN Namespaces ELSE {namespace}
NamedMine ==
    phase # "off" =>
        \A o \in mine : \E i \in Making(script) :
            /\ phase = "main" => i < pc
            /\ o[2] \in script.main[i].on /\ o[1] \in PlacesOf(i)

(* Nobody passes a block or a call of tearDown.                            *)
KeptAlive ==
    phase = "main" =>
        \A k \in 1..(pc - 1) : script.main[k].op \notin {"block", "tear down"}

(* While no command has failed: a place that is made is there to switch    *)
(* to; no switch fails.                                                    *)
Ready ==
    faults = 0 /\ phase = "main" =>
        \A i, k \in DOMAIN script.main :
            Reaches(script.main, i, k) /\ i < pc /\ pc <= k =>
                <<Places, script.main[k].at>> \in objects
NoMishap == faults = 0 /\ phase # "off" => missed = {} /\ astray = {}

(* kubectl is nowhere that a script without a trap makes.                  *)
OwnNamespace ==
    namespace \in Transient => namespace # "claims" /\ <<Places, namespace>> \notin Lasting

(* While no command has failed nothing is there but what lasts, claims in  *)
(* namespaces that are always there, and what the script at hand has made. *)
Leftovers ==
    faults = 0 =>
        \A o \in objects :
            \/ o \in Lasting
            \/ o[2] = "claims" /\ o[1] \notin Transient
            \/ phase # "off" /\ script.trap = 1 /\ o \in mine

ApartInv == /\ NamedMine /\ KeptAlive /\ Ready /\ NoMishap /\ OwnNamespace
            /\ Leftovers /\ NeverBarred

-----------------------------------------------------------------------------
LEMMA ApartAtHand ==
    ASSUME Scripted, phase # "off"
    PROVE  /\ Stays(script)
           /\ \A i \in Making(script) : script.main[i].strict = 1 => Demands(script, i)
           /\ \A k \in DOMAIN script.main :
                 script.main[k].op = "switch" => Finds(script.main, k)
           /\ \A k \in DOMAIN script.down :
                 script.down[k].op = "switch" => Finds(script.down, k)
           /\ \A j \in DOMAIN script.down :
                 script.down[j].op = "delete" => Spares(script, j)
           /\ script.trap = 0 =>
                 \A i \in Making(script) : \A name \in script.main[i].on :
                     <<script.main[i].at, name>> \in Lasting
           /\ phase = "down" => script.trap = 1 /\ Tidy(script)
           /\ script.trap \in {0, 1}
<1>1. PICK s \in DOMAIN Book : script = Book[s]
    BY DEF Scripted
<1>2. /\ Stays(script)
      /\ \A i \in Making(script) : script.main[i].strict = 1 => Demands(script, i)
      /\ \A j \in DOMAIN script.down : script.down[j].op = "delete" => Spares(script, j)
    BY <1>1, ApartAssumption
<1>3. /\ \A k \in DOMAIN script.main :
            script.main[k].op = "switch" => Finds(script.main, k)
      /\ \A k \in DOMAIN script.down :
            script.down[k].op = "switch" => Finds(script.down, k)
    BY <1>1, ApartAssumption
<1>4. ASSUME script.trap = 0, NEW i \in Making(script), NEW name \in script.main[i].on
      PROVE  <<script.main[i].at, name>> \in Lasting
    BY <1>1, <1>4 DEF Lasting
<1>5. script.trap \in {0, 1}
    BY <1>1, RunnerAssumption
<1>6. phase = "down" => script.trap = 1 /\ Tidy(script)
    BY <1>2, <1>5, TidyAtHand DEF Stays, Scripted
<1>7. QED BY <1>2, <1>3, <1>4, <1>5, <1>6

(* In a tearDown nothing is made.                                          *)
LEMMA MakesInMain ==
    ASSUME Scripted, ~Ended, Now.op \in Makes
    PROVE  /\ phase = "main" /\ Now = script.main[pc] /\ pc \in Making(script)
           /\ Place \in PlacesOf(pc)
<1>1. phase \in {"main", "down"} /\ phase # "off"
    BY AtHand
<1>2. phase # "down"
    <2> SUFFICES ASSUME phase = "down" PROVE FALSE
        OBVIOUS
    <2>1. pc \in DOMAIN script.down /\ Now = script.down[pc] /\ Tidy(script)
        BY AtHand, ApartAtHand
    <2>2. QED BY <2>1 DEF Tidy
<1>3. phase = "main" /\ pc \in DOMAIN script.main /\ Now = script.main[pc]
    BY <1>1, <1>2, AtHand
<1>4. namespace \in Namespaces
    BY DEF Scripted, TypeOK
<1>5. QED BY <1>3, <1>4 DEF Making, PlacesOf, Place

LEMMA SwitchesAtHand ==
    ASSUME Scripted, ~Ended, Now.op = "switch"
    PROVE  Switches(script)
<1>1. \/ pc \in DOMAIN script.main /\ Now = script.main[pc]
      \/ pc \in DOMAIN script.down /\ Now = script.down[pc]
    BY AtHand
<1>2. QED BY <1>1 DEF Switches

LEMMA NamedMineStep ==
    ASSUME Scripted, NamedMine, [Next]_vars
    PROVE  NamedMine'
<1>1. CASE Start
    BY <1>1 DEF Start, NamedMine
<1>2. CASE phase' = "off"
    BY <1>2 DEF NamedMine
<1>3. CASE UNCHANGED vars
    BY <1>3 DEF vars, NamedMine, Making, PlacesOf, Switches
<1>4. ASSUME phase # "off", UNCHANGED script,
             \/ UNCHANGED mine
             \/ ~Ended /\ \E S \in SUBSET Feasible : Work(S),
             UNCHANGED namespace \/ (~Ended /\ Now.op = "switch"),
             phase' = "main" => phase = "main" /\ pc' = pc + 1
      PROVE  NamedMine'
    <2> SUFFICES ASSUME NEW o \in mine'
                 PROVE  \E i \in Making(script) :
                            /\ phase' = "main" => i < pc'
                            /\ o[2] \in script.main[i].on /\ o[1] \in PlacesOf(i)'
        BY <1>4 DEF NamedMine, Making
    <2>1. \A i \in Making(script) : i \in Nat
        BY <1>4, AtHand DEF Making
    <2>2. pc \in Nat
        BY AtHand
    <2>3. \A i : PlacesOf(i) \subseteq PlacesOf(i)' \/ (script.main[i].at = Here /\ ~Switches(script))
        BY <1>4 DEF PlacesOf, Switches
    <2>4. ~Switches(script) => UNCHANGED namespace
        BY <1>4, SwitchesAtHand
    <2>5. \A i : PlacesOf(i) \subseteq PlacesOf(i)'
        BY <1>4, <2>3, <2>4 DEF PlacesOf, Switches
    <2>6. CASE o \in mine
        <3>1. PICK i \in Making(script) :
                  /\ phase = "main" => i < pc
                  /\ o[2] \in script.main[i].on /\ o[1] \in PlacesOf(i)
            BY <1>4, <2>6 DEF NamedMine
        <3>2. phase' = "main" => i < pc'
            BY <1>4, <2>1, <2>2, <3>1
        <3>3. QED BY <2>5, <3>1, <3>2
    <2>7. CASE o \notin mine
        <3>1. ~Ended /\ Now.op \in Makes /\ o \in Targets
            BY <1>4, <2>7, WorkDone, Workable
        <3>2. /\ Now = script.main[pc] /\ pc \in Making(script) /\ Place \in PlacesOf(pc)
            BY <3>1, MakesInMain
        <3>3. PICK i \in Making(script) : i = pc
            BY <3>2
        <3>4. o[2] \in script.main[i].on /\ o[1] \in PlacesOf(i)
            BY <3>1, <3>2, <3>3, Workable
        <3>5. phase' = "main" => i < pc'
            <4>1. \A n \in Nat : n < n + 1
                OBVIOUS
            <4>2. QED BY <1>4, <2>2, <3>3, <4>1
        <3>6. QED BY <2>5, <3>3, <3>4, <3>5
    <2>8. QED BY <2>6, <2>7
<1>5. CASE Command /\ phase' # "off"
    BY <1>4, <1>5, AtHand DEF Command, GoOn, GiveUp
<1>6. CASE SwitchNamespace \/ Pass
    BY <1>4, <1>6, AtHand DEF SwitchNamespace, Pass, GoOn
<1>7. CASE CallTearDown
    BY <1>4, <1>7, AtHand DEF CallTearDown
<1>8. CASE Exit
    BY <1>2, <1>8 DEF Exit
<1>9. CASE Fail /\ phase' # "off"
    BY <1>4, <1>9, AtHand DEF Fail, GoOn, GiveUp
<1>10. CASE Interrupt /\ phase' # "off"
    <2>1. /\ phase # "off" /\ phase' = "down" /\ UNCHANGED script /\ CutShort
        BY <1>10 DEF Interrupt
    <2>2. QED BY <1>4, <2>1 DEF CutShort
<1>11. QED
    BY <1>1, <1>2, <1>3, <1>5, <1>6, <1>7, <1>8, <1>9, <1>10 DEF Next, Run

LEMMA FaultsCount ==
    ASSUME Scripted
    PROVE  faults \in Nat /\ (faults' = faults + 1 => faults' # 0)
<1>1. faults \in 0..MaxFaults
    BY DEF Scripted, TypeOK
<1>2. QED BY <1>1, Bounds

LEMMA StepsPassed ==
    /\ \A k \in 1..(1 - 1) : FALSE
    /\ \A n \in Nat \ {0} : 1..((n + 1) - 1) = 1..(n - 1) \cup {n}
  OBVIOUS

(* The step of a script that goes on in its main part.                     *)
LEMMA MainGoesOn ==
    ASSUME Scripted, [Next]_vars, phase' = "main", ~Start, ~UNCHANGED vars
    PROVE  /\ ~Ended /\ GoOn /\ phase = "main" /\ UNCHANGED script
           /\ pc \in DOMAIN script.main /\ Now = script.main[pc]
           /\ Now.op \notin {"block", "tear down"}
           /\ pc' = pc + 1
           /\ faults' = 0 => faults = 0
           /\ Command \/ SwitchNamespace \/ Pass \/ Fail
<1>1. CASE Command
    BY <1>1, AtHand DEF Command, GoOn, GiveUp, bounds
<1>2. CASE SwitchNamespace
    BY <1>2, AtHand DEF SwitchNamespace, GoOn, bounds
<1>3. CASE Pass
    BY <1>3, AtHand DEF Pass, GoOn, bounds
<1>4. CASE CallTearDown \/ Exit \/ Interrupt
    BY <1>4 DEF CallTearDown, Exit, Interrupt
<1>5. CASE Fail
    <2>1. /\ ~Ended /\ GoOn /\ UNCHANGED script /\ faults' = faults + 1
          /\ Now.op \notin {"block", "tear down"}
        BY <1>5 DEF Fail, GiveUp
    <2>2. faults' # 0
        BY <2>1, FaultsCount
    <2>3. QED BY <1>5, <2>1, <2>2, AtHand DEF GoOn
<1>6. QED BY <1>1, <1>2, <1>3, <1>4, <1>5 DEF Next, Run

LEMMA KeptAliveStep ==
    ASSUME Scripted, KeptAlive, [Next]_vars
    PROVE  KeptAlive'
<1>1. CASE phase' # "main"
    BY <1>1 DEF KeptAlive
<1>2. CASE Start
    BY <1>2, StepsPassed DEF Start, KeptAlive
<1>3. CASE UNCHANGED vars
    BY <1>3 DEF vars, KeptAlive
<1>4. CASE phase' = "main" /\ ~Start /\ ~UNCHANGED vars
    <2>1. /\ phase = "main" /\ UNCHANGED script /\ Now = script.main[pc]
          /\ Now.op \notin {"block", "tear down"} /\ pc' = pc + 1
        BY <1>4, MainGoesOn
    <2>2. pc \in Nat \ {0}
        BY AtHand
    <2>3. 1..(pc' - 1) = 1..(pc - 1) \cup {pc}
        BY <2>1, <2>2, StepsPassed
    <2>4. QED BY <2>1, <2>3 DEF KeptAlive
<1>5. QED BY <1>1, <1>2, <1>3, <1>4

LEMMA ReadyStep ==
    ASSUME Scripted, Ready, [Next]_vars
    PROVE  Ready'
<1> SUFFICES ASSUME faults' = 0, phase' = "main",
                    NEW i \in DOMAIN script'.main, NEW k \in DOMAIN script'.main,
                    Reaches(script'.main, i, k), i < pc', pc' <= k
             PROVE  <<Places, script'.main[k].at>> \in objects'
    BY DEF Ready
<1>1. CASE Start
    <2>1. pc' = 1 /\ script' \in {Book[s] : s \in DOMAIN Book}
        BY <1>1 DEF Start
    <2>2. i \in Nat /\ i >= 1
        BY <2>1, BookSteps
    <2>3. pc' = 1
        BY <2>1
    <2>4. ~(i < 1)
        BY <2>2
    <2>5. QED BY <2>3, <2>4
<1>2. CASE UNCHANGED vars
    BY <1>2 DEF vars, bounds, Ready
<1>3. CASE ~Start /\ ~UNCHANGED vars
    <2>1. /\ ~Ended /\ GoOn /\ phase = "main" /\ UNCHANGED script
          /\ pc \in DOMAIN script.main /\ Now = script.main[pc]
          /\ pc' = pc + 1 /\ faults = 0
          /\ Command \/ SwitchNamespace \/ Pass \/ Fail
        BY <1>3, MainGoesOn
    <2>2. /\ pc \in Nat /\ i \in Nat /\ k \in Nat
        BY <2>1, AtHand
    <2>3. i <= pc /\ pc <= k /\ (i < pc \/ i = pc) /\ pc \in i..k
        BY <2>1, <2>2
    <2>4. Now.op # "delete"
        BY <2>1, <2>3 DEF Reaches
    <2>5. objects \subseteq objects'
        <3>1. UNCHANGED objects \/ \E S \in SUBSET Feasible : Work(S)
            BY Effects, <1>3
        <3>2. QED BY <2>1, <2>4, <3>1, WorkDone
    <2>6. CASE i < pc
        BY <2>1, <2>3, <2>5, <2>6 DEF Ready
    <2>7. CASE i = pc
        <3>1. Now.op \in {"create", "apply"} /\ Now.at = Places /\ script.main[k].at \in Now.on
            BY <2>1, <2>7 DEF Reaches
        <3>2. Command
            <4>1. ~Fail
                BY FaultsCount DEF Fail
            <4>2. QED BY <2>1, <3>1, <4>1 DEF SwitchNamespace, Pass
        <3>3. Place = Places /\ Exists(Place)
            BY <3>1, NamespacesAndPlaces DEF Place, Exists
        <3>4. Feasible = Targets /\ <<Places, script.main[k].at>> \in Targets
            BY <3>1, <3>3, Workable DEF Targets
        <3>5. objects' = objects \cup Targets
            BY <2>1, <3>1, <3>2, <3>4, WorkDone DEF Command, Makes
        <3>6. QED BY <2>1, <3>4, <3>5
    <2>8. QED BY <2>3, <2>6, <2>7
<1>4. QED BY <1>1, <1>2, <1>3

(* No switch of the namespace fails of itself.                             *)
LEMMA SwitchFinds ==
    ASSUME Scripted, Ready, faults = 0, ~Ended, Now.op = "switch"
    PROVE  Exists(Now.at)
<1>1. phase \in {"main", "down"} /\ pc \in DOMAIN StepsOf(phase) /\ pc \in Nat
    BY AtHand
<1>2. CASE phase = "main"
    <2>1. pc \in DOMAIN script.main /\ Now = script.main[pc] /\ Finds(script.main, pc)
        BY <1>2, AtHand, ApartAtHand
    <2>2. CASE Now.at \in Transient
        <3>1. PICK i \in DOMAIN script.main : Reaches(script.main, i, pc)
            BY <2>1, <2>2 DEF Finds
        <3>2. i < pc
            BY <3>1 DEF Reaches
        <3>3. pc <= pc
            BY <1>1
        <3>4. <<Places, Now.at>> \in objects
            BY <1>2, <2>1, <3>1, <3>2, <3>3 DEF Ready
        <3>5. QED BY <3>4 DEF Exists
    <2>3. QED BY <2>2 DEF Exists
<1>3. CASE phase = "down"
    <2>1. /\ pc \in DOMAIN script.down /\ Now = script.down[pc]
          /\ Finds(script.down, pc) /\ Tidy(script)
        BY <1>3, AtHand, ApartAtHand
    <2>2. \A i \in DOMAIN script.down : ~Reaches(script.down, i, pc)
        BY <2>1 DEF Tidy, Reaches, Makes
    <2>3. QED BY <2>1, <2>2 DEF Finds, Exists
<1>4. QED BY <1>1, <1>2, <1>3

LEMMA NoMishapStep ==
    ASSUME Scripted, Ready, NoMishap, [Next]_vars
    PROVE  NoMishap'
<1> SUFFICES ASSUME faults' = 0, phase' # "off"
             PROVE  missed' = {} /\ astray' = {}
    BY DEF NoMishap
<1>1. CASE Start
    BY <1>1 DEF Start
<1>2. CASE UNCHANGED vars
    BY <1>2 DEF vars, bounds, NoMishap
<1>3. CASE Command \/ Pass \/ CallTearDown \/ Interrupt
    <2>1. faults = 0 /\ UNCHANGED <<missed, astray>>
        BY <1>3 DEF Command, Pass, CallTearDown, Interrupt, bounds
    <2>2. phase # "off"
        BY <1>3, AtHand DEF Command, Pass, CallTearDown, Interrupt
    <2>3. QED BY <2>1, <2>2 DEF NoMishap
<1>4. CASE SwitchNamespace
    <2>1. ~Ended /\ Now.op = "switch" /\ faults = 0 /\ UNCHANGED missed
        BY <1>4 DEF SwitchNamespace, bounds
    <2>2. UNCHANGED astray
        BY <1>4, <2>1, SwitchFinds DEF SwitchNamespace
    <2>3. QED BY <2>1, <2>2, AtHand DEF NoMishap
<1>5. CASE Exit
    BY <1>5 DEF Exit
<1>6. CASE Fail
    BY <1>6, FaultsCount DEF Fail
<1>7. QED BY <1>1, <1>2, <1>3, <1>4, <1>5, <1>6 DEF Next, Run

LEMMA OwnNamespaceStep ==
    ASSUME Scripted, OwnNamespace, [Next]_vars
    PROVE  OwnNamespace'
<1>1. CASE UNCHANGED namespace
    BY <1>1 DEF OwnNamespace
<1>2. CASE ~Ended /\ Now.op = "switch" /\ namespace' = Now.at
    <2>1. \/ pc \in DOMAIN script.main /\ Now = script.main[pc] /\ Finds(script.main, pc)
          \/ pc \in DOMAIN script.down /\ Now = script.down[pc] /\ Finds(script.down, pc)
        BY <1>2, AtHand, ApartAtHand
    <2>2. QED BY <1>2, <2>1 DEF Finds, OwnNamespace
<1>3. CASE SwitchNamespace
    BY <1>1, <1>2, <1>3 DEF SwitchNamespace
<1>4. CASE Interrupt
    BY <1>1, <1>2, <1>4 DEF Interrupt, CutShort
<1>5. CASE Start \/ Command \/ Pass \/ CallTearDown \/ Exit \/ Fail \/ UNCHANGED vars
    BY <1>1, <1>5 DEF Start, Command, Pass, CallTearDown, Exit, Fail, vars
<1>6. QED BY <1>3, <1>4, <1>5 DEF Next, Run

(* A step that is refused, and gives up, finds its namespace gone; and its *)
(* script has made nothing that is there.                                  *)
LEMMA BarredByNamespace ==
    ASSUME Scripted, Housed, NamedMine, Leftovers, faults = 0,
           ~Ended, Now.op \in {"create", "listen", "apply", "delete"},
           Refused, Now.strict = 1
    PROVE  /\ ~Exists(namespace) /\ Feasible = {} /\ mine \cap objects = {}
           /\ Now.op = "create"
<1>1. /\ phase = "main" /\ Now = script.main[pc] /\ pc \in Making(script)
      /\ Now.op \in {"create", "apply"}
    BY MakesInMain DEF Refused, Makes
<1>2. Demands(script, pc)
    BY <1>1, ApartAtHand
<1>3. CASE Now.op = "apply"
    <2>1. Exists(Place)
        BY <1>1, <1>2, <1>3 DEF Demands, Place, Exists
    <2>2. QED BY <1>3, <2>1 DEF Refused
<1>4. CASE Now.op = "create"
    <2>1. /\ Now.at = Here /\ ~Switches(script) /\ Place = namespace
          /\ "claims" \notin Now.on /\ \A o \in Lasting : o[2] \notin Now.on
          /\ \A k \in Making(script) : k < pc =>
                script.main[k].at = Here /\ script.main[k].on \cap Now.on = {}
        BY <1>1, <1>2, <1>4 DEF Demands, Place
    <2>2. \A o \in mine : o[1] = namespace /\ o[2] \notin Now.on
        BY <1>1, <2>1 DEF NamedMine, PlacesOf
    <2>3. Targets \cap objects = {}
        BY <2>1, <2>2, Workable DEF Leftovers
    <2>4. ~Exists(namespace)
        BY <1>4, <2>1, <2>3 DEF Refused
    <2>5. mine \cap objects = {}
        BY <2>2, <2>4 DEF Housed
    <2>6. Feasible = {}
        BY <2>1, <2>4 DEF Feasible
    <2>7. QED BY <1>4, <2>4, <2>5, <2>6
<1>5. QED BY <1>1, <1>3, <1>4

LEMMA NeverBarredStep ==
    ASSUME Scripted, Housed, NamedMine, Leftovers, NeverBarred, [Next]_vars
    PROVE  NeverBarred'
<1>1. CASE Start
    BY <1>1 DEF Start, NeverBarred, None
<1>2. CASE UNCHANGED vars
    BY <1>2 DEF vars, bounds, NeverBarred, Exists
<1>3. phase # "off" => exit = None
    BY DEF Scripted
<1>4. CASE Command
    <2>1. CASE Refused /\ Now.strict = 1
        <3>1. CASE faults = 0
            <4>1. /\ ~Exists(namespace) /\ Feasible = {} /\ Now.op = "create"
                  /\ UNCHANGED namespace /\ Work({}) /\ ~Ended
                BY <1>4, <2>1, <3>1, BarredByNamespace DEF Command
            <4>2. UNCHANGED objects
                BY <4>1, WorkDone DEF Makes
            <4>3. QED BY <4>1, <4>2 DEF NeverBarred, Exists
        <3>2. CASE faults # 0
            <4>1. faults' > 0
                <5>1. UNCHANGED faults
                    BY <1>4 DEF Command, bounds
                <5>2. QED BY <3>2, <5>1, FaultsCount
            <4>2. QED BY <4>1 DEF NeverBarred
        <3>3. QED BY <3>1, <3>2
    <2>2. CASE ~(Refused /\ Now.strict = 1)
        BY <1>3, <1>4, <2>2, AtHand DEF Command, GoOn, NeverBarred, None
    <2>3. QED BY <2>1, <2>2
<1>5. CASE SwitchNamespace \/ Pass \/ CallTearDown
    BY <1>3, <1>5, AtHand DEF SwitchNamespace, Pass, CallTearDown, GoOn, NeverBarred, None
<1>6. CASE Exit
    BY <1>6 DEF Exit, NeverBarred
<1>7. CASE Fail
    <2>1. faults' > 0
        <3>1. faults' = faults + 1
            BY <1>7 DEF Fail
        <3>2. QED BY <3>1, FaultsCount
    <2>2. QED BY <2>1 DEF NeverBarred
<1>8. CASE Interrupt
    BY <1>3, <1>8 DEF Interrupt, NeverBarred, None
<1>9. QED BY <1>1, <1>2, <1>4, <1>5, <1>6, <1>7, <1>8 DEF Next, Run

-----------------------------------------------------------------------------
(* What the steps leave.                                                   *)
LEMMA OthersLeft ==
    ASSUME Leftovers, faults = 0, NEW o \in objects
    PROVE  \/ o \in Lasting
           \/ o[2] = "claims" /\ o[1] \notin Transient
           \/ phase # "off" /\ script.trap = 1 /\ o \in mine
  BY DEF Leftovers

(* The namespace kubectl is in, when it is one that scripts make, was made *)
(* by the script at hand.                                                  *)
LEMMA NamespaceIsMine ==
    ASSUME Scripted, NamedMine, Leftovers, OwnNamespace, faults = 0,
           namespace \in Transient, Exists(namespace)
    PROVE  /\ phase # "off"
           /\ \E i \in Making(script) : script.main[i].at = Places
<1> DEFINE p == <<Places, namespace>>
<1>1. p \in objects /\ p[1] = Places /\ p[2] = namespace
    BY DEF Exists
<1>2. p \notin Lasting /\ p[2] # "claims"
    BY <1>1 DEF OwnNamespace
<1>3. phase # "off" /\ p \in mine
    BY <1>1, <1>2, OthersLeft
<1>4. PICK i \in Making(script) : Places \in PlacesOf(i)
    BY <1>1, <1>3 DEF NamedMine
<1>5. namespace \in Namespaces
    BY DEF Scripted, TypeOK
<1>6. script.main[i].at = Places
    BY <1>4, <1>5, NamespacesAndPlaces DEF PlacesOf
<1>7. QED BY <1>3, <1>6

LEMMA LeftoversStep ==
    ASSUME Scripted, Housed, Covered, NamedMine, KeptAlive, NoMishap, OwnNamespace,
           Leftovers, [Next]_vars
    PROVE  Leftovers'
<1> SUFFICES ASSUME faults' = 0, NEW o \in objects'
             PROVE  \/ o \in Lasting
                    \/ o[2] = "claims" /\ o[1] \notin Transient
                    \/ phase' # "off" /\ script'.trap = 1 /\ o \in mine'
    BY DEF Leftovers
<1>1. faults = 0 /\ ~Fail
    <2>1. ~Fail
        BY FaultsCount DEF Fail
    <2>2. QED
        BY <2>1 DEF Next, Run, Start, Command, SwitchNamespace, Pass, CallTearDown, Exit,
                    Interrupt, vars, bounds
(* What is made is made by a script with a trap, or lasts.                 *)
<1>2. ASSUME ~Ended, NEW S \in SUBSET Feasible, Work(S), UNCHANGED script
      PROVE  \/ o \in Lasting
             \/ o[2] = "claims" /\ o[1] \notin Transient
             \/ script'.trap = 1 /\ o \in mine'
    <2>1. phase # "off"
        BY <1>2, AtHand
    <2>2. CASE o \in objects
        BY <1>1, <1>2, <2>2, OthersLeft, WorkDone
    <2>3. CASE o \notin objects
        <3>1. Now.op \in Makes /\ o \in Targets /\ o \in mine'
            BY <1>2, <2>3, WorkDone, Workable
        <3>2. Now = script.main[pc] /\ pc \in Making(script)
            BY <1>2, <3>1, MakesInMain
        <3>3. CASE script.trap = 1
            BY <1>2, <3>1, <3>3
        <3>4. CASE script.trap = 0
            <4>1. Now.at # Here
                BY <2>1, <3>2, <3>4, ApartAtHand DEF Stays
            <4>2. o = <<Now.at, o[2]>> /\ o[2] \in Now.on
                BY <3>1, <4>1, Workable DEF Place
            <4>3. <<Now.at, o[2]>> \in Lasting
                BY <2>1, <3>2, <3>4, <4>2, ApartAtHand
            <4>4. QED BY <4>2, <4>3
        <3>5. QED BY <2>1, <3>3, <3>4, ApartAtHand
    <2>4. QED BY <2>2, <2>3
<1>3. CASE Start
    BY <1>1, <1>3, OthersLeft DEF Start
<1>4. CASE UNCHANGED vars
    BY <1>1, <1>4, OthersLeft DEF vars
<1>5. CASE Command
    <2>1. CASE Refused /\ Now.strict = 1
        <3>1. /\ Feasible = {} /\ mine \cap objects = {} /\ Now.op = "create"
              /\ Work({}) /\ ~Ended
            BY <1>1, <1>5, <2>1, BarredByNamespace DEF Command
        <3>2. o \in objects
            BY <3>1, WorkDone DEF Makes
        <3>3. QED BY <1>1, <3>1, <3>2, OthersLeft
    <2>2. CASE ~(Refused /\ Now.strict = 1)
        BY <1>2, <1>5, <2>2, AtHand DEF Command, GoOn
    <2>3. QED BY <2>1, <2>2
<1>6. CASE SwitchNamespace \/ Pass \/ CallTearDown
    <2>1. ~Ended /\ UNCHANGED <<objects, mine, script>> /\ phase' # "off"
        BY <1>6, AtHand DEF SwitchNamespace, Pass, CallTearDown, GoOn
    <2>2. QED BY <1>1, <2>1, OthersLeft
<1>7. CASE Interrupt
    <2>1. phase # "off" /\ UNCHANGED script /\ (script.trap = 1 => phase' # "off")
        BY <1>7 DEF Interrupt
    <2>2. \/ UNCHANGED <<objects, mine>>
          \/ ~Ended /\ \E S \in SUBSET Feasible : Work(S)
        BY <1>7 DEF Interrupt, CutShort
    <2>3. QED BY <1>1, <1>2, <2>1, <2>2, OthersLeft
(* A script that ends has made nothing, or has no trap; a tearDown has     *)
(* removed everything but claims.                                          *)
<1>8. CASE Exit
    <2>1. phase # "off" /\ Ended /\ UNCHANGED <<objects, mine>>
        BY <1>8 DEF Exit
    <2>2. CASE o \in mine /\ script.trap = 1
        <3>1. CASE phase = "main"
            <4>1. \A k \in DOMAIN script.main : script.main[k].op \notin {"block", "tear down"}
                <5>1. StepsOf(phase) = script.main /\ pc > Len(script.main) /\ pc \in Nat
                    BY <2>1, <3>1, AtHand DEF Ended
                <5>2. DOMAIN script.main = 1..Len(script.main) /\ Len(script.main) \in Nat
                    BY <2>1, AtHand
                <5>3. DOMAIN script.main \subseteq 1..(pc - 1)
                    BY <5>1, <5>2
                <5>4. QED BY <3>1, <5>3 DEF KeptAlive
            <4>2. Making(script) = {}
                BY <2>1, <2>2, <4>1, ApartAtHand DEF Stays
            <4>3. QED BY <2>1, <2>2, <4>2 DEF NamedMine
        <3>2. CASE phase = "down"
            <4>1. TearsDown(script) /\ First = pc /\ pc \in Nat
                BY <3>2, AtHand DEF Scripted, First
            <4>2. Len(script.down) \in Nat /\ pc > Len(script.down)
                BY <2>1, <3>2, AtHand DEF Ended
            <4>3. \A j \in First..Len(script.down) : FALSE
                BY <4>1, <4>2, NoneToCome
            <4>4. Excused(o)
                BY <2>1, <2>2, <4>1, <4>3 DEF Covered
            <4>5. o[2] = "claims" /\ ClaimsHere(script)
                BY <1>1, <2>1, <4>4 DEF Excused, NoMishap
            <4>6. /\ ~Switches(script)
                  /\ \A i \in Making(script) : script.main[i].at \notin Transient \cup {Places}
                BY <2>1, <4>5, ApartAtHand DEF Stays
            <4>7. PICK i \in Making(script) : o[1] \in PlacesOf(i)
                BY <2>1, <2>2 DEF NamedMine
            <4>8. o[1] = script.main[i].at \/ o[1] = namespace
                BY <4>6, <4>7 DEF PlacesOf
            <4>9. CASE o[1] = namespace
                <5>1. Exists(namespace)
                    BY <2>1, <4>9 DEF Housed
                <5>2. namespace \notin Transient
                    BY <1>1, <4>6, <5>1, NamespaceIsMine
                <5>3. QED BY <4>5, <4>9, <5>2
            <4>10. QED BY <4>5, <4>6, <4>8, <4>9
        <3>3. QED BY <2>1, <3>1, <3>2, AtHand
    <2>3. QED BY <1>1, <2>1, <2>2, OthersLeft
<1>9. QED
    BY <1>1, <1>3, <1>4, <1>5, <1>6, <1>7, <1>8 DEF Next, Run

-----------------------------------------------------------------------------
THEOREM ApartInvariant == Spec => []ApartInv
<1>1. Init => ApartInv
    BY NamespacesAndPlaces
       DEF Init, None, ApartInv, NamedMine, KeptAlive, Ready, NoMishap, OwnNamespace,
           Leftovers, NeverBarred
<1>2. RunnerInv /\ ApartInv /\ [Next]_vars => ApartInv'
    BY NamedMineStep, KeptAliveStep, ReadyStep, NoMishapStep, OwnNamespaceStep,
       LeftoversStep, NeverBarredStep DEF RunnerInv, ApartInv
<1>3. QED BY <1>1, <1>2, RunnerInvariant, PTL DEF Spec

(* Whatever was run and interrupted before, no script gives up on what     *)
(* another has left: only on a command that failed, or where kubectl is in *)
(* a namespace that is gone.                                               *)
THEOREM NoneIsBarred == Spec => []NeverBarred
<1>1. ApartInv => NeverBarred
    BY DEF ApartInv
<1>2. QED BY <1>1, ApartInvariant, PTL

(* While nothing has failed, a tearDown removes only what its own script   *)
(* has made, though it goes by names that other scripts may use.           *)
THEOREM TearDownRemovesItsOwn == Spec => RemovesOnlyItsOwn
<1> DEFINE A == phase = "down" /\ Undisturbed => objects \ objects' \subseteq mine
<1>1. RunnerInv /\ ApartInv /\ [Next]_vars => [A]_vars
    <2> SUFFICES ASSUME RunnerInv, ApartInv, Next, phase = "down", faults = 0,
                        NEW o \in objects, o \notin objects', o \notin mine
                 PROVE  FALSE
        BY DEF Undisturbed
    <2>1. Scripted /\ Leftovers
        BY DEF RunnerInv, ApartInv
    <2>2. PICK S \in SUBSET Feasible : ~Ended /\ Work(S)
        BY Effects
    <2>3. Now.op = "delete" /\ o \in Within(S)
        BY <2>1, <2>2, WorkDone
    <2>4. S \subseteq Targets
        BY <2>2, Workable
    <2>5. /\ pc \in DOMAIN script.down /\ Now = script.down[pc]
          /\ Now.at = Places => Now.on \subseteq Transient
        BY <2>1, <2>2, AtHand
    <2>6. Spares(script, pc)
        BY <2>1, <2>3, <2>5, ApartAtHand
    <2>7. o \in Lasting \/ (o[2] = "claims" /\ o[1] \notin Transient)
        BY <2>1, OthersLeft
    (* By its name.                                                        *)
    <2>8. CASE o \in S
        <3>1. o[1] = Place /\ o[2] \in Now.on /\ Now.at \in {o[1], Here}
            BY <2>4, <2>8, Workable DEF Place
        <3>2. QED BY <2>5, <2>6, <2>7, <3>1 DEF Spares
    (* With the place it is in.                                            *)
    <2>9. CASE <<Places, o[1]>> \in S
        <3>1. Place = Places /\ o[1] \in Now.on
            BY <2>4, <2>9, Workable
        <3>2. Now.at = Places
            BY <2>1, <3>1, NamespacesAndPlaces DEF Place, Scripted, TypeOK
        <3>3. QED BY <2>5, <2>6, <2>7, <3>1, <3>2 DEF Spares
    <2>10. QED BY <2>3, <2>8, <2>9 DEF Within
<1>2. QED
    BY <1>1, RunnerInvariant, ApartInvariant, PTL DEF Spec, RemovesOnlyItsOwn

-----------------------------------------------------------------------------
(* What a script finds when it waits.  What its README wants run before it *)
(* is there until it deletes something.                                    *)
NeedsKept ==
    phase = "main" /\ (\A m \in 1..(pc - 1) : script.main[m].op # "delete") =>
        script.needs \subseteq objects

(* Between the step that makes what a loop waits for and the loop, it is   *)
(* there, and is the script's own; unless its place is gone.               *)
Made ==
    faults = 0 /\ phase = "main" =>
        \A i, k \in DOMAIN script.main :
            Provides(script.main, i, k) /\ i < pc /\ pc <= k /\ Exists(PlaceOf(script.main[i])) =>
                \A name \in script.main[i].on :
                    Owns(script, i, name) =>
                        <<PlaceOf(script.main[i]), name>> \in objects \cap mine

(* What is where somebody waits for any answer is the script's own, and a  *)
(* step still to come removes it; between that script's listening and its  *)
(* waiting something is there.                                             *)
Freed ==
    faults = 0 /\ abandoned = 0 =>
        \A o \in objects : o[1] \in Answers =>
            /\ phase = "main" /\ script.trap = 0 /\ o \in mine
            /\ \E j \in pc..Len(script.main) :
                  /\ script.main[j].op = "delete" /\ script.main[j].at = o[1]
                  /\ o[2] \in script.main[j].on
Heard ==
    faults = 0 /\ abandoned = 0 /\ phase = "main" =>
        \A i, k \in DOMAIN script.main :
            Listens(script, i, k) /\ script.main[i].at \in Answers /\ i < pc /\ pc <= k =>
                \E o \in objects \cap mine : o[1] = script.main[i].at

WaitInv == NeedsKept /\ Made /\ Freed /\ Heard

-----------------------------------------------------------------------------
LEMMA AwaitedAtHand ==
    ASSUME Scripted, phase # "off"
    PROVE  /\ \A k \in DOMAIN script.main :
                 /\ script.main[k].op = "await" => Awaits(script, k)
                 /\ script.main[k].op = "await any" =>
                       /\ script.main[k].at \in Answers
                       /\ \E i \in DOMAIN script.main : Listens(script, i, k)
           /\ \A i \in Making(script) :
                 script.main[i].at \in Answers => Frees(script, i)
<1>1. PICK s \in DOMAIN Book : script = Book[s]
    BY DEF Scripted
<1>2. \A k \in DOMAIN script.main :
          /\ script.main[k].op = "await" => Awaits(script, k)
          /\ script.main[k].op = "await any" =>
                \E i \in DOMAIN script.main : Listens(script, i, k)
    BY <1>1, AwaitedAssumption
<1>3. ASSUME NEW k \in DOMAIN script.main, script.main[k].op = "await any"
      PROVE  script.main[k].at \in Answers
    <2>1. script.main[k].at \in {Book[s].main[j].at : j \in {j \in DOMAIN Book[s].main :
                                                          Book[s].main[j].op = "await any"}}
        BY <1>1, <1>3
    <2>2. QED BY <2>1 DEF Answers
<1>4. \A i \in Making(script) : script.main[i].at \in Answers => Frees(script, i)
    BY <1>1, AwaitedAssumption
<1>5. QED BY <1>2, <1>3, <1>4

(* A step in the main part that is no delete takes nothing away, and one   *)
(* that is no switch stays where it is; one that does not work on places   *)
(* makes none.                                                             *)
LEMMA MainKeeps ==
    ASSUME Scripted, [Next]_vars, phase' = "main", ~Start, ~UNCHANGED vars
    PROVE  /\ Now.op # "delete" => objects \subseteq objects' /\ mine \subseteq mine'
           /\ Now.op # "switch" => UNCHANGED namespace
           /\ Now.at # Places => \A p : Exists(p)' => Exists(p)
<1>1. ~Ended /\ (Command \/ SwitchNamespace \/ Pass \/ Fail)
    BY MainGoesOn
<1>2. \/ UNCHANGED <<objects, mine>>
      \/ \E S \in SUBSET Feasible : Work(S)
    BY <1>1 DEF Command, SwitchNamespace, Pass, Fail
<1>3. Now.op # "delete" => objects \subseteq objects' /\ mine \subseteq mine'
    BY <1>1, <1>2, WorkDone
<1>4. Now.op # "switch" => UNCHANGED namespace
    BY <1>1 DEF Command, SwitchNamespace, Pass, Fail
<1>5. ASSUME Now.at # Places, NEW p, Exists(p)'
      PROVE  Exists(p)
    <2>1. Place # Places
        BY <1>5, NamespacesAndPlaces DEF Place, Scripted, TypeOK
    <2>2. \A o \in objects' \ objects : o[1] = Place
        BY <1>1, <1>2, WorkDone, Workable
    <2>3. <<Places, p>>[1] = Places
        OBVIOUS
    <2>4. <<Places, p>> \notin objects' \ objects
        BY <2>1, <2>2, <2>3
    <2>5. QED BY <1>5, <2>4 DEF Exists
<1>6. QED BY <1>3, <1>4, <1>5

LEMMA NeedsKeptStep ==
    ASSUME Scripted, NeedsKept, [Next]_vars
    PROVE  NeedsKept'
<1>1. CASE phase' # "main"
    BY <1>1 DEF NeedsKept
<1>2. CASE Start
    BY <1>2 DEF Start, NeedsKept
<1>3. CASE UNCHANGED vars
    BY <1>3 DEF vars, NeedsKept
<1>4. CASE phase' = "main" /\ ~Start /\ ~UNCHANGED vars
    <2> SUFFICES ASSUME \A m \in 1..(pc' - 1) : script.main[m].op # "delete"
                 PROVE  script.needs \subseteq objects'
        BY <1>4, MainGoesOn DEF NeedsKept
    <2>1. phase = "main" /\ UNCHANGED script /\ Now = script.main[pc] /\ pc' = pc + 1
        BY <1>4, MainGoesOn
    <2>2. pc \in Nat \ {0}
        BY AtHand
    <2>3. 1..(pc' - 1) = 1..(pc - 1) \cup {pc}
        BY <2>1, <2>2, StepsPassed
    <2>4. Now.op # "delete" /\ \A m \in 1..(pc - 1) : script.main[m].op # "delete"
        BY <2>1, <2>3
    <2>5. QED BY <1>4, <2>1, <2>4, MainKeeps DEF NeedsKept
<1>5. QED BY <1>1, <1>2, <1>3, <1>4

(* Between two steps.                                                      *)
LEMMA Halfway ==
    ASSUME NEW n \in Nat, NEW i \in Nat, NEW k \in Nat, i < n + 1, n + 1 <= k
    PROVE  n \in i..k /\ n <= k /\ (i < n \/ i = n)
  OBVIOUS

LEMMA MadeStep ==
    ASSUME Scripted, Leftovers, Made, [Next]_vars
    PROVE  Made'
<1>1. CASE phase' # "main"
    BY <1>1 DEF Made
<1>2. CASE Start
    <2>1. phase' = "main" /\ pc' = 1 /\ \E s \in DOMAIN Book : script' = Book[s]
        BY <1>2 DEF Start
    <2>2. DOMAIN script'.main \subseteq Nat \ {0}
        BY <2>1, BookSteps
    <2>3. \A i \in DOMAIN script'.main : ~(i < pc')
        BY <2>1, <2>2
    <2>4. QED BY <2>3 DEF Made
<1>3. CASE UNCHANGED vars
    BY <1>3 DEF vars, bounds, Made, PlaceOf, Exists, Owns
<1>4. CASE phase' = "main" /\ ~Start /\ ~UNCHANGED vars
    <2>1. /\ phase = "main" /\ UNCHANGED script /\ Now = script.main[pc] /\ pc' = pc + 1
          /\ ~Ended /\ (Command \/ SwitchNamespace \/ Pass \/ Fail)
          /\ faults' = 0 => faults = 0
        BY <1>4, MainGoesOn
    <2> SUFFICES ASSUME faults' = 0,
                        NEW i \in DOMAIN script.main, NEW k \in DOMAIN script.main,
                        Provides(script.main, i, k), i < pc', pc' <= k,
                        Exists(PlaceOf(script.main[i]))',
                        NEW name \in script.main[i].on, Owns(script, i, name)
                 PROVE  <<PlaceOf(script.main[i])', name>> \in objects' \cap mine'
        BY <2>1 DEF Made, Owns
    <2>2. pc \in Nat /\ i \in Nat /\ k \in Nat
        BY <2>1, AtHand
    <2>3. pc \in i..k /\ pc <= k /\ (i < pc \/ i = pc)
        BY <2>1, <2>2, Halfway
    <2>4. Now.op \notin {"delete", "switch"} /\ Now.at # Places
        BY <2>1, <2>3 DEF Provides
    <2>5. /\ objects \subseteq objects' /\ mine \subseteq mine' /\ UNCHANGED namespace
          /\ \A p : Exists(p)' => Exists(p)
        BY <1>4, <2>4, MainKeeps
    <2>6. UNCHANGED PlaceOf(script.main[i])
        BY <2>1, <2>5 DEF PlaceOf
    <2>7. Exists(PlaceOf(script.main[i]))
        BY <2>5, <2>6 DEF Exists
    <2>8. CASE i < pc
        <3>1. <<PlaceOf(script.main[i]), name>> \in objects \cap mine
            BY <2>1, <2>3, <2>7, <2>8 DEF Made
        <3>2. QED BY <2>5, <2>6, <3>1
    <2>9. CASE i = pc
        <3>1. /\ Now.op = "apply" \/ (Now.op = "create" /\ name # "claims"
                                        /\ \A o \in Lasting : o[2] # name)
              /\ name \in Now.on /\ Exists(Place) /\ PlaceOf(script.main[i]) = Place
            BY <2>1, <2>7, <2>9, Workable DEF Owns
        <3>2. Command
            <4>1. ~Fail
                BY <2>1, FaultsCount DEF Fail
            <4>2. QED BY <2>1, <3>1, <4>1 DEF SwitchNamespace, Pass
        <3>3. Work(Targets)
            BY <3>1, <3>2, Workable DEF Command
        <3>4. <<Place, name>> \in Targets
            BY <3>1 DEF Targets
        <3>5. CASE Now.op = "apply"
            BY <2>6, <3>1, <3>3, <3>4, <3>5 DEF Work
        <3>6. CASE Now.op = "create"
            <4>1. objects' = objects \cup Targets /\ mine' = mine \cup (Targets \ objects)
                BY <3>3, <3>6 DEF Work
            <4>2. <<Place, name>> \in objects => <<Place, name>> \in mine
                <5>1. <<Place, name>>[2] = name
                    OBVIOUS
                <5>2. QED BY <2>1, <3>1, <3>6, <5>1, OthersLeft
            <4>3. QED BY <2>6, <3>1, <3>4, <4>1, <4>2
        <3>7. QED BY <3>1, <3>5, <3>6
    <2>10. QED BY <2>3, <2>8, <2>9
<1>5. QED BY <1>1, <1>2, <1>3, <1>4

(* What is where somebody waits for any answer was made by a script        *)
(* without a trap, and is removed before it ends.                          *)
LEMMA FreedStep ==
    ASSUME Scripted, Housed, Freed, [Next]_vars
    PROVE  Freed'
<1> DEFINE Goes(o, n) == \E j \in n..Len(script.main) :
                             /\ script.main[j].op = "delete" /\ script.main[j].at = o[1]
                             /\ o[2] \in script.main[j].on
<1>1. CASE UNCHANGED vars
    BY <1>1 DEF vars, bounds, Freed
<1> SUFFICES ASSUME ~UNCHANGED vars, faults' = 0, abandoned' = 0,
                    NEW o \in objects', o[1] \in Answers
             PROVE  /\ phase' = "main" /\ script'.trap = 0 /\ o \in mine'
                    /\ \E j \in pc'..Len(script'.main) :
                          /\ script'.main[j].op = "delete" /\ script'.main[j].at = o[1]
                          /\ o[2] \in script'.main[j].on
    BY <1>1 DEF Freed
<1>2. faults = 0 /\ abandoned = 0 /\ ~Fail /\ ~GiveUp
    <2>1. ~Fail /\ ~GiveUp
        BY FaultsCount DEF Fail, GiveUp
    <2>2. Start \/ Command \/ SwitchNamespace \/ Pass \/ CallTearDown \/ Exit \/ Interrupt
        BY <2>1 DEF Next, Run
    <2>3. faults = 0
        BY <2>2 DEF Start, Command, SwitchNamespace, Pass, CallTearDown, Exit, Interrupt, bounds
    <2>4. abandoned = 0
        <3>1. CASE Start \/ CallTearDown \/ Exit
            BY <3>1 DEF Start, CallTearDown, Exit
        <3>2. CASE Command \/ SwitchNamespace \/ Pass
            BY <2>1, <3>2 DEF Command, SwitchNamespace, Pass, GoOn
        <3>3. CASE Interrupt
            BY <3>3 DEF Interrupt
        <3>4. QED BY <2>2, <3>1, <3>2, <3>3
    <2>5. QED BY <2>1, <2>3, <2>4
<1>3. o \in objects => phase = "main" /\ script.trap = 0 /\ o \in mine /\ Goes(o, pc)
    BY <1>2 DEF Freed
<1>4. pc \in Nat
    BY AtHand
(* What is made there is made by such a script.                            *)
<1>5. ASSUME ~Ended, NEW S \in SUBSET Feasible, Work(S), o \notin objects
      PROVE  /\ phase = "main" /\ script.trap = 0 /\ o \in mine' /\ Now.op # "delete"
             /\ Goes(o, pc + 1)
    <2>1. Now.op \in Makes /\ o \in Targets /\ o \in mine'
        BY <1>5, WorkDone, Workable
    <2>2. phase = "main" /\ Now = script.main[pc] /\ pc \in Making(script)
        BY <1>5, <2>1, MakesInMain
    <2>3. o[1] = Place /\ o[2] \in Now.on
        BY <2>1, Workable
    <2>4. Now.at = o[1]
        BY <2>3, AwaitedAssumption DEF Place, Scripted, TypeOK
    <2>5. Frees(script, pc)
        BY <2>2, <2>4, AwaitedAtHand
    <2>6. PICK j \in DOMAIN script.main :
              /\ pc < j /\ script.main[j].op = "delete"
              /\ script.main[j].at = o[1] /\ o[2] \in script.main[j].on
        BY <2>2, <2>3, <2>4, <2>5 DEF Frees
    <2>7. j \in (pc + 1)..Len(script.main)
        BY <1>4, <2>2, <2>6, AtHand
    <2>8. QED BY <2>1, <2>2, <2>5, <2>6, <2>7 DEF Frees, Makes
(* What was there stays until its delete is at hand.                       *)
<1>6. ASSUME ~Ended, Now.op # "delete" \/ Work(Feasible), o \in objects
      PROVE  phase = "main" /\ script.trap = 0 /\ o \in mine /\ Goes(o, pc + 1)
    <2>1. PICK j \in pc..Len(script.main) :
              /\ script.main[j].op = "delete" /\ script.main[j].at = o[1]
              /\ o[2] \in script.main[j].on
        BY <1>3, <1>6
    <2>2. phase = "main" /\ Now = script.main[pc]
        BY <1>3, <1>6, AtHand
    <2>3. j # pc
        <3> SUFFICES ASSUME j = pc PROVE FALSE
            OBVIOUS
        <3>1. Now.op = "delete" /\ Now.at = o[1] /\ o[2] \in Now.on /\ Work(Feasible)
            BY <1>6, <2>1, <2>2
        <3>2. Place = o[1] /\ Exists(Place)
            BY <3>1, AwaitedAssumption DEF Place, Exists, Namespaces
        <3>3. Feasible = Targets /\ o \notin Within(Targets)
            BY <1>6, <3>1, <3>2, Workable, WorkDone DEF Makes
        <3>4. o \in Targets
            <4>1. o = <<o[1], o[2]>>
                BY <1>6 DEF Housed
            <4>2. QED BY <3>1, <3>2, <4>1 DEF Targets
        <3>5. QED BY <3>3, <3>4 DEF Within
    <2>4. Len(script.main) \in Nat
        BY <2>2, AtHand
    <2>5. j \in (pc + 1)..Len(script.main)
        BY <1>4, <2>1, <2>3, <2>4
    <2>6. QED BY <1>3, <1>6, <2>1, <2>5
<1>7. CASE Start
    BY <1>3, <1>7 DEF Start
<1>8. CASE Command
    <2>1. GoOn /\ ~Ended /\ UNCHANGED script /\ Work(Feasible) /\ phase' = phase /\ pc' = pc + 1
        BY <1>2, <1>8 DEF Command, GoOn
    <2>2. o \in mine => o \in mine'
        BY <2>1, WorkDone
    <2>3. QED BY <1>5, <1>6, <2>1, <2>2
<1>9. CASE SwitchNamespace \/ Pass
    <2>1. /\ ~Ended /\ UNCHANGED <<objects, mine, script>> /\ phase' = phase /\ pc' = pc + 1
          /\ Now.op # "delete"
        BY <1>9 DEF SwitchNamespace, Pass, GoOn
    <2>2. QED BY <1>6, <2>1
<1>10. CASE CallTearDown
    <2>1. ~Ended /\ UNCHANGED objects /\ Now.op = "tear down"
        BY <1>10 DEF CallTearDown
    <2>2. phase = "main" /\ script.trap = 0 /\ phase # "off"
        BY <1>3, <2>1
    <2>3. pc \in DOMAIN script.main /\ script.main[pc].op = "tear down"
        BY <2>1, <2>2, AtHand
    <2>4. TearsDown(script)
        BY <2>3 DEF TearsDown
    <2>5. QED BY <2>2, <2>4, ApartAtHand DEF Stays
<1>11. CASE Exit
    <2>1. Ended /\ UNCHANGED objects
        BY <1>11 DEF Exit
    <2>2. phase = "main" /\ Goes(o, pc)
        BY <1>3, <2>1
    <2>3. pc > Len(script.main) /\ Len(script.main) \in Nat
        BY <2>1, <2>2, AtHand DEF Ended
    <2>4. QED BY <1>4, <2>2, <2>3, NoneToCome
<1>12. CASE Interrupt
    <2>1. script.trap = 1
        BY <1>2, <1>12 DEF Interrupt
    <2>2. \/ UNCHANGED objects
          \/ ~Ended /\ \E S \in SUBSET Feasible : Work(S)
        BY <1>12 DEF Interrupt, CutShort
    <2>3. QED BY <1>3, <1>5, <2>1, <2>2
<1>13. QED
    BY <1>2, <1>7, <1>8, <1>9, <1>10, <1>11, <1>12 DEF Next, Run

LEMMA HeardStep ==
    ASSUME Scripted, Freed, Heard, [Next]_vars
    PROVE  Heard'
<1>1. CASE phase' # "main"
    BY <1>1 DEF Heard
<1>2. CASE Start
    <2>1. phase' = "main" /\ pc' = 1 /\ \E s \in DOMAIN Book : script' = Book[s]
        BY <1>2 DEF Start
    <2>2. DOMAIN script'.main \subseteq Nat \ {0}
        BY <2>1, BookSteps
    <2>3. \A i \in DOMAIN script'.main : ~(i < pc')
        BY <2>1, <2>2
    <2>4. QED BY <2>3 DEF Heard
<1>3. CASE UNCHANGED vars
    BY <1>3 DEF vars, bounds, Heard
<1>4. CASE phase' = "main" /\ ~Start /\ ~UNCHANGED vars
    <2>1. /\ phase = "main" /\ UNCHANGED script /\ Now = script.main[pc] /\ pc' = pc + 1
          /\ ~Ended /\ GoOn /\ (Command \/ SwitchNamespace \/ Pass \/ Fail)
          /\ faults' = 0 => faults = 0
        BY <1>4, MainGoesOn
    <2> SUFFICES ASSUME faults' = 0, abandoned' = 0,
                        NEW i \in DOMAIN script.main, NEW k \in DOMAIN script.main,
                        Listens(script, i, k), script.main[i].at \in Answers,
                        i < pc', pc' <= k
                 PROVE  \E o \in objects' \cap mine' : o[1] = script.main[i].at
        BY <2>1 DEF Heard
    <2>2. faults = 0 /\ abandoned = 0
        BY <2>1 DEF GoOn
    <2>3. pc \in Nat /\ i \in Nat /\ k \in Nat
        BY <2>1, AtHand
    <2>4. pc \in i..k /\ pc <= k /\ (i < pc \/ i = pc)
        BY <2>1, <2>3, Halfway
    <2>5. Now.op # "delete"
        BY <2>1, <2>4 DEF Listens, Provides
    <2>6. objects \subseteq objects' /\ mine \subseteq mine'
        BY <1>4, <2>5, MainKeeps
    <2>7. CASE \E o \in objects \cap mine : o[1] = script.main[i].at
        BY <2>6, <2>7
    <2>8. CASE i < pc
        BY <2>1, <2>2, <2>4, <2>7, <2>8 DEF Heard
    <2>9. CASE i = pc /\ ~ \E o \in objects \cap mine : o[1] = script.main[i].at
        <3>1. Now.op = "listen" /\ Now.on # {} /\ Now.at \in Answers
            BY <2>1, <2>9 DEF Listens
        <3>2. Place = Now.at /\ Exists(Place)
            BY <3>1, AwaitedAssumption DEF Place, Exists, Namespaces
        <3>3. ~Taken
            BY <2>1, <2>2, <2>9, <3>1, <3>2 DEF Freed, Taken
        <3>4. Command
            <4>1. ~Fail
                BY <2>1, FaultsCount DEF Fail
            <4>2. QED BY <2>1, <3>1, <4>1 DEF SwitchNamespace, Pass
        <3>5. Work(Targets)
            BY <3>2, <3>3, <3>4 DEF Command, Feasible
        <3>6. objects' = objects \cup Targets /\ mine' = mine \cup (Targets \ objects)
            BY <3>1, <3>5 DEF Work
        <3>7. PICK o \in Targets : o[1] = Place
            <4>1. PICK name \in Now.on : TRUE
                BY <3>1
            <4>2. <<Place, name>> \in Targets /\ <<Place, name>>[1] = Place
                BY <4>1 DEF Targets
            <4>3. QED BY <4>2
        <3>8. o \notin objects
            BY <3>3, <3>7 DEF Taken
        <3>9. QED BY <2>1, <2>9, <3>2, <3>6, <3>7, <3>8
    <2>10. QED BY <2>4, <2>7, <2>8, <2>9
<1>5. QED BY <1>1, <1>2, <1>3, <1>4

-----------------------------------------------------------------------------
THEOREM WaitInvariant == Spec => []WaitInv
<1>1. Init => WaitInv
    BY DEF Init, WaitInv, NeedsKept, Made, Freed, Heard
<1>2. RunnerInv /\ ApartInv /\ WaitInv /\ [Next]_vars => WaitInv'
    BY NeedsKeptStep, MadeStep, FreedStep, HeardStep DEF RunnerInv, ApartInv, WaitInv
<1>3. QED BY <1>1, <1>2, RunnerInvariant, ApartInvariant, PTL DEF Spec

(* While nothing has failed, what a loop waits for is there, and its own,  *)
(* when the script reaches it: no loop of the book waits for ever, and     *)
(* none is satisfied by what another script has left.                      *)
THEOREM AwaitedIsThere == Spec => []NeverAwaitsInVain
<1>1. RunnerInv /\ ApartInv /\ WaitInv => NeverAwaitsInVain
    <2> SUFFICES ASSUME RunnerInv, ApartInv, WaitInv, phase = "main", ~Ended, Undisturbed
                 PROVE  /\ Now.op = "await" => Targets \subseteq objects \cap mine
                        /\ Now.op = "await any" => \E o \in objects \cap mine : o[1] = Place
        BY DEF NeverAwaitsInVain
    <2>1. /\ Scripted /\ Ready /\ NeedsKept /\ Made /\ Heard
          /\ faults = 0 /\ abandoned = 0 /\ Exists(namespace)
        BY DEF RunnerInv, ApartInv, WaitInv, Undisturbed
    <2>2. /\ pc \in DOMAIN script.main /\ pc \in Nat /\ Now = script.main[pc]
          /\ PlaceOf(Now) = Place
        BY <2>1, AtHand, Workable
    <2>3. pc <= pc
        BY <2>2
    <2>4. CASE Now.op = "await"
        <3>1. Awaits(script, pc)
            BY <2>1, <2>2, <2>4, AwaitedAtHand
        <3>2. Exists(Now.at)
            <4>1. CASE Now.at \notin Transient
                BY <4>1 DEF Exists
            <4>2. CASE <<Places, Now.at>> \in script.needs
                       /\ \A m \in 1..(pc - 1) : script.main[m].op # "delete"
                BY <2>1, <4>2 DEF NeedsKept, Exists
            <4>3. CASE \E i \in DOMAIN script.main : Reaches(script.main, i, pc)
                <5>1. PICK i \in DOMAIN script.main : Reaches(script.main, i, pc)
                    BY <4>3
                <5>2. i < pc
                    BY <5>1 DEF Reaches
                <5>3. QED BY <2>1, <2>2, <2>3, <5>1, <5>2 DEF Ready, Exists
            <4>4. QED BY <2>2, <3>1, <4>1, <4>2, <4>3 DEF Awaits, Stands
        <3>3. Exists(Place)
            BY <2>1, <3>2 DEF Place
        <3>4. ASSUME NEW o \in Targets
              PROVE  o \in objects \cap mine
            <4>1. o = <<Place, o[2]>> /\ o[2] \in Now.on
                BY <3>4, Workable
            <4>2. PICK i \in DOMAIN script.main :
                      /\ Provides(script.main, i, pc) /\ o[2] \in script.main[i].on
                      /\ Owns(script, i, o[2])
                BY <2>2, <3>1, <4>1 DEF Awaits
            <4>3. i < pc /\ PlaceOf(script.main[i]) = Place
                BY <2>2, <4>2 DEF Provides, PlaceOf
            <4>4. <<Place, o[2]>> \in objects \cap mine
                BY <2>1, <2>2, <2>3, <3>3, <4>2, <4>3 DEF Made
            <4>5. QED BY <4>1, <4>4
        <3>5. QED BY <2>4, <3>4
    <2>5. CASE Now.op = "await any"
        <3>1. PICK i \in DOMAIN script.main : Listens(script, i, pc)
            BY <2>1, <2>2, <2>5, AwaitedAtHand
        <3>2. i < pc /\ script.main[i].at = Now.at /\ Now.at \in Answers
            BY <2>1, <2>2, <2>5, <3>1, AwaitedAtHand DEF Listens, Provides
        <3>3. Place = Now.at
            BY <3>2, AwaitedAssumption DEF Place
        <3>4. \E o \in objects \cap mine : o[1] = script.main[i].at
            BY <2>1, <2>2, <2>3, <3>1, <3>2 DEF Heard
        <3>5. QED BY <2>5, <3>2, <3>3, <3>4
    <2>6. QED BY <2>4, <2>5
<1>2. QED BY <1>1, RunnerInvariant, ApartInvariant, WaitInvariant, PTL
=============================================================================
