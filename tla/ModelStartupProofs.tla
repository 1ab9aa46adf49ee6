------------------------- MODULE ModelStartupProofs -------------------------
(***************************************************************************)
(* For any number of replicas and kills: the type invariant, and that a    *)
(* replica without a model always started into a save that was going on or *)
(* was torn.                                                               *)
(***************************************************************************)
EXTENDS ModelStartup, TLAPS

LEMMA NextPartCases ==
    /\ NextPart("dir") = "variables"
    /\ NextPart("variables") = "graph"
    /\ NextPart("graph") = "serve"
  BY DEF NextPart

LEMMA TypeNext == TypeOK /\ [Next]_startupVars => TypeOK'
<1> SUFFICES ASSUME TypeOK, [Next]_startupVars PROVE TypeOK'
    OBVIOUS
<1> USE KillsAssumption DEF TypeOK, Parts, Saving
<1>1. ASSUME NEW r \in Replicas, Boot(r) PROVE TypeOK'
    BY <1>1 DEF Boot
<1>2. ASSUME NEW r \in Replicas, Train(r) PROVE TypeOK'
    BY <1>2 DEF Train
<1>3. ASSUME NEW r \in Replicas, Save(r) PROVE TypeOK'
    BY <1>3, NextPartCases DEF Save
<1>4. ASSUME NEW r \in Replicas, ProbeOK(r) PROVE TypeOK'
    BY <1>4 DEF ProbeOK
<1>5. ASSUME NEW r \in Replicas, Kill(r) PROVE TypeOK'
    BY <1>5 DEF Kill
<1>6. CASE UNCHANGED startupVars
    BY <1>6 DEF startupVars
<1>7. QED BY <1>1, <1>2, <1>3, <1>4, <1>5, <1>6 DEF Next, Progress

(* Every state has its type, for every value of the constants.             *)
THEOREM TypeCorrect == Spec => []TypeOK
<1>1. Init => TypeOK
    BY KillsAssumption DEF Init, TypeOK, Parts
<1>2. QED BY <1>1, TypeNext, PTL DEF Spec

-----------------------------------------------------------------------------
(* The inductive invariant: a replica that saves has written all the parts *)
(* before the one it writes next, a replica serves only once the directory *)
(* is there, and a model that is begun but not complete has a writer or    *)
(* lost it.                                                                *)
WrittenBefore ==
    \A r \in Replicas :
        /\ pc[r] = "variables" => "dir" \in disk
        /\ pc[r] = "graph" => {"dir", "variables"} \subseteq disk
        /\ pc[r] = "serve" => "dir" \in disk

BegunHasWriter == "dir" \in disk /\ ~Loadable => Writers # {} \/ torn = 1

SaveInv == WrittenBefore /\ BegunHasWriter /\ EndpointsServe

LEMMA SaveInvNext == TypeOK /\ SaveInv /\ [Next]_startupVars => SaveInv'
<1> SUFFICES ASSUME TypeOK, SaveInv, [Next]_startupVars PROVE SaveInv'
    OBVIOUS
<1> USE DEF TypeOK, Parts, Saving, SaveInv, WrittenBefore, BegunHasWriter,
            Loadable, Writers, EndpointsServe
<1>1. ASSUME NEW r \in Replicas, Boot(r) PROVE SaveInv'
    BY <1>1 DEF Boot
<1>2. ASSUME NEW r \in Replicas, Train(r) PROVE SaveInv'
    BY <1>2 DEF Train
<1>3. ASSUME NEW r \in Replicas, Save(r) PROVE SaveInv'
    <2>1. CASE pc[r] = "dir"
        BY <1>3, <2>1, NextPartCases DEF Save
    <2>2. CASE pc[r] = "variables"
        BY <1>3, <2>2, NextPartCases DEF Save
    <2>3. CASE pc[r] = "graph"
        BY <1>3, <2>3, NextPartCases DEF Save
    <2>4. QED BY <1>3, <2>1, <2>2, <2>3 DEF Save
<1>4. ASSUME NEW r \in Replicas, ProbeOK(r) PROVE SaveInv'
    BY <1>4 DEF ProbeOK
<1>5. ASSUME NEW r \in Replicas, Kill(r) PROVE SaveInv'
    BY <1>5 DEF Kill
<1>6. CASE UNCHANGED startupVars
    BY <1>6 DEF startupVars
<1>7. QED BY <1>1, <1>2, <1>3, <1>4, <1>5, <1>6 DEF Next, Progress

LEMMA SaveInvariant == Spec => []SaveInv
<1>1. Init => SaveInv
    BY DEF Init, SaveInv, WrittenBefore, BegunHasWriter, Loadable, Parts,
           EndpointsServe
<1>2. QED BY <1>1, TypeCorrect, SaveInvNext, PTL DEF Spec

(* A replica that serves without a model started into a save that was      *)
(* going on (main.py:10 sees the directory) or was torn by a kill.         *)
THEOREM OnlySaveWindow == Spec => []OnlyTheSaveWindow
<1>1. SaveInv => OnlyTheSaveWindow
    BY DEF SaveInv, WrittenBefore, BegunHasWriter, OnlyTheSaveWindow
<1>2. QED BY <1>1, SaveInvariant, PTL
=============================================================================
