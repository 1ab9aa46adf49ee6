---------------------------- MODULE ModelStartup ----------------------------
(***************************************************************************)
(* Kubernetes/DigitRecon, digitchecker: the replicas of the checker share  *)
(* the host's /tmp.  A container that starts trains the model only if      *)
(* /tmp/model does not exist yet, saves it there and then serves; the      *)
(* kubelet probes /healthcheck and makes a serving replica an endpoint of  *)
(* checker-service.  Saving writes the directory first and its content     *)
(* afterwards, and a container may be killed at any point.                 *)
(***************************************************************************)
EXTENDS Naturals, FiniteSets

CONSTANTS
    Replicas,    \* digitchecker containers (3 in checker-deployment.yml)
    MaxKills     \* bound: containers killed and restarted by the kubelet

ASSUME ReplicasAssumption == IsFiniteSet(Replicas)
ASSUME KillsAssumption    == MaxKills \in Nat

VARIABLES
    disk,        \* what exists of /tmp/model
    pc,          \* where the main.py of each replica is
    ready,       \* replicas that are endpoints of checker-service
    kills,       \* containers killed so far
    torn         \* history: a container was killed while it saved

startupVars == <<disk, pc, ready, kills, torn>>

(* What TensorFlow's model.save makes in its one call: the directory, the  *)
(* variables, and last the graph; each is put in its place by a rename, so *)
(* a second save never tears a file.                                       *)
Parts    == {"dir", "variables", "graph"}
Loadable == disk = Parts
Saving   == {"dir", "variables", "graph"}       \* pc: the part written next

TypeOK ==
    /\ disk \in SUBSET Parts
    /\ pc \in [Replicas -> {"boot", "train", "serve"} \cup Saving]
    /\ ready \in SUBSET Replicas
    /\ kills \in 0..MaxKills
    /\ torn \in {0, 1}

(* /tmp outlives the deployment: a model may be there from an earlier one. *)
Init ==
    /\ disk \in {{}, Parts}
    /\ pc = [r \in Replicas |-> "boot"]
    /\ ready = {}
    /\ kills = 0
    /\ torn = 0

-----------------------------------------------------------------------------
(* Mutant: the container leaves the training to the others.               *)
BootServes(r) ==
    /\ pc[r] = "boot"
    /\ pc' = [pc EXCEPT ![r] = "serve"]
    /\ UNCHANGED <<disk, ready, kills, torn>>

(* main.py: train unless the path exists, otherwise serve at once.         *)
Boot(r) ==
    /\ pc[r] = "boot"
    /\ pc' = [pc EXCEPT ![r] = IF "dir" \in disk THEN "serve" ELSE "train"]
    /\ UNCHANGED <<disk, ready, kills, torn>>

(* trainModel up to model.fit; nothing is written yet.                     *)
Train(r) ==
    /\ pc[r] = "train"
    /\ pc' = [pc EXCEPT ![r] = "dir"]
    /\ UNCHANGED <<disk, ready, kills, torn>>

(* The order is TensorFlow's; after the call main.py starts the server.    *)
NextPart(part) == CASE part = "dir"       -> "variables"
                    [] part = "variables" -> "graph"
                    [] part = "graph"     -> "serve"

(* Mutant: the server is started while the rest of the model is saved.     *)
SaveDetached(r) ==
    /\ pc[r] \in Saving
    /\ disk' = disk \cup {pc[r]}
    /\ pc' = [pc EXCEPT ![r] = IF @ = "variables" THEN "serve" ELSE NextPart(@)]
    /\ UNCHANGED <<ready, kills, torn>>

(* model.save writes, or writes again, one more part; the last one done,   *)
(* the server is started.                                                  *)
Save(r) ==
    /\ pc[r] \in Saving
    /\ disk' = disk \cup {pc[r]}
    /\ pc' = [pc EXCEPT ![r] = NextPart(@)]
    /\ UNCHANGED <<ready, kills, torn>>

(* The readiness probe: /healthcheck answers as soon as the server runs.   *)
ProbeOK(r) ==
    /\ pc[r] = "serve"
    /\ r \notin ready
    /\ ready' = ready \cup {r}
    /\ UNCHANGED <<disk, pc, kills, torn>>

(* The container dies (killed, or main.py fails while training) and is     *)
(* restarted by the kubelet; /tmp keeps what was written.                  *)
Kill(r) ==
    /\ kills < MaxKills
    /\ kills' = kills + 1
    /\ pc' = [pc EXCEPT ![r] = "boot"]
    /\ ready' = ready \ {r}
    /\ torn' = IF pc[r] \in {"variables", "graph"} THEN 1 ELSE torn
    /\ UNCHANGED disk

Progress(r) == Boot(r) \/ Train(r) \/ Save(r) \/ ProbeOK(r)

AllReady == ready = Replicas /\ kills = MaxKills

Next == \/ \E r \in Replicas : Progress(r) \/ Kill(r)
        \/ AllReady /\ UNCHANGED startupVars

(* A container that runs keeps running and the kubelet keeps probing;      *)
(* nothing obliges a container to be killed.                               *)
Spec == Init /\ [][Next]_startupVars /\ \A r \in Replicas : WF_startupVars(Progress(r))

-----------------------------------------------------------------------------
Writers == {r \in Replicas : pc[r] \in {"variables", "graph"}}

(* A replica that serves without a loadable model has started into the     *)
(* middle of another one's save, finished or torn: there is no other way.  *)
OnlyTheSaveWindow ==
    (\E r \in Replicas : pc[r] = "serve") /\ ~Loadable => Writers # {} \/ torn = 1

(* Only a replica that serves is an endpoint of the service.               *)
EndpointsServe == \A r \in ready : pc[r] = "serve"

(* Unless a container was killed in the middle of a save the model gets    *)
(* there in the end, whatever is killed at other times.                    *)
ModelOrTorn == <>(Loadable \/ torn = 1)

(* run_all.sh:74 "If first time run, wait 60sec until neural network       *)
(* learns the digits": some time after the start there is a model.         *)
ModelEventually == <>Loadable
=============================================================================
