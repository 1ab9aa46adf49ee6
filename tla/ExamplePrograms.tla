--------------------------- MODULE ExamplePrograms ---------------------------
(***************************************************************************)
(* The small examples, each with the service it meets: the filter that     *)
(* prints bodies in Envoy, the provider in terraform, the clients of the   *)
(* Kubernetes API, the state in an S3 bucket.  They do not interact; a     *)
(* behaviour runs one of them, the others stay as they begin.              *)
(***************************************************************************)
EXTENDS BodyFilter, FibbResource, KubeClients, S3Backend

VARIABLE program

programVars == <<program, bodyVars, fibbVars, kubeVars, s3Vars>>
Programs    == {"body filter", "fibb", "kube clients", "s3 backend"}

ProgramsTypeOK ==
    /\ program \in Programs
    /\ BodyTypeOK /\ FibbTypeOK /\ KubeTypeOK /\ S3TypeOK

(* What the ones that are not run begin with is of no account.             *)
AtRest ==
    /\ program # "body filter" => /\ tells = "all"
                                  /\ \A q \in Requests : body[q] = 0 /\ trailers[q] = 0
    /\ program # "kube clients" => /\ api = "up" /\ plugin = "deployed"
                                  /\ configs = {"core", "crd"}

ProgramsInit ==
    /\ program \in Programs
    /\ BodyInit /\ FibbInit /\ KubeInit /\ S3Init
    /\ AtRest

RunBodyFilter  == program = "body filter" /\ BodyNext
                      /\ UNCHANGED <<program, fibbVars, kubeVars, s3Vars>>
RunFibb        == program = "fibb" /\ FibbNext
                      /\ UNCHANGED <<program, bodyVars, kubeVars, s3Vars>>
RunKubeClients == program = "kube clients" /\ KubeNext
                      /\ UNCHANGED <<program, bodyVars, fibbVars, s3Vars>>
RunS3Backend   == program = "s3 backend" /\ S3Next
                      /\ UNCHANGED <<program, bodyVars, fibbVars, kubeVars>>

ProgramsNext == RunBodyFilter \/ RunFibb \/ RunKubeClients \/ RunS3Backend

(* Those who send bodies go on sending, and the client of the core API, a  *)
(* process that runs, goes on; nothing is assumed of anybody else.         *)
ProgramsSpec ==
    /\ ProgramsInit /\ [][ProgramsNext]_programVars
    /\ \A q \in Requests : WF_programVars(RunBodyFilter /\ Arrives(q))
    /\ WF_programVars(RunKubeClients /\ CoreStep)

=============================================================================
