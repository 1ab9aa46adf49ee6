----------------------------- MODULE KubeClients -----------------------------
(***************************************************************************)
(* Two Go programs that run in a pod and call the Kubernetes API server.   *)
(* kubeapi-client-coreapi waits until it can list the nodes, then lists    *)
(* the pods.  kubeapi-client-crd lists the WasmPlugins, patches the config *)
(* of one, and lists them again.  The pods have restartPolicy Never: a     *)
(* program that ends is not started again.                                 *)
(***************************************************************************)
EXTENDS Naturals

CONSTANTS
    MaxOutages,   \* bound: times the API server changes for the worse
    MaxApplies    \* bound: times the plugin is applied or deleted meanwhile

ASSUME KubeAssumption == MaxOutages \in Nat /\ MaxApplies \in Nat

VARIABLES
    api,       \* how the API server takes a call
    configs,   \* the programs that can make a client: an in-cluster config is there
    core,      \* where the client of the core API is
    podsShown, \* 1 when the pods were listed
    gone,      \* history: 1 when the server went away from a client it had let in
    crd,       \* where the client of the WasmPlugins is
    plugin,    \* the pluginConfig of my-wasm-plugin-1
    shown,     \* what of it the second list shows
    outages, applies,
    applied    \* history: 1 when the plugin was applied or deleted after the patch
kubeVars == <<api, configs, core, podsShown, gone, crd, plugin, shown, outages,
              applies, applied>>

KubeTypeOK ==
    /\ api \in {"refusing", "failing", "up"}
    /\ configs \in SUBSET {"core", "crd"}
    /\ core \in {"start", "nodes", "sleep", "pods", "done", "fatal"}
    /\ crd \in {"start", "list", "patch", "list again", "done", "gave up", "fatal"}
    /\ {plugin, shown} \subseteq {"absent", "deployed", "updated"}
    /\ {podsShown, gone, applied} \subseteq {0, 1}
    /\ outages \in 0..MaxOutages /\ applies \in 0..MaxApplies

(* A pod whose service account mounts no token has no in-cluster config.   *)
KubeInit ==
    /\ api \in {"refusing", "failing", "up"}
    /\ configs \in SUBSET {"core", "crd"}
    /\ core = "start" /\ podsShown = 0 /\ gone = 0
    /\ crd = "start" /\ plugin \in {"absent", "deployed"} /\ shown = "absent"
    /\ outages = 0 /\ applies = 0 /\ applied = 0

-----------------------------------------------------------------------------
(* The API server and its users.  A call is refused, or fails otherwise    *)
(* (it is answered with an error, breaks off, or what it returns cannot be *)
(* converted), or succeeds.                                                *)
ApiWorsens ==
    /\ outages < MaxOutages
    /\ outages' = outages + 1
    /\ api' \in {"refusing", "failing"} \ {api}
    /\ gone' = IF core = "pods" THEN 1 ELSE gone
    /\ UNCHANGED <<configs, core, podsShown, crd, plugin, shown, applies, applied>>

ApiRecovers ==
    /\ api # "up" /\ api' = "up"
    /\ UNCHANGED <<configs, core, podsShown, gone, crd, plugin, shown, outages,
                   applies, applied>>

(* kubectl apply -f wasm-plugin.yaml, or delete.                           *)
ApplyPlugin ==
    /\ api = "up" /\ applies < MaxApplies
    /\ applies' = applies + 1
    /\ plugin' \in {"absent", "deployed"}
    /\ applied' = IF crd = "list again" THEN 1 ELSE applied
    /\ UNCHANGED <<api, configs, core, podsShown, gone, crd, shown, outages>>

-----------------------------------------------------------------------------
(* The client of the core API.                                             *)
CoreCall == UNCHANGED <<api, configs, gone, crd, plugin, shown, outages, applies,
                        applied>>

(* log.Fatal without a config.                                             *)
GetClient ==
    /\ core = "start"
    /\ core' = IF "core" \in configs THEN "nodes" ELSE "fatal"
    /\ UNCHANGED podsShown /\ CoreCall

(* Mutants: any error is final; the loop is left after the sleep, for want *)
(* of its continue.                                                        *)
ListNodesFatal ==
    /\ core = "nodes"
    /\ core' = IF api = "up" THEN "pods" ELSE "fatal"
    /\ UNCHANGED podsShown /\ CoreCall
WakeAndGoOn ==
    /\ core = "sleep" /\ core' = "pods"
    /\ UNCHANGED podsShown /\ CoreCall

(* Only a refused connection is tried again; any other error is fatal.     *)
ListNodes ==
    /\ core = "nodes"
    /\ core' = CASE api = "refusing" -> "sleep"
                 [] api = "failing"  -> "fatal"
                 [] api = "up"       -> "pods"
    /\ UNCHANGED podsShown /\ CoreCall

Wake ==
    /\ core = "sleep" /\ core' = "nodes"
    /\ UNCHANGED podsShown /\ CoreCall

(* An error is logged, and the program ends all the same.                  *)
ListPods ==
    /\ core = "pods"
    /\ core' = "done"
    /\ podsShown' = IF api = "up" THEN 1 ELSE 0
    /\ CoreCall

-----------------------------------------------------------------------------
(* The client of the WasmPlugins.                                          *)
CrdCall == UNCHANGED <<api, configs, core, podsShown, gone, outages, applies, applied>>

(* log.Fatal without a config, here too.                                   *)
GetInClusterClient ==
    /\ crd = "start"
    /\ crd' = IF "crd" \in configs THEN "list" ELSE "fatal"
    /\ UNCHANGED <<plugin, shown>> /\ CrdCall

ListWasmPlugins ==
    /\ crd = "list"
    /\ crd' = IF api = "up" THEN "patch" ELSE "gave up"
    /\ UNCHANGED <<plugin, shown>> /\ CrdCall

(* The JSON patch replaces the config of a plugin that is there.           *)
PatchWasmPluginConfig ==
    /\ crd = "patch"
    /\ IF api = "up" /\ plugin # "absent"
       THEN plugin' = "updated" /\ crd' = "list again"
       ELSE UNCHANGED plugin /\ crd' = "gave up"
    /\ UNCHANGED shown /\ CrdCall

ListWasmPluginsAgain ==
    /\ crd = "list again"
    /\ IF api = "up" THEN crd' = "done" /\ shown' = plugin
                     ELSE crd' = "gave up" /\ UNCHANGED shown
    /\ UNCHANGED plugin /\ CrdCall

CoreStep == GetClient \/ ListNodes \/ Wake \/ ListPods
CrdStep  == GetInClusterClient \/ ListWasmPlugins \/ PatchWasmPluginConfig
                \/ ListWasmPluginsAgain
KubeNext == ApiWorsens \/ ApiRecovers \/ ApplyPlugin \/ CoreStep \/ CrdStep

-----------------------------------------------------------------------------
(* The client that waited was let in before it lists the pods: they stay   *)
(* unlisted only if the server has gone away again since.  And what the    *)
(* second list of the WasmPlugins shows is the patched config, unless      *)
(* somebody has applied or deleted the plugin in between: nothing ties the *)
(* three calls together.                                                   *)
OutcomesHaveCauses ==
    /\ core = "done" /\ podsShown = 0 => gone = 1
    /\ crd = "done" => shown = "updated" \/ applied = 1

(* As long as the server only refuses connections, however often it comes  *)
(* and goes, the client waits, and is let in once the server stays up.     *)
WaitsOutRefusals ==
    (core = "nodes" /\ [](api # "failing") /\ <>[](api = "up")) ~> core = "pods"

(* kubeapi-client-coreapi/main.go:48 'simply call "get nodes" and retry on *)
(* failure until success': a program that has its client does not end      *)
(* before the server has answered it, whatever kind of failure it meets.   *)
RetriedUntilSuccess == core = "fatal" => "core" \notin configs
=============================================================================
