-------------------------- MODULE KubernetesScripts --------------------------
(***************************************************************************)
(* The run_all.sh scripts of src/Kubernetes.  Each checks what it needs    *)
(* and starts minikube (or exits), makes its objects, waits for them,      *)
(* shows something and stays until Ctrl+C; tearDown removes the objects.   *)
(***************************************************************************)
EXTENDS ScriptSteps

(* What the script needs is there, and minikube runs or is started.         *)
Minikube == Require

(* The namespaces and the clusters the scripts make and delete.            *)
Transients == {"test", "prod", "mychart", "po-polsku-s01e12", "eks", "doks"}

KubernetesHelloWorld == Script(
    <<Minikube, CreateOrExit(Here, {"hello-world-deployment", "hello-world-service"}),
                  Await(Here, {"hello-world-deployment", "hello-world-service"}), Block>>,
    <<Delete(Here, {"hello-world-deployment"}), Delete(Here, {"hello-world-service"})>>)

Webapp == {"webapp-deployment", "webapp-service"}

(* Three images are built; the four kubectl create are joined by &&.       *)
DigitRecon == Script(
    <<Minikube, CreateOrExit(Here, {"checker-deployment"}),
                  CreateOrExit(Here, {"checker-service"}),
                  CreateOrExit(Here, {"webapp-deployment"}),
                  CreateOrExit(Here, {"webapp-service"}),
                  Await(Here, Webapp), Block>>,
    <<Delete(Here, {"webapp-deployment"}), Delete(Here, {"webapp-service"}),
      Delete(Here, {"checker-deployment"}), Delete(Here, {"checker-service"})>>)

StopDigitRecon == Untrapped(
    <<Delete(Here, {"webapp-deployment"}), Delete(Here, {"webapp-service"}),
      Delete(Here, {"checker-deployment"}), Delete(Here, {"checker-service"})>>)

(* The three test_docker_image.sh: one port for all three images, and no   *)
(* trap.  A container in the background does not get the Ctrl+C.  Whoever  *)
(* holds the port answers; docker kill goes by the image.                  *)
TestImage(image) == Untrapped(
    <<Show, Listen("port 8000", image), AwaitAny("port 8000"), Show,
      Delete("port 8000", {image}), Show>>)
TestPngConverter == TestImage("pngconverter")
TestDigitChecker == TestImage("digitchecker")
TestWebapp       == TestImage("webapp")

(* The chart's StatefulSet makes volume claims (values.yaml:9-12), which   *)
(* helm uninstall leaves.                                                  *)
CockroachDB == Script(
    <<Minikube, Create(Here, {"mycluster"}), Apply(Here, {"claims"}),
                  Await(Here, {"mycluster"}), Show, Block>>,
    <<Delete(Here, {"mycluster"})>>)

MinikubeDashboard == Untrapped(
    <<Require, Apply("host", {"dashboard"}), Await("host", {"dashboard"}), Show>>)

InstallTools == Untrapped(
    <<ApplyOrExit("host", {"minikube"}), ApplyOrExit("host", {"helm"}),
      ApplyOrExit("host", {"kubectl"}), ApplyOrExit("host", {"k9s"}),
      ApplyOrExit("host", {"kubectx"})>>)

-----------------------------------------------------------------------------
(* KubernetesPoPolsku, season 1.                                           *)

E01Minikube == Untrapped(<<Minikube, Block>>)

E02OneContainer == Script(
    <<Minikube, Apply(Here, {"hello-world-pod"}),
                  Await(Here, {"hello-world-pod"}), Block>>,
    <<Delete(Here, {"hello-world-pod"})>>)

E02TwoContainers == Script(
    <<Minikube, Apply(Here, {"producer-consumer"}),
                  Await(Here, {"producer-consumer"}), Block>>,
    <<Delete(Here, {"producer-consumer"})>>)

E03Autoscale == Script(
    <<Minikube, Show, Apply(Here, {"hello-world-replicaset", "hello-world-hpa"}),
                  Await(Here, {"hello-world-replicaset"}), Block>>,
    <<Delete(Here, {"hello-world-hpa"}), Delete(Here, {"hello-world-replicaset"})>>)

E03Scale == Script(
    <<Minikube, Apply(Here, {"hello-world-replicaset"}),
                  Await(Here, {"hello-world-replicaset"}), Show,
                  Await(Here, {"hello-world-replicaset"}), Block>>,
    <<Delete(Here, {"hello-world-replicaset"})>>)

ReplicaSetAndService == {"hello-world-replicaset", "hello-world-service"}
DeleteReplicaSetAndService ==
    <<Delete(Here, {"hello-world-service"}), Delete(Here, {"hello-world-replicaset"})>>

E04ClusterIP == Script(
    <<Minikube, Apply(Here, ReplicaSetAndService),
                  Await(Here, {"hello-world-replicaset"}), Show, Block>>,
    DeleteReplicaSetAndService)

E04NodePort == Script(
    <<Minikube, Apply(Here, ReplicaSetAndService),
                  Await(Here, {"hello-world-replicaset"}), Show,
                  Await(Here, {"hello-world-service"}), Block>>,
    DeleteReplicaSetAndService)

E04LoadBalancer == Script(
    <<Minikube, Apply(Here, ReplicaSetAndService),
                  Await(Here, {"hello-world-replicaset"}), Show,
                  Await(Here, {"hello-world-service"}), Block>>,
    DeleteReplicaSetAndService)

E05Ingress == Script(
    <<Minikube, Show, Apply(Here, ReplicaSetAndService \cup {"hello-world-ingress"}),
                  Await(Here, {"hello-world-replicaset"}),
                  Await(Here, {"hello-world-ingress"}), Show,
                  Await(Here, {"hello-world-service"}), Block>>,
    <<Delete(Here, {"hello-world-ingress"})>> \o DeleteReplicaSetAndService)
E05DomainName == E05Ingress
E05Auth       == E05Ingress

(* The watch that shows the upgrade ends with Ctrl+C, as the script does:  *)
(* the rollback after it is never reached.                                 *)
E06Deployment == Script(
    <<Minikube, Apply(Here, {"alpine-linux-deployment"}),
                  Await(Here, {"alpine-linux-deployment"}), Show, Block, Show, Block>>,
    <<Delete(Here, {"alpine-linux-deployment"})>>)

E07Embedded == Script(
    <<Minikube, Apply(Here, {"my-config-map", "alpine-linux-pod"}),
                  Await(Here, {"alpine-linux-pod"}), Show, Block>>,
    <<Delete(Here, {"my-config-map", "alpine-linux-pod"})>>)

E07FromFile == Script(
    <<Minikube, Apply(Here, {"my-config-map"}), Apply(Here, {"alpine-linux-pod"}),
                  Await(Here, {"alpine-linux-pod"}), Show, Block>>,
    <<Delete(Here, {"alpine-linux-pod"}), Delete(Here, {"my-config-map"})>>)

(* kubectl is switched to the two namespaces and back; tearDown does not   *)
(* switch.                                                                 *)
E08Namespaces == Script(
    <<Minikube, Create(Places, {"test"}), Create(Places, {"prod"}), Show,
                  Apply("test", {"test-pod"}), Apply("prod", {"prod-pod"}),
                  Switch("test"), Show, Switch("prod"), Show, Switch("default"), Block>>,
    <<Delete(Places, {"test"}), Delete(Places, {"prod"})>>)

DokuWiki == Script(
    <<Minikube, Create(Here, {"my-dokuwiki"}),
                  Await(Here, {"my-dokuwiki"}), Block>>,
    <<Delete(Here, {"my-dokuwiki"})>>)
E09Original   == DokuWiki
E09Customized == DokuWiki

E10ChartMuseum == Script(
    <<Minikube, Create(Here, {"mychartmuseum"}), Show,
                  Await(Here, {"mychartmuseum"}), Show, Block>>,
    <<Delete(Here, {"mychartmuseum"})>>)

E10NoDependency == Script(
    <<Minikube, Show, Create(Here, {"mychart"}), Await(Here, {"mychart"}),
                  Show, Block>>,
    <<Delete(Here, {"mychart"})>>)

(* The database of the chart makes volume claims, which go away with the   *)
(* namespace.                                                              *)
E10WithDependency == Script(
    <<Minikube, Create(Places, {"mychart"}), Show,
                  Create("mychart", {"mychart"}), Apply("mychart", {"claims"}),
                  Await("mychart", {"mychart"}), Block>>,
    <<Delete("mychart", {"mychart"}), Delete(Places, {"mychart"})>>)

E12Hardcoded == Script(
    <<Minikube, Apply(Here, {"hostpath-pod"}), Show, Block>>,
    <<Delete(Here, {"hostpath-pod"})>>)

(* The persistent volumes are in no namespace.                             *)
E12VolumeClaim == Script(
    <<Minikube, Create(Places, {"po-polsku-s01e12"}),
                  Switch("po-polsku-s01e12"),
                  Apply("cluster", {"hostvol1", "hostvol2"}),
                  Apply(Here, {"pvc-data", "volumeclaim-pod"}), Show, Block>>,
    <<Switch("default"), Delete(Places, {"po-polsku-s01e12"}),
      Delete("cluster", {"hostvol1"}), Delete("cluster", {"hostvol2"})>>)

Secret == Script(
    <<Minikube, Apply(Here, {"mysecret"}), Apply(Here, {"alpine-linux-pod"}),
                  Show, Block>>,
    <<Delete(Here, {"alpine-linux-pod"}), Delete(Here, {"mysecret"})>>)
E13Embedded == Secret
E13FromFile == Secret

-----------------------------------------------------------------------------
(* Clusters in the cloud: one script makes the cluster, another deletes    *)
(* it, and the examples run in between.                                    *)

Eks  == <<Places, "eks">>
Doks == <<Places, "doks">>

EksCreate == Untrapped(
    <<Require, Create(Places, {"eks"}), Apply("eks", {"dashboard"}),
      Apply("eks", {"heapster"}), Apply("eks", {"eks-admin"}), Apply("eks", {"gp2"}),
      Create("eks", {"ingress-nginx"})>>)

EksDelete == Untrapped(
    <<Require, Delete("eks", {"dashboard"}), Delete("eks", {"heapster"}),
      Delete("eks", {"ingress-nginx"}), Delete(Places, {"eks"})>>)

EksHelloWorld == ScriptAfter({Eks},
    <<Require, Apply("eks", {"hello-world-service", "hello-world-deployment"}),
      Await("eks", {"hello-world-service", "hello-world-deployment"}), Block>>,
    <<Delete("eks", {"hello-world-service", "hello-world-deployment"})>>)

EksDokuWiki == ScriptAfter({Eks, <<"eks", "ingress-nginx">>},
    <<Require, Show, Create("eks", {"my-dokuwiki"}),
      Await("eks", {"my-dokuwiki"}), Block>>,
    <<Delete("eks", {"my-dokuwiki"})>>)

EksDashboard == ScriptAfter({Eks, <<"eks", "eks-admin">>},
    <<Show, Create("host", {"kubectl proxy"}), Await("host", {"kubectl proxy"}), Block>>,
    <<Delete("host", {"kubectl proxy"})>>)

InstallEks == Untrapped(
    <<Apply("host", {"awscli"}), Show, Apply("host", {"eksctl"})>>)

DoCreate == Untrapped(
    <<Create(Places, {"doks"}), Show, Apply("doks", {"digitalocean-admin"}),
      Apply("doks", {"dashboard"}), Create("doks", {"ingress"}),
      Create("doks", {"nginx-ingress"})>>)

DoDelete == Untrapped(
    <<Delete("doks", {"nginx-ingress"}), Delete("doks", {"ingress"}),
      Delete("doks", {"dashboard"}), Show, Delete(Places, {"doks"})>>)

DoHelloWorld == ScriptAfter({Doks},
    <<Require, Apply("doks", {"hello-world-service", "hello-world-deployment"}),
      Await("doks", {"hello-world-service", "hello-world-deployment"}), Block>>,
    <<Delete("doks", {"hello-world-service", "hello-world-deployment"})>>)

DoDokuWiki == ScriptAfter({Doks, <<"doks", "nginx-ingress">>},
    <<Require, Show, Create("doks", {"my-dokuwiki"}),
      Await("doks", {"my-dokuwiki"}), Block>>,
    <<Delete("doks", {"my-dokuwiki"})>>)

DoDashboard == ScriptAfter({Doks, <<"doks", "digitalocean-admin">>},
    <<Show, Create("host", {"kubectl proxy"}), Await("host", {"kubectl proxy"}), Block>>,
    <<Delete("host", {"kubectl proxy"})>>)
=============================================================================
