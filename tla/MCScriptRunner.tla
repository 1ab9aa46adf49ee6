--------------------------- MODULE MCScriptRunner ---------------------------
(* The whole book.  Two runs show what one script leaves for another.      *)
EXTENDS ScriptRunner, KubernetesScripts, HostScripts

Scripts == [
    KubernetesHelloWorld |-> KubernetesHelloWorld, DigitRecon |-> DigitRecon,
    StopDigitRecon |-> StopDigitRecon, TestPngConverter |-> TestPngConverter,
    TestDigitChecker |-> TestDigitChecker, TestWebapp |-> TestWebapp,
    CockroachDB |-> CockroachDB, MinikubeDashboard |-> MinikubeDashboard,
    InstallTools |-> InstallTools, E01Minikube |-> E01Minikube,
    E02OneContainer |-> E02OneContainer, E02TwoContainers |-> E02TwoContainers,
    E03Autoscale |-> E03Autoscale, E03Scale |-> E03Scale,
    E04ClusterIP |-> E04ClusterIP, E04NodePort |-> E04NodePort,
    E04LoadBalancer |-> E04LoadBalancer, E05DomainName |-> E05DomainName,
    E05Auth |-> E05Auth, E06Deployment |-> E06Deployment,
    E07Embedded |-> E07Embedded, E07FromFile |-> E07FromFile,
    E08Namespaces |-> E08Namespaces, E09Original |-> E09Original,
    E09Customized |-> E09Customized, E10ChartMuseum |-> E10ChartMuseum,
    E10NoDependency |-> E10NoDependency,
    E10WithDependency |-> E10WithDependency, E12Hardcoded |-> E12Hardcoded,
    E12VolumeClaim |-> E12VolumeClaim, E13Embedded |-> E13Embedded,
    E13FromFile |-> E13FromFile, EksCreate |-> EksCreate,
    EksDelete |-> EksDelete, EksHelloWorld |-> EksHelloWorld,
    EksDokuWiki |-> EksDokuWiki, EksDashboard |-> EksDashboard,
    InstallEks |-> InstallEks, DoCreate |-> DoCreate, DoDelete |-> DoDelete,
    DoHelloWorld |-> DoHelloWorld, DoDokuWiki |-> DoDokuWiki,
    DoDashboard |-> DoDashboard, AsyncCommand |-> AsyncCommand,
    RunDaemon |-> RunDaemon, ConnectionDocker |-> ConnectionDocker,
    GetRemoteResources |-> GetRemoteResources,
    InstallPythonPip |-> InstallPythonPip,
    ProvisionApacheNginx |-> ProvisionApacheNginx,
    ProvisionUserSshd |-> ProvisionUserSshd, RunAndSsh |-> RunAndSsh,
    DumpAllVariables |-> DumpAllVariables, CustomModule |-> CustomModule,
    Hostvars |-> Hostvars, RegisterVariable |-> RegisterVariable, Tags |-> Tags,
    Vault |-> Vault, Prometheus |-> Prometheus,
    PrometheusGrafana |-> PrometheusGrafana,
    TerraformOutput |-> TerraformOutput, CustomProvider |-> CustomProvider,
    Ec2Instance |-> Ec2Instance, Ec2InstanceSsh |-> Ec2InstanceSsh,
    AwsCluster |-> AwsCluster, S3Backend |-> S3Backend, Droplet |-> Droplet,
    DropletNginx |-> DropletNginx, Haproxy2Nginx |-> Haproxy2Nginx,
    DoCluster |-> DoCluster, TerraformAnsible |-> TerraformAnsible,
    InstallAws |-> InstallAws]

(* TLC evaluates Scripts once; what a .cfg names, it evaluates at each use. *)
Examples == Scripts
=============================================================================
