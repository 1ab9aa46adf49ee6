----------------------------- MODULE HostScripts -----------------------------
(***************************************************************************)
(* The run_all.sh scripts of src/Ansible, src/Prometheus,                  *)
(* src/Prometheus+Grafana, src/Terraform and src/Terraform+Ansible: docker *)
(* containers known by their names, and cloud resources known to the       *)
(* terraform state of the script's own directory.                          *)
(***************************************************************************)
EXTENDS ScriptSteps

Docker == "docker"

(* Containers with an ssh server that Ansible configures: ssh is tried     *)
(* until it answers, and the script ends by calling tearDown itself.       *)
KillEach(one, other) == <<Delete(Docker, {one}), Delete(Docker, {other})>>

AsyncCommand == Script(
    <<Require, Create(Docker, {"linux1"}), Await(Docker, {"linux1"}),
      Show, TearDown>>,
    <<Delete(Docker, {"linux1"})>>)
RunDaemon == AsyncCommand

ConnectionDocker == Script(
    <<Require, Create(Docker, {"linux1"}), Create(Docker, {"linux2"}), Show,
      TearDown>>,
    KillEach("linux1", "linux2"))

GetRemoteResources == Script(
    <<Require, Create(Docker, {"linux1"}), Create(Docker, {"linux2"}),
      Await(Docker, {"linux1"}), Await(Docker, {"linux2"}), Show, TearDown>>,
    KillEach("linux1", "linux2"))

InstallPythonPip == Script(
    <<Require, Create(Docker, {"linux1"}), Create(Docker, {"linux2"}),
      Await(Docker, {"linux1"}), Await(Docker, {"linux2"}), Show, TearDown>>,
    KillEach("linux1", "linux2"))

ProvisionApacheNginx == Script(
    <<Require,
      Create(Docker, {"server_nginx"}), Create(Docker, {"server_apache"}),
      Await(Docker, {"server_nginx"}), Await(Docker, {"server_apache"}),
      Show, TearDown>>,
    KillEach("server_nginx", "server_apache"))

ProvisionUserSshd == Script(
    <<Require, Create(Docker, {"linux1"}), Show,
      Await(Docker, {"linux1"}), Show, TearDown>>,
    <<Delete(Docker, {"linux1"})>>)

(* The container's name is the argument; linux1, as its message proposes.  *)
RunAndSsh == Script(
    <<Require, Create(Docker, {"linux1"}), Await(Docker, {"linux1"}),
      TearDown>>,
    <<Delete(Docker, {"linux1"})>>)

(* No container is started, and tearDown has nothing to do.                *)
DumpAllVariables == Script(<<Require, Show>>, <<>>)

LocalPlaybook    == Untrapped(<<Require, Show>>)
CustomModule     == LocalPlaybook
Hostvars         == LocalPlaybook
RegisterVariable == LocalPlaybook
Tags             == LocalPlaybook
Vault            == LocalPlaybook

-----------------------------------------------------------------------------
(* The metric provider loops for good: what follows it is never reached.   *)

Prometheus == Script(
    <<Require, Create(Docker, {"my_prometheus"}), Show, Block, Show, Block>>,
    <<Delete(Docker, {"my_prometheus"})>>)

PrometheusGrafana == Script(
    <<Require, Create(Docker, {"my_prometheus"}), Create(Docker, {"my_grafana"}),
      Show, Block, Block>>,
    <<Delete(Docker, {"my_prometheus"}), Delete(Docker, {"my_grafana"})>>)

-----------------------------------------------------------------------------
(* terraform init, apply, something shown, and destroy.                    *)

(* An output and no resources: tearDown has nothing to destroy.            *)
TerraformOutput == Script(<<Require, Show, TearDown>>, <<>>)

CustomProvider == Untrapped(
    <<Require, Show, Apply("custom-provider", {"fibb_of_10"}), Show>>)

Ec2Instance == Script(
    <<Require, Apply("ec2-instance", {"terraform-study"}), Show, Block>>,
    <<Delete("ec2-instance", {"terraform-study"})>>)

Ec2InstanceSsh == Script(
    <<Require, Apply("ec2-instance-ssh", {"terraform-study", "allow_ssh"}),
      Await("ec2-instance-ssh", {"terraform-study", "allow_ssh"}), Block>>,
    <<Delete("ec2-instance-ssh", {"terraform-study", "allow_ssh"})>>)

AwsCluster == Script(
    <<Require, Apply("aws-cluster", {"vpc", "eks", "worker groups"}),
      Show, Block>>,
    <<Delete("aws-cluster", {"vpc", "eks", "worker groups"})>>)

(* The bucket holds the terraform state; it is made first, removed last.   *)
S3Backend == Script(
    <<Require, Create("aws", {"bucket"}), Show,
      Apply("s3_backend", {"terraform-study"}), Show, Block>>,
    <<Delete("s3_backend", {"terraform-study"}), Delete("aws", {"bucket"})>>)

Droplet == Script(
    <<Require, Apply("droplet", {"terraform-study"}),
      Await("droplet", {"terraform-study"}), TearDown>>,
    <<Delete("droplet", {"terraform-study"})>>)

(* The call of tearDown at the end comes after keepAlive.                  *)
DropletNginx == Script(
    <<Require, Apply("droplet-nginx", {"terraform-study"}),
      Show, Block, TearDown>>,
    <<Delete("droplet-nginx", {"terraform-study"})>>)

Haproxy2Nginx == Script(
    <<Require,
      Apply("haproxy-2nginx", {"web-haproxy", "web-nginx1", "web-nginx2"}),
      Await("haproxy-2nginx", {"web-haproxy"}), Block>>,
    <<Delete("haproxy-2nginx", {"web-haproxy", "web-nginx1", "web-nginx2"})>>)

DoCluster == Script(
    <<Require, Apply("do-cluster", {"my-kubernetes-cluster"}), Show, Block>>,
    <<Delete("do-cluster", {"my-kubernetes-cluster"})>>)

TerraformAnsible == Script(
    <<Require,
      Apply("terraform-ansible", {"ec2-web-server", "allow_ssh", "allow_http"}), Show,
      Await("terraform-ansible", {"ec2-web-server"}), Block>>,
    <<Delete("terraform-ansible", {"ec2-web-server", "allow_ssh", "allow_http"})>>)

InstallAws == Untrapped(
    <<Apply("host", {"awscli"}), Show, Apply("host", {"aws-iam-authenticator"})>>)
=============================================================================
