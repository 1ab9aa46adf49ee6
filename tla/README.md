# Verification of DevOpsStudy

DevOpsStudy is a collection of small systems that show DevOps tools at work:
Envoy with WASM filters written in Go, an application of three Python services
on Kubernetes, traffic generators, and some seventy shell scripts that build
up and tear down lessons on Kubernetes, Ansible, Terraform and Prometheus.
Nothing here is big, but most of it is concurrent: worker threads that share a
counter, replicas that share a directory, servers that wait for one another,
and scripts that Ctrl+C may interrupt at any command.

This directory holds TLA+ models of those parts, TLC configurations that check
them on small instances, and TLAPS proofs of the most important results for
every value of the constants. `PROJECT.json` maps every definition to the lines
it stands for.

    tlc -workers 2 -config SharedData.cfg MCSharedData      # any run
    tlapm SharedDataProofs.tla                              # any proof

## 1. The system

| component | state | operations | interacts with |
|---|---|---|---|
| Envoy filter `shared_data` | a counter and its cas in the host's shared data | read, store with cas, print | every worker thread's VM, two instances per request |
| Envoy filter `shared_queue` | counters in the host's shared queue | resolve or register, dequeue, enqueue, print | as above |
| Envoy filter `read_request_body` | the size of the body told so far | pause or continue per piece, read, print | the host's buffer |
| Envoy filter `read_filter_config` | a configured string | set a header | |
| Envoy `two-clusters` | talker threads, handlers at work, Envoy's routes | start, ask, answer, time out | cities call each other through Envoy |
| DigitRecon `digitchecker` | `/tmp/model`, shared by the replicas | train, save, serve, be probed, recognise | webapp, pngconverter, kubelet |
| DigitRecon `webapp` | the one connection it handles | accept, post, respond | page, checker-service |
| DigitRecon `pngconverter` | none | convert | digitchecker of its pod |
| DigitRecon page | canvas, listeners, posts in flight, result | mousedown, mousemove, mouseup, clear, callbacks | webapp |
| example scripts | what they made in the cluster, in docker, in the cloud; kubectl's namespace | create, apply, delete, wait, switch, tear down | each other, through what they leave behind |
| Terraform provider `fibb` | id, n, result in terraform's state | create, read, update, delete | terraform |
| Terraform S3 backend | a bucket, the terraform.tfstate in it, instances | make, init, apply, destroy, remove | terraform, AWS, other users |
| Kubernetes API clients | where the program is | wait for the server, list, patch | API server |
| Prometheus, Grafana, Istio, Ansible, Helm, Tilt | declarations | applied by tools that are not in the repository | |

What is hard, and what makes each part correct:

* **shared_data.** A value read is stored later, and another worker may have
  stored in between. The cas catches that, except when there is no entry yet:
  then the store is unconditional. Correct means: no value is skipped, and a
  value is repeated only by restarts, one per worker at most.
* **shared_queue.** An empty queue means "first run" to the code, but also
  "somebody else has the counter". Correct would be one counter; what holds is
  that the counters are bounded by the workers and each of them is exact.
* **digitchecker start-up.** Check and training are not atomic, the directory
  is shared, and a container may be killed within a save.
* **DigitRecon requests.** Three serial servers without timeouts, a 200 header
  sent before there is a result, probes that queue behind requests, kills.
  Correct means: nobody waits for a request nobody has, every post is answered,
  an empty answer has a reason one can name.
* **The page.** Several posts in flight write one field.
* **two-clusters.** Envoy is started last although everything needs it, and a
  talker that asks too early is lost; a timeout shorter than the slowest answer.
* **Scripts.** Ctrl+C at any command, tearDown's own included; commands that
  fail and are ignored; names shared by scripts; a webapp that learns where its
  checker is only when it starts.
* **read_request_body.** Pieces whose sizes are added up, and a host that may
  tell the size of a piece or of the whole buffer; streams that end in
  trailers; a host call that fails while the request is paused.
* **fibb.** An update refused half-way, under terraform's partial mode, and an
  apply that dies before it saves.
* **S3 backend.** No lock on the state; a state file removed by force, whatever
  it still lists; Ctrl+C between making an instance and saving that it exists.
* **Kubernetes API clients.** An API server that comes, goes, and fails in
  other ways than by refusing; three calls that nothing ties together.
  Correct means: who waits is let in once the server stays up, and what is
  shown at the end is explained by what happened since.

## 2. The modules

`SharedData`, `SharedQueue`, `ModelStartup`, `DrawPage`, `TwoClusters` and
`ScriptRunner` are each a specification of their own. `DigitPipeline` extends
`ModelStartup` and composes it with the servers. `BodyFilter`, `FibbResource`,
`KubeClients` and `S3Backend` are composed in `ExamplePrograms`.
`RestartingCounter` and `SerialServer` are abstract specifications. `MC...` modules give constants to TLC; `...Proofs`
modules hold theorems, one for each of these specifications
(`ExampleProgramsProofs` for its four programs). Operators marked "Mutant" in a comment are variants of
the definition below them, each a plausible mistake; they are part of no
specification, and each property has one that it catches.

### SharedData (Envoy/golang_wasm_filters/shared_data)

One `pc` per Envoy worker. `Receive` is a request entering the chain
(`NewHttpContext`), `GetCounter` is `getCounter`, `PutCounter` and
`PutMismatch` are the two outcomes of `putCounter`, `HostFault` is any other
failing host call, `LogCounter` is the log line, and `Continue` is
`ActionContinue`: on to the second instance of the filter in `envoy.yaml`, or
out. `data` is the host's entry (value and cas); `Accepts` is the host's rule.
`restarted` is a history variable. `Itoa`/`Atoi` are inverse on the values
that can occur, which is why values stay numbers.

`RestartingCounter` says what the filters promise together: a counter that
gives each value to one caller and may start again from 1 a bounded number of
times. `SharedData` implements it under the mapping at the end of the module.

### SharedQueue (.../shared_queue)

The same structure with a `registered` flag, a `queue` of counters, and steps
for `ResolveSharedQueue`, `RegisterSharedQueue`, `DequeueSharedQueue`
(`TakeCounter`, or `StartCounter` when it is empty) and `EnqueueSharedQueue`.
`LoseCounter` is the enqueue whose error `getIncCounter` drops
(`main.go:75`): the value is printed all the same.

### ModelStartup (Kubernetes/DigitRecon/digitchecker)

`disk` is what exists of `/tmp/model`: the directory, the variables, the graph.
`model.save` is one call of the code; that it writes the directory first and
the graph last is TensorFlow's doing (`Parts`, `NextPart`: external). `Boot` is
the existence check in `main.py`, `Train` and `Save` are `trainModel`,
`ProbeOK` is the readiness probe on `/healthcheck`, `Kill` a container that
dies and is restarted. The properties are checked where requests are about, in
DigitPipeline's run; the module's own `Spec` serves ModelStartupTorn and the
proofs.

### DigitPipeline (webapp, digitchecker, pngconverter, the service)

A request goes through `Submit`, `Accept`, `Post` or `PostRefused`, `Take`,
`Convert`, `Recognise`, `Respond`. `webapp` and `job[r]` hold the one request a
serial server is handling. `Probe` answers only between two requests. Kills of
a replica (`KillChecker`), of the webapp and of a converter say what the other
end of each connection gets. Images are of three kinds: one the network can
take, the page's canvas, and no picture. Of the two containers of a pod only
the checker is probed and neither waits for the other, so no converter runs at
first (`PipelineInit`) and each comes up at any time, or never
(`StartConverter`); until then, and when it has stopped, `Convert` falls back
to the original image. `missed` is a history variable: the pictures that
met no converter, or one that died over it.

`SerialServer` says what all of it looks like from the page: one server that
handles one request at a time, answers each once with a text that fits it, and
cuts connections only when it restarts. `ServerSpec` maps a request that is
being posted or waited for to "handled"; kills of a checker or a converter, the
start-up of replicas and the probes are stutters. `DrawPage` sees the webapp as
such a server.

### DrawPage (webapp/main.html)

`onPaint` is the mousemove listener, `requests` and `answers` are posts on
their way. Each behaviour carries the assumptions it may rely on (`habits`:
answers in order, a patient user, the button released over the canvas), so that
the properties say which assumption each promise needs.

### TwoClusters (Envoy/two-clusters)

`RunCity`, `LoadApp`, `Serve` and `RunEnvoy` are `docker-compose up` with its
`depends_on`; a talker pauses, asks (`Ask`), and prints an answer, Envoy's 503
(`Unavailable`) or its 504 (`TimeOut`). `Die` is the ConnectionError nobody
catches. `work[c]` lists the seconds left to every handler working for c,
abandoned ones included. `Tick` lets a second pass when nothing is due.

### ScriptSteps, KubernetesScripts, HostScripts, ScriptRunner

A script is data: a sequence of steps for its main part and one for `tearDown`.
`ScriptSteps` defines the steps, `KubernetesScripts` and `HostScripts` the
scripts, one definition for each, `ScriptRunner` what bash, kubectl, helm,
docker and terraform do with a step. `Interrupt` is Ctrl+C: the command at hand
has done any part of its work, then tearDown begins, or begins again. `Fail` is
a command that fails; only scripts that test `$?` stop. `namespace` is what
`kubens` last switched to, and `astray` where kubectl stayed when a `kubens`
failed, which is where objects then go. A pod's
environment is fixed when it starts (`digitcheckerapi.py:8`), so the webapp
finds its checker only if the checker's service was there first;
WebappFindsChecker checks that the chain of `&&` in `run_all.sh:56-59` keeps
that order also when commands fail or are interrupted.

Four assumptions say of the steps of each script what the proofs need.
`TidyAssumption`: a tearDown names everything its main part makes.
`ChainedAssumption`: the webapp is made only behind a strict create of the
checker's service. `ApartAssumption`: a create that a script tests for takes
names that nothing else has, a script switches to namespaces that are there or
that it has made, a script with a trap stays or calls its tearDown, and no
tearDown deletes a name that scripts without a trap leave (`Lasting`).
`AwaitedAssumption`: what a loop waits for is made by a step before it in the
same place, with nothing in between that removes or switches. All four are
about the text of one script at a time, or about names that two scripts share.
TLC evaluates them on all the scripts, so a script that forgets a `kubectl
delete`, or waits for a misspelt name, is found at once; what is left to the
properties is whether that is enough when scripts run one after the other,
with Ctrl+C, failures and switches in any order.

### BodyFilter (.../read_request_body; Istio's plugin has the same handler)

One `stream` per request. A piece arrives with its size (`BodyArrives`);
`tells` says which size the host passes. `MoreToCome` is ActionPause;
`BodyRead` and `BodyUnread` are the two outcomes of GetHttpRequestBody at the
end of the stream. Trailers, Envoy's 413 and a client that leaves are the
environment's.

### FibbResource (Terraform/custom-provider)

The user edits `main` and applies; `plan` is what terraform is about to do;
`Create`, `Update` and `Delete` are the provider's functions with what
terraform saves of their ResourceData. `Killed` is a terraform that dies before
it saves. `fibb` is computed in an int of `Width` bits; `Fibonacci` is the
reference without overflow.

### KubeClients (Kubernetes/kubeapi-client-coreapi, kubeapi-client-crd)

`core` and `crd` are the two programs, one step per call, from `getClient` and
`getInClusterClient` on, which are fatal in a pod without an in-cluster config
(`configs`). `api` is how the server takes a call: refuses the connection,
fails otherwise, or answers. `gone` and `applied` are history variables: the
server went away from a client it had let in; the plugin was applied or deleted
after the patch.

### S3Backend (Terraform/AWS/s3_backend)

The script of each user, command by command, against one bucket. terraform is
three steps: `ReadState`, `MakeInstance` or `DestroyInstance`, `WriteState`.
`Press` is a Ctrl+C, which terraform obeys when it has saved; `PressAgain` is
the second one, on which it quits at once. `PrintDNS` may leave its copy of the
state behind, which `InitDone` may put over a newer one. `overlaps`,
`awsFaults`, `aborts` and `stale` count the misfortunes that `OrphansCharged` charges for. (HostScripts has the
same script as one of many, with terraform's commands as single steps: there it
is checked against the others, here against itself.)

### ExamplePrograms

The four do not interact. A behaviour chooses one (`program`) and leaves the
others as they begin, so one run explores the sum of the four state spaces and
not their product; each `Run...` action is one program's next-state relation.

## 3. The runs

| run | instance | states | shows |
|---|---|---|---|
| SharedData | 3 workers, 2 filters, 3 requests, 1 fault | 56,405 | repeats and losses are bounded; refinement of RestartingCounter; no request is held |
| SharedQueue | the same | 60,172 | counters are bounded by the workers, each counts exactly, forks are never merged |
| SharedQueueFork | 2 workers, 2 requests, no fault | violated | a value is printed twice |
| ModelStartupTorn | 2 replicas, 1 kill | violated | a torn save is never repaired |
| DigitPipeline | 2 replicas, 2 requests (canvas, no picture), 1 kill of each kind, converters that come up at any time | 917,284 | who can serve without a model, and that it gets there unless a save was torn; nobody waits in vain, every post is answered, empty answers have a cause; refinement of SerialServer |
| DigitPipelineText | 2 replicas, 2 canvases, no kill | violated | an empty text is passed on as a result |
| DrawPage | 3 strokes, 3 posts, every set of habits | 41,298 | what each habit is enough to promise |
| TwoClusters | 2 European cities, 1 Antarctic one | 240,906 | abandoned handlers do not pile up, only who never spoke falls silent, who spoke once speaks for ever |
| ScriptRunner | all scripts, any 2 in a row, 2 Ctrl+C, 2 failing commands | 1,156,381 | tearDown is clean, scripts do not bar each other or wait in vain, the webapp finds its checker |
| ScriptNamespace | all scripts, 1 of them, 1 Ctrl+C | violated | kubectl stays in a namespace that is gone |
| ExamplePrograms | 2 requests of up to 3 bytes, a buffer of 2, 1 host fault; n in -1, 0, 1, 2, 10, 11, 12 on 7 bits; 2 outages, 2 applies; 2 users, 3 sessions, 1 AWS fault, 4 Ctrl+C | 482,583 | the body is printed whole or for a reason not at all, and no request is held; result is the Fibonacci number of n; what the clients show at the end has a cause, and who waits for a server that refuses is let in; lost instances are paid for |
| KubeClientsRetry | the same, without other users' applies | violated | a failure that is not a refusal ends the client that retries |

Why the bounds are enough. Two workers race, a third shows that the bounds on
repeats grow with the workers and not with the races; three requests through
two filters give every worker a second run, after a restart, a refusal or a
fault. Two replicas let one save while the other starts into the save, and one
kill meets the one that saves at every part, or the other one. Two
requests are one in the webapp and one in its backlog, and one kill of each
kind meets every stage of them. With three posts, one answer can overtake a
second and be followed by a third. Handlers of different talkers do not
interact, so two talkers on one city show what more would. Two scripts show
what one leaves for the next; since objects are only compared by name and
place, a third can meet nothing new that two did not leave. Two Ctrl+C are one
in the script and one in its tearDown; two failing commands, one that leaves
kubectl in a namespace and one switch that then fails. A body of three bytes is one piece, two
or three, below or above the buffer. On 7 bits fibb(10) is the last number that
fits. (fibb(92) is on 64, but the naive recursion takes too long to get there:
the width is only what an int of Go is.) Two outages are one that keeps the
client waiting and one that comes when it is let in. Two users are one that reads and
one that writes in between, a third session meets what they left, and four
Ctrl+C are two aborts.

Four runs turn the deadlock check off. In the two ScriptRunner runs the user
runs a bounded number of scripts, and then stops; a script that waits for
something that was never made does so until Ctrl+C, of which there are only
two. (The waits that matter are the subject of NeverAwaitsInVain, an
invariant.) In ExamplePrograms and KubeClientsRetry the programs end, and users
and faults are bounded.
Elsewhere a system that is done has a stuttering step of its own (`AllServed`,
`AllAnswered`, `Stopped`), so that any other stop is reported.

### Fairness

* `SharedData`: weak fairness of each worker's `Run`. A worker thread runs a
  request to its end; none is obliged to receive one. `SharedQueue`: none; its
  properties are safety properties.
* `ModelStartup`: weak fairness of each replica's `Progress`: a container that
  runs goes on, the kubelet restarts it and probes it. No kill is assumed. Only
  ModelStartupTorn runs under it.
* `DigitPipeline`: weak fairness of the webapp's thread, of each checker's
  thread, start-up included, and of the probe of an idle replica. The
  probe of a busy one is not assumed: a request may be quicker. Nor are
  `Submit`, the kills, or that a converter ever comes up: liveness does not
  need it.
* `DrawPage`: weak fairness of `Answer` and `SetResult` (DigitPipeline's
  EveryDrawingAnswered is what justifies the first); none of the user.
* `TwoClusters`: weak fairness of each city's start and talk steps, of
  `RunEnvoy`, and of `Tick`.
* `ScriptRunner`: none; its properties are safety properties.
* `ExamplePrograms`: weak fairness of `Arrives` for each request: a client that
  has begun goes on sending, and the worker handles what came; and of the
  steps of the client that waits for the API server: a process that runs goes
  on, a sleep ends. Nothing is assumed of users, servers or faults;
  WaitsOutRefusals says in its own premise that the server refuses at most, and
  stays up in the end.

### What the code does not do

Five runs end in a counterexample, each to a statement of the repository.

* **SharedQueueFork.** The README of shared_queue shows each value once. The
  second worker finds the queue empty while the first has the counter, and
  prints 1 again (`main.go:95`).
* **ModelStartupTorn.** `run_all.sh:74` promises a trained model after about a
  minute. A container killed between the directory and the graph leaves a
  directory that every later start takes for the model (`main.py:10`).
* **DigitPipelineText.** `digitcheckerapi.py:5` promises JSON. A replica
  that serves while another saves has sent its 200 header before the model
  fails to load, and the webapp passes on an empty text.
* **ScriptNamespace.** The namespaces lesson says it goes back to the default
  namespace. Ctrl+C between the two switches deletes the namespace kubectl is
  in, and does not switch.
* **KubeClientsRetry.** A comment of kubeapi-client-coreapi (`main.go:48`) says
  it retries "on failure until success". Only a refused connection is retried
  (`main.go:51`); any other failure is fatal, and nothing restarts the pod.

Other behaviours the passing runs show without a run of their own: two
shared_data workers that both start from an absent key print 1 twice and set
the counter back; a run refused by the cas is neither counted nor printed; a
replica is ready before there is a model; while the pngconverter is not up yet,
or has stopped, the original image goes to a network that cannot take it; a result shown on the page may
belong to a picture that has been cleared; a city of two-clusters that asks
before Envoy listens is silent for good while it looks healthy; a volume claim
made for a chart survives its tearDown, and objects created after a failed
`kubens` stay in the namespace kubectl was in: TornDownClean names both. A body
that ends in trailers passes unprinted, and a host that tells the whole buffer
makes the filter ask for more than there is (38 for 19 bytes in the example's
own log), which is harmless. The id of a fibb resource names its first n, not
its present one. Two users of the S3
example who overlap may lose an instance, as does a bucket removed after a
destroy that failed; and so may one who answers yes when terraform offers to
copy the state that an interrupted printDNS left in the clone.

## 4. The proofs

TLAPS proves the following for every value of the constants. The assumptions
say what a constant is (finite sets, natural numbers, at least one filter, an
int of two bits or more, a "none" that is nothing else), and for the scripts
how their steps name what they make, remove and wait for (`TidyAssumption`,
`ChainedAssumption`, `ApartAssumption`, `AwaitedAssumption`, section 2). They
stand in the module that declares the constants, and TLC evaluates them in the
runs.

**SharedDataProofs.** `TypeCorrect`, then the inductive invariant
`CasInv`, of three parts. `CasOrder`: an entry that is there has a positive cas,
no cas given out so far is the next one, and whoever found no entry has read
the value 1. `RestartOnce`: who stored without a cas is never about to do so again.
`CasGuardsValue`: a cas that matches was read with the value that is stored.
The last two are no properties of the run: that they hold follows from the
three parts together. None is inductive alone: RestartOnce needs to know that an entry, once there,
has a positive cas, and CasGuardsValue that a fresh cas matches no older one. From it
`PutImplements` and `StepImplements` show that each step is a step of
RestartingCounter or a stutter (`ImplementsPromise`). RestartingCounter's own
invariant `OncePerStart` then gives `BoundedReprints` and `NoValueSkipped`
through the mapping, instead of a second proof about the workers.
`GoesBackOnlyByRestart` is the action property, from the same invariant.
`MismatchesBounded` needs more than counting mismatches: a store makes stale
whatever the other workers have read, and each of these runs is a mismatch to
come. `StaleCharged` counts both, and says that each store adds at most one per
other worker.

**SharedQueueProofs.** `TypeCorrect`; `CountersBounded` from "counters in the
queue plus workers that hold one never outnumber the workers": a new counter is
started only when the queue is empty, by a worker that holds none.
`CountersCountOnce` relates, for each value, the runs it was given to with the
counters that have passed it; `BoundedReprints` follows from the two.
`ForksStay` is the action property ForksNeverHeal: the counters, in the queue
and in hand, only ever grow in number but for the lost ones. Most of the work is in lemmas on how the
counting sets change when a counter enters or leaves the queue.

**ModelStartupProofs.** `TypeCorrect`, and `OnlySaveWindow` from `SaveInv`: a
replica that is about to write a part has written those before it, and if the
directory is there but the model is not complete, then somebody is saving or a
save was torn. The second half is what makes a serving replica's existence
check meaningful; the first, which rests on TensorFlow's order, is a step to it
and no result.

**DigitPipelineProofs.** `PipelineTypeCorrect`, then `PipelineInv`: SaveInv
again, now under requests; who has a job serves (`BusyServes`); the webapp has
at most one request in hand (`OneInHand`), and a checker's job is a request that
was posted (`NotPostedYet`, `JobWasPosted`); what is waited for is at a server or
answered (`WaitsAtServer`); a digit is recognised only of a picture
(`DigitNeedsPicture`); an image that does not fit is of a request that carried
no picture or has missed a converter (`ImagesFit`). That a kill of a checker is
the only step that cuts a request off (`KillCutsOff`) comes from the counters.
`NeverInVain`, `OnlySaveWindowWithRequests` and the action property
`EmptyRepliesHaveCauses` follow. `ImplementsServer` is the refinement of
SerialServer, one step for each action: that the webapp's request is the
only one being posted or waited for is what lets its steps be those of a serial
server, and that only a picture is recognised is what lets its answer fit.

**DrawPageProofs.** `TypeCorrect`. `RestingResultFitsCanvas`: while a patient
user waits, every picture on its way, either way, is the one on the canvas
(`DueFits`). `PageNeverGoesBack`: what is on its way is in the order of its
numbers (`PostsInOrder`), and the result shown is older than all of it if
answers arrive in order (`ShownIsOldest`).

**TwoClustersProofs.** `SilentOnes`: who asks or has printed has found Envoy
listening, who died has not (`Heard`). `TypeCorrect` and `HandlersBounded`,
together, since the type bounds the seconds each handler has left. Their invariant is `Paced`: of
the handlers at work for a talker, each was asked a timeout and a pause after
the one before it, so the seconds it has left and the rounds since then add up
to the city's maximal latency at most, and there are no more handlers than
rounds in that.

**ExampleProgramsProofs.** One invariant for each program, in one module since
they are composed in one specification.
*BodyFilter*, `BodiesAccountedFor`: the sum of the sizes told so far is at
least what has arrived (`SumsSuffice`), so the buffer handed out at the end of
the stream is the whole body. *FibbResource*, `StateHoldsResultOfN`: what
is created or updated is saved with its result or not at all; a planned update
is of a resource that is there (`UpdateOfResource`).
`FibbIsFibonacci` says that the loop of `fibb`, computed in an int, is the
Fibonacci number cut to its width, for every n. It is proved by induction over
a set of counterexamples, whose least element cannot be one: the library's
induction theorems take an operator as a parameter, and the least element does
not. *KubeClients*, `KubeOutcomesHaveCauses`: a client that lists pods was let
in, so a server that is not up has gone away since (`LetIn`, and the history
variable `gone`); after the patch
the plugin is as patched unless somebody applied it again (`Patched`). *S3Backend*,
`EveryOrphanCharged`: the instances that exist, and those a terraform at work
is yet to make, number one more than the misfortunes at most, and no more than
these unless the one to spare is safe in the state (`Spare`).

**ScriptRunnerProofs.** For every book of tidy scripts. `TypeCorrect`;
`TearDownLeavesNothing` from four parts: what exists is in a place that exists
(`Housed`; so a delete that finds no place has nothing to remove); kubectl
is where the script switched it to, unless a switch failed (`Follows`); a script
at hand is one of the book (`Scripted`); and whatever it has made and still
exists, a step of its tearDown still to come removes (`Covered`). An interrupt
only adds steps to come, and where kubectl is matters only to a script that
never switches it. `CheckerBeforeWebapp`: between the strict create of the
service and the create it leads to, the service is there (`Chained`).

Three theorems relate scripts to each other. What they have in common is
`Leftovers`: while no command has failed nothing exists but what scripts
without a trap make (`Lasting`), volume claims in namespaces that are always
there, and what the script at hand has made. It needs `Covered` for a tearDown
that ends; that nobody passes a block or a call of tearDown, so that a script
with a trap does not end without it (`KeptAlive`); that no switch fails of
itself (`Ready`, `NoMishap`); and that kubectl is in no namespace that lasts
(`OwnNamespace`). `NoneIsBarred` follows with `NamedMine`: a strict create finds
its names free, since what its own script has made bears other names.
`TearDownRemovesItsOwn` follows since no tearDown names what may be left.
`AwaitedIsThere`: from the step that makes what a loop waits for to the loop it
is there and is the script's own (`Made`; by Leftovers nothing else can have
its name), in a place that is there (`Ready`, and `NeedsKept` for the clusters
that another script makes). For the loop that takes any answer on a port:
whatever is on the port is the script's own and will be removed (`Freed`), so
its own container can listen (`Heard`).

Only model-checked: every liveness property, since fairness and ENABLED are out
of the prover's reach. Every invariant and every action property of a passing
run is also a theorem.

## 5. What is not modelled

* Envoy, Kubernetes, docker, terraform and Ansible themselves: they appear as
  what the code relies on (host calls that may fail, restarts, probes, names
  that are refused). Those definitions are marked external in the map.
* Contents: pictures, digits, weights, log wording, HTML, payload sizes.
* Time, except in TwoClusters, where it is discrete and steps take none: a
  sleep that overshoots spaces requests further apart, and a handler may be
  late by several seconds before HandlersBound is at stake.
* Of the scripts: helm repositories, minikube's addons, /etc/hosts, background
  port forwards, and users running two scripts at the same time.
* Of the small examples: what is printed, and the second of sleep between two
  tries of the client that waits.
* Echo servers, the `read_filter_config` filter, `mytime.py`: each maps one
  input to one output and keeps nothing.
* The repository's only JavaScript files are the two minified bundles of a web
  page somebody saved (Kubernetes/CKAD/ckad-exam-simulation-solution: Vue and
  other libraries, and the page's own script in one line). They are third-party
  and no part of any of the systems; of their 538 lines some 430 are licence
  texts and separators. The JavaScript the repository owns is in
  `webapp/main.html`, and is modelled in DrawPage.
* Configurations without a process (just_run_it, admin_interface, lua_filter,
  Istio tutorials, charts, Tiltfiles, alert rules), documents, vendored pages.

`PROJECT.json` lists every component with the reason.

## 6. Plan

Every safety property of the runs is proved. What is left:

1. A book of scripts as an abstract specification: while nothing has failed, a
   script with a tearDown is one step that leaves the world as it was but for
   claims. `Leftovers` is the invariant its refinement would need.
2. The hazards without a property: the rollback of e06-deployment that is
   never reached, the id of a fibb resource after an update, a DigitRecon
   script that exits without its tearDown, and two habits of the page's user
   (a clear while a post is in flight, a button released outside the canvas).
   For each the model has the behaviour and the repository promises nothing
   that it would break.
3. Two scripts at the same time, Istio's policies and Grafana's alert states
   come last: most of what decides them is not in the repository.
