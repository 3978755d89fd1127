# A TLA+ model of cluster-api-provider-nomad

The provider is one process, the manager, with two controllers. They turn
`NomadMachine` and `NomadCluster` objects of a management cluster into Nomad
jobs (one virtual machine each), Consul services (one per control plane machine)
and an endpoint for the workload cluster. This directory holds specifications
of both controllers and of everything they talk to, of the two in their common
process, and of the arithmetic behind MAC addresses; TLC configurations that
check them on small instances; and theorems that TLAPS proves for all of them.

## The system

| part | state | operations | talks to | module |
|---|---|---|---|---|
| NomadMachine controller (`controllers/nomadmachine_controller.go`) | none of its own; what a pass of `Reconcile` has read and changed | `reconcileNormal`, `reconcileDelete`, `reconcileDNSAttachment`, deferred `Close` | API server through a cache, Nomad, Consul, the workload cluster | `NomadMachine` |
| machine scope (`pkg/nomad/scope/machine.go`) | the object and the copy that was read | setters, `PatchObject`, `SetNodeProviderID` | API server, workload cluster | `NomadMachine` |
| Nomad service (`pkg/nomad/machine`) | jobs and deployments, in Nomad | `DeployMachine`, `ReleaseMachine`, `getMacAddress` | Nomad | `NomadMachine`, `MacAddress` |
| DNS service, Consul client (`pkg/nomad/dns`, `pkg/consulclient`) | the service catalogue, in Consul | `RegisterService`, `DeregisterService` | Consul | `NomadMachine` |
| NomadCluster controller (`controllers/nomadcluster_controller.go`) | what a pass has read and changed | `reconcileNormal`, `reconcileDelete`, deferred `Close` | API server through a cache | `NomadCluster` |
| cluster scope (`pkg/nomad/scope/cluster.go`) | `apiServerTriggers`, polling goroutines, the event channel | `ReconcileNomadClusterWhenAPIServerIsOnline`, `IsAPIServerOnline`, `PatchObject` | workload cluster, the controller's queue | `NomadCluster`, `ApiServerPolling` |
| API types (`api/v1alpha3`) | the stored fields and conditions | | | `Object` of both modules |
| manager (`main.go`) | workers, sync period; both controllers, their caches and queues | start, restart | | `Workers`, `Resync`, `Event`, `NomadTeardown` |
| template webhook, client constructors, generated code, manifests | | | | not modelled |

What makes these parts hard to get right, and to test:

* A pass makes up to eight remote calls one after the other. Each may fail, or
  happen and lose its answer; the process may die or panic between any two.
* The pass reads its object from a cache, which may be older than what the
  previous pass wrote, and writes at its very end, by a merge of differences, in
  up to three calls that do not depend on each other's success.
* There is no record of what was created outside of Kubernetes. A job and a
  service are found again by the name of the Machine, and freed only because a
  finalizer was stored in an earlier pass.
* Much of what happens outside produces no event: a deployment that goes on, an
  API server that comes up. A pass that neither fails nor asks for another one
  leaves this to the resync, every two hours by default.
* Goroutines outlive the pass that started them and share a map and a channel
  with later passes.
* The controllers depend on each other without a handshake: every pass over a
  machine has to find the NomadCluster, which goes without waiting for machines.
* A pass may hold its worker for ever, in a recursion that waits for Nomad.

`PROJECT.json` lists the hazards by line with the properties that cover them.

What makes the parts correct: nothing outside of Kubernetes is held without a finalizer;
traffic is sent only to machines that have a job; stored status does not claim what was
not so; stale copies do not undo later writes, and what they leave wrong is put right;
no pass that is still needed is missing (an object is `Resting` when no pass over it
runs or is queued and the cache shows what is stored: then nothing but the resync or a
goroutine will have it looked at again); deletions and deployments get to their end when the disturbances
stop, also those of a whole cluster, and also when another machine hangs; one goroutine
polls for a cluster, and one does as long as somebody has to; names that are alike but
for one character do not get the same MAC address (names that differ in more may).

## The modules

**`KubeObject`** is what both controllers share: the life of a stored object
(`none`, `unowned`, `live`, `deleting`, `gone`), the outcomes of a remote call,
and the rule of a merge patch (`Patched`): a field is sent if it differs from the
copy that was read, and otherwise keeps its stored value, whatever that is now. A
field that is a map is sent key by key (`PatchedKeys`).

**`NomadMachine`** models the machine controller. `api` holds the stored objects
and `cache` the controller's view of them; `jobs`, `services` and `nodes` are
what Nomad, Consul and the workload cluster hold, by name; `queue` is the work
queue. For every machine, `pc` says where its pass is, `before` is the copy the
patch helper keeps, `after` the object as the pass has changed it, and `requeue`
whether the pass will bring another one. One action is one remote call with what
the code does up to the next:

| action | code |
|---|---|
| `LookupFails`, `PanicAtLookup`, `Ignore`, `BeginDelete`, `AddFinalizer`, `Wait`, `BeginDeploy` | `Reconcile` and the start of `reconcileNormal` up to `deployMachine` |
| `SecretFails`, `Register`, `Evaluate`, `EvaluationFails`, `PanicBeforeRegister`, `PanicAfterRegister` | `DeployMachine`, and `reconcileNormal` up to the end of its switch |
| `DNS`, `SkipDNS` | `reconcileDNSAttachment` and the Consul calls |
| `ReleaseMachine` | the rest of `reconcileDelete` |
| `SetNodeProviderID`, `NotOperational` | the end of `reconcileNormal` |
| `PatchConds`, `PatchSpec`, `PatchStatus` | `Close`: the three calls of `patch.Helper` in their order |
| `CacheSync`, `Resync`, `ClusterStep`, `Unpause`, `BootstrapReady` | the watches of `SetupWithManager` |
| `Create`, `SetOwner`, `Delete`, `SetFailureDomain`, `DeploymentStep`, `NodeJoins`, ... | Cluster API, a user, Nomad, the workload cluster |

The steps that may go wrong are the disjuncts of `Disturbance`, and
`Disturbances` says which kinds there are; all others are `Normal`. `Stuck` are
machines of whose passes nothing is expected: a pending evaluation may hold them.
`homeless` are the machines that have no failure domain, over which every pass
panics once it would register the job. `cluster` is what a pass finds of Cluster and
NomadCluster: they may be `missing`, the Cluster may have no InfrastructureRef yet
(`unreferenced`, over which every pass panics), and the NomadCluster may be
`provisioning` or `ready`. It can be removed (`Removal`) and appear again
(`ClusterStep`).

**`ExternalResources`** is the promise behind it: per name a guard (the object
with its finalizer), a job and a service, taken in this order and given up in the
opposite one. `NomadMachine` defines the mapping (`Guarded`, `RegisteredJobs`,
`services`) and implements it (`RefinesExternalResources`).

**`NomadCluster`** models the cluster controller with one worker and the
goroutines. `triggers` is `apiServerTriggers`; a goroutine `g` polls, sends and
forgets (`gpc[g]`) for the cluster `polled[g]`; `inbox` is the channel source.
`SkipTrigger`, `SkipPolled` and `StartPolling` are the three ways through
`ReconcileNomadClusterWhenAPIServerIsOnline`, `Check` is what follows it.
`LookupFails` is an owner that is not in the cache yet, which is an error. The
watch of Clusters lets only creations and unpausings through, so that
`DeleteCluster` and `Initialize` queue nothing. `Read` copies the failure domains
that the user lists (`listed`) into the status (`domains`), at the start of every
pass; `EditDomains` changes the list.

**`ApiServerPolling`** is what `ReconcileNomadClusterWhenAPIServerIsOnline` is for,
told by cluster and without goroutines: an entry, a poller as long as the entry is
there, one event for each poller, and an end of both only by itself or with the
process. `NomadCluster` maps goroutines to clusters by `PolledAt` and implements it
(`RefinesApiServerPolling`).

**`NomadTeardown`** composes the two, as instances with their own copies of the
variables: what a pass over a machine sees of its cluster is the cache of the cluster
controller (`Seen`), `MachineSync` and `ClusterSync` are the watches that queue the
objects of the other kind, `Restart` takes both down. There the machines are listed
again (`Relist`) while what they see of the cluster may change, which is why
`NomadMachine` has `Relist` apart from its own `Restart`. What is instantiated are the
modules with the lemmas about the controllers (`C` and `M`), so that the proofs about
the composition can cite them. It starts with a cluster that is up, and adds what
Cluster API does: machines are deleted one by one or because the Cluster is, the
NomadCluster when the last one is gone. The API server of the workload cluster goes with
its machines.

**`ClusterLifetime`** is what the two promise together: while the NomadCluster is
present, guards, jobs and services go as in `ExternalResources`; it ends when no
guard is left. `NomadTeardown` implements it (`RefinesClusterLifetime`).

**`MacAddress`** hashes two names side by side, one character of each at a step,
with FNV-1a in 32 bits (in two halves, for TLC's integers are smaller), and takes
the residues that `getMacAddress` takes. `MCMacAddress` checks it against the
test vector of `Test_getMacAddress`.

**`MCNomadMachine`**, **`MCNomadCluster`** and **`MCNomadTeardown`** count the
disturbances of a behaviour and bound them. A definition whose comment begins with
"Mutant" stands beside the definition it varies; nothing else uses it. `PROJECT.json`
names for every property of a run a mutant by which it is violated.

**`NomadMachineProofs`, `NomadMachineResourceProofs`, `NomadMachineReportProofs`,
`NomadMachineProgressProofs`, `NomadMachineRefinementProofs`, `NomadClusterProofs`,
`NomadTeardownProofs`, `MacAddressProofs`** hold the proofs.

### What the models assume

* One manager runs. (`--leader-elect` is off by default; running two is a hazard
  that the models do not look at.)
* A request whose answer is lost has been applied by the time the caller sees the
  error, or never is: it does not arrive later.
* The reads at the start of a pass are one step. They come from the cache, which
  is the informer's memory. The watch may skip versions but does not go back.
* Of an evaluation and its deployment, read by two calls, the model has one read.
  A pending evaluation is a step that is not taken yet.
* Cluster, NomadCluster and their lookup are one variable, `cluster`, for a
  machine; `NomadTeardown` gives it the NomadCluster of the other controller.
* Names of Machines are unique, in the theorems about resources (`UniqueNames`)
  and in all runs but `machine_shared_name`.
* In `NomadTeardown`, Cluster API deletes the NomadCluster only when its machines
  are gone, which is its documented order and not in this repository.
  `reconcileDelete` of the cluster does not wait for machines itself, and the
  properties of `NomadTeardown` cannot show that: without the assumption, a machine
  whose NomadCluster has gone waits until there is one again
  (`machine_deletion` has this).
* Panics restart the process, which cuts off the passes of all machines. A machine
  whose every pass panics (no failure domain, no InfrastructureRef) may keep its
  neighbours from ever ending one: `DeletionCompletes` does not hold of those, and is
  claimed of such a machine by itself and of machines without such neighbours. The
  safety theorems hold with them. The delay between restarts is not modelled.
* Consul's catalogue is one set, and deregistering twice is no error.
* Registering a job that Nomad has may or may not make a new deployment: a job
  changes when its template's inputs do.
* A Node's `providerID` cannot be changed once it is set (the API server of the
  workload cluster refuses).
* The patch of the conditions is applied to a fresh copy; a conflict on the one
  condition that is not owned, DNSAttached, is an error of that call.

## The runs

A run with `MaxDisturbances = k` has every behaviour with up to k disturbances,
at any points. One deployment per job is enough unless the run is about
redeployment; one machine is enough where the properties are about one machine,
because passes of different machines share only the workers and the restarts of
the process, which `machine_workers` has. The number of goroutines is one more
than can run where a second one would be the error, and the number that can run
where it is not the question; `cluster_safety`, which checks safety only, lets them
start in their order (`InOrder`), for none differs from another.

| run | what it shows |
|---|---|
| `machine_faults` | a control plane machine, made before its cluster and perhaps without a failure domain, any two disturbances of all eight kinds: `InductiveInv`, `TypeOK`, nothing orphaned, no service without a job, `DNSAttached` honest, `ExternalResources` implemented; no deletion comes to rest, and a machine of a ready cluster only when it has its job, its service and its Node and says so |
| `machine_workers` | two deployed machines, two workers, one of them held by a pending evaluation for as long as Nomad likes, one fault: the other machine's deletion completes, and neither takes the job of the other (`MachineKeepsJob`) or the service of one that is attached (`DNSAttachedHonest`); both have a failure domain |
| `machine_deletion` | under fairness, from before the cluster exists, one fault, panic, pause or removal: a deletion completes when the cluster is there, or there again; also that of a machine without a failure domain, or whose Cluster had no InfrastructureRef at first |
| `machine_convergence` | with the resync, two deployments, one fault or stall: a machine with a successful deployment ends up ready, attached, with the right providerID, its Node named; `ready` is stored only while the deployment is successful; a stored providerID never goes back |
| `machine_ready_without_id` | violation: ready without a providerID after a failed patch of the spec |
| `machine_failure_not_terminal` | violation: ready with a FailureReason after a pause of the deployment |
| `machine_shared_name` | violation: the second of two Machines of one name has reported Ready, the deletion of the first purges its job, and it stays Ready without a container |
| `cluster_safety` | passes and two goroutines, any two failed calls, crashes or edits: one poller, no leaked entry of the map, finalizer first, failure domains current at rest, no deletion at rest, no wakeup lost as long as there is no outage, `ApiServerPolling` implemented |
| `cluster_liveness` | one fault, crash or outage: the API server is noticed when it comes online, and after an outage if passes are asked for; goroutines end with their Cluster, deletions complete |
| `cluster_lost_wakeup` | violation: one outage at the wrong moment and nobody polls any more |
| `provider_teardown` | both controllers, one control plane machine, one fault or crash: `InductiveInv`, a machine is served until it is deleted, neither a machine nor the NomadCluster is at rest while it is being deleted, nothing is left when the NomadCluster is gone, `ClusterLifetime` implemented, and a deleted Cluster is torn down to the end |
| `mac_address` | the arithmetic agrees with `Test_getMacAddress`; 406,901 pairs of hashes of names of up to four of the characters `-`, `0`, `1`, `a`, `z`: one differing character, two addresses |

The invariants of `machine_faults` need a disturbance and its repetition: two
disturbances are a fault in a pass and another in its retry, or a crash in the
recovery from a crash. `cluster_safety` needs two as well: the list is edited
while a pass runs that has failed, or edited and edited back. It has no outage, without
which `NoLostWakeup` holds. The theorems hold for any number of
them.

`provider_teardown` has one machine: what a second one adds, the order in
which Cluster API lets go, is in `DeleteNomadCluster`, and each machine meets the
NomadCluster by itself. The failure domain of `cluster_safety` is one, since a
map is patched key by key. The cluster runs and those of the two controllers set
`CHECK_DEADLOCK FALSE`: when the cluster is gone nothing is left to do;
`mac_address` ends when the names do.

### Findings

* **Lost wakeup** (`cluster_lost_wakeup`). The goroutine sends its event before
  it leaves `apiServerTriggers`. If the API server is offline again when the
  pass that the event brings looks, that pass sees the entry ("alreadyPolling")
  and returns without asking for another one; then the goroutine removes the
  entry and ends. `APIServerAvailable` stays False with the API server up, until
  an unrelated event or the resync. The outage is the only cause: without one,
  neither failed calls nor crashes nor any interleaving lose the event
  (`NoLostWakeup`, in `cluster_safety` and as a theorem).
* **Ready before the providerID** (`machine_ready_without_id`). Spec and status
  are two calls, the second made whatever became of the first. It does not last: the
  failed call brings another pass, and a machine comes to rest only with the
  providerID of its deployment (`LeftAloneWhenDone`).
* **FailureReason is sticky** (`machine_failure_not_terminal`). It is set for
  every status but two, including ones that Nomad leaves again, and never
  cleared, while its documentation reserves it for terminal problems.
* **One name, one job** (`machine_shared_name`). Jobs have the Machine's name and
  nothing of its namespace, while the manager watches all namespaces unless told
  otherwise. Two Machines of one name, which Kubernetes allows, share a job. In the
  run the second has been deployed and has reported Ready ("denotes that the machine
  (nomad container) is ready", `nomadmachine_types.go`); the deletion of the first,
  which need not have registered a job itself, purges that job, and the second
  stays Ready without a container until a later pass over it.

### Fairness

`Fairness` of `NomadMachine` is weak fairness of a machine's pass (a worker that
runs goes on; an answer comes, if only an error), strong fairness of its
beginning (the work queue is first in first out, and workers are freed again and
again) and weak fairness of the watch, for the machines that are not `Stuck`.
Nothing is assumed of the environment or of the disturbances except, in the
general specification, that they end (`Calm`); in the bounded runs they do by
themselves. The periodic resync is assumed by `machine_convergence` only, because
without it a deployment that succeeds is never noticed: nothing tells the
controller. The requeues after an error or a delay are part of the actions, and
`machine_deletion` and `machine_workers` rely on these alone.

`Fairness` of `NomadCluster` adds weak fairness of each goroutine and of the
channel source. Nothing is assumed of other requests for a pass (`Event`); where
they are needed, after an outage, the property says so (`OutageNoticed`).

`NomadTeardown` has the same for both controllers, and assumes that Cluster API
goes on deleting what belongs to a deleted Cluster.

## The proofs

All theorems are for any machines, clusters, workers, goroutines, failure domains,
bound on deployments and set of disturbances, but for the two that leave outages out.

* `NomadMachineProofs!TypeCorrect`, `NomadClusterProofs!TypeCorrect`: the type
  invariants.
* `NomadMachineResourceProofs`: `NothingOrphaned` and `ServicesHaveJobs`, from
  `Inductive`, assuming `UniqueNames`. That no job is held without a finalizer
  is not inductive by itself, for a pass acts on what it has read earlier. The
  invariant says what remains true of it: the cache only lags behind, and shows
  a removed finalizer only on an object it shows as deleted (`CacheInv`); while
  a pass over a live object with our finalizer runs, nobody removes it
  (`PassInv`); past `Register` the job is there (`DeployInv`); past the
  detachment the service is gone, and a pass that gives up the finalizer has
  seen job and service go (`ReleaseInv`). Each lemma about an action treats the
  machine of the action; the others keep everything their invariants mention,
  which is where `UniqueNames` is needed.
* `NomadMachineRefinementProofs!Refinement`: every step is a step of
  `ExternalResources` or leaves guards, jobs and services alone. `OrderSuffices`:
  the order that `ExternalResources` keeps is all that nothing orphaned and no
  service without a job depend on.
* `NomadMachineReportProofs`: what the stored status says. `AttachmentHonest`:
  `dnsAttached` may be stored late, by the pass that has called Consul or by none, so
  the invariant (`ReportInv`) follows it through `after`, `before` and the cache:
  whoever shows it for a live object has the service behind it, because only a pass over
  a deleted object detaches. `JobsKept`: only a pass that has seen the object deleted
  releases, and `PassInv` of the first proof says that it still is.
  `ProviderIDMonotone`: deployments are numbered upwards, a pass that has changed the
  providerID has read a deployment no older than the one that is stored, and a pass that
  has not changed it does not send it. `ReadyAtSuccess`: a deployment that was read as
  successful stays so until the pass has stored it, for only a pass over the same name
  registers the job again. All four assume `UniqueNames`, on which the invariants rest.
* `NomadMachineProgressProofs`: the part of progress that is an invariant. A pass
  that does not wait for Nomad ends, and one that is asked for is made, so a machine whose
  passes end and that makes no progress is one that is `Resting` too early.
  `DeletionNeverRests`: while its cluster is there and not paused, a machine that is
  being deleted never rests. `RestIsEarned`: one of a ready cluster rests only when its
  job is registered, its service is in the catalogue, its Node has been named and its
  status says all of it; what may be left to the resync is that a running deployment
  has succeeded, and this is why `Convergence` needs the resync. Their invariant
  (`Progress`) follows a pass to its end: as long as nobody has queued the machine
  again, the cache shows what the pass has read (`FreshInv`); a pass that asks for no
  other one has given up the finalizer of a deleted object (`GoingInv`) or done
  everything for a live one (`ReadingInv`, `DoneInv`), and its calls have stored what it
  has changed (`SentInv`); and whatever makes a machine ready queues it. TLC checks
  `Progress` as a part of `NomadTeardown!InductiveInv`. Both assume `UniqueNames`.
* `NomadClusterProofs`: `AtMostOnePoller` and `NoLeakedTrigger` are inductive
  together: a goroutine starts only if no entry is there, hence no goroutine,
  and takes its entry with it, which is no one else's. `FinalizerIsFirst` needs
  the same two facts about the cache and the passes as the machine's theorem,
  and that a pass which has not seen the finalizer asks for nothing else.
  `DomainsSettle` needs more than what it states (`DomainsInv`): a pass whose object
  nobody has queued again works on what the cache shows, and wants the domains that
  this copy lists; so at rest the domains shown are the wanted ones as soon as they
  are the stored ones, also when the cache lags behind in something else.
* `NomadClusterProofs!DeletionNeverRests`: the same for a NomadCluster (`GoingInv`), whose
  one way out of a deletion is the patch that removes the finalizer. `Inductive` puts the
  invariants together.
* `NomadClusterProofs!WakeupNotLost`: a pass that finds the API server offline asks for no
  other one, so somebody else has to. It went by a copy of the Cluster (`SeenInv`: what it
  read stays true), by an entry of the map and by its own look at the API server, in this
  order. If it found an entry whose goroutine was past its polling, the API server was
  online before the pass looked, and still is; if the goroutine was still polling, its
  event comes later and queues the cluster again (`WakeInv`). `Waking` states this
  invariant. Both assume that `Disturbances` has no `"offline"`; with it the statement is
  false, which is the finding above.
* `NomadClusterProofs!PollingRefinement`: passes and goroutines take the steps of
  `ApiServerPolling`. What a goroutine does to the map and to the abstract state
  is about its cluster only because no other polls for that cluster (`OwnPolled`,
  from the invariant of `AtMostOnePoller`); its entry is there when it removes it
  because entries and goroutines go together.
* `NomadTeardownProofs`: the composition, for any number of machines, from the
  lemmas about each controller. A step is one of the machines' controller
  (`OfMachines`), one of the cluster's (`OfCluster`) or a restart of both
  (`OfBoth`). The first is a step of `NomadMachine`, whose lemmas apply as they
  are; the second changes what machines see of their cluster, which most of their
  invariants do not mention (`M!UnrelatedInv`, `M!UnrelatedReports`) and `Progress`
  survives because it queues every machine that is known (`M!UndisturbedProgress`).
  The cluster's controller takes steps of `NomadCluster` or none; an event of a control
  plane machine is to it one more request for a pass (`C!Event`).
  * `Inductive` adds to the invariants of both what neither controller knows
    (`OrderInv`): no machine comes back, the NomadCluster is in the cache as long as it
    is live, and no machine is there when it is not, since Cluster API deletes it only
    then and its controller gives up the finalizer only of a deleted one.
  * `NothingIsLeft`: a machine that is gone has no finalizer, hence neither job nor
    service.
  * `ServedAsLongAsWanted`: the pass that purges a job has seen the deletion
    (`M!JobStep`). So has the one that withdraws a service, for a pass over a live
    object comes to that call only with a status in which the call attaches
    (`M!ServiceStep`, from `Reports`).
  * `TeardownNeverRests`: every pass over a machine first looks for the NomadCluster in the
    cache, and does nothing without it. By `OrderInv` it is there as long as a machine is,
    so no deletion comes to rest: of the machines by `Progress`, of the NomadCluster by
    its `GoingInv`.
  * `Refinement`: steps of the machines are steps of `ExternalResources`, taken while
    the NomadCluster is present; afterwards no machine is left to take one.
  * `LifetimeSuffices`: `NothingLeftBehind` follows from `ClusterLifetime` alone.

  All but the last assume `UniqueNames`. Every name is a machine's
  (`NameAssumption`), so that the composition starts with no job that nobody has.
* `MacAddressProofs`: the last octet is the hash's lowest byte, and this byte depends
  on the lowest byte of the state and on the character only. Xor with one character
  and multiplication by an odd number mod 256 (147, whose inverse is 155) are both
  injective, so lowest bytes that differ stay different while the characters are the
  same (`LowestBytesApart`), and the addresses with them (`MacAddressesDiffer`).

Every invariant, action property and refinement of the runs is a theorem, with one
exception. Only model-checked are the liveness properties (`Convergence`,
`DeletionCompletes`, `AvailabilityNoticed`, `OutageNoticed`, `PollersEnd`,
`TeardownCompletes`), because liveness under fairness is out of this prover's reach,
and `AgreesWithTest`: it is one value, computed from the initial state by folding over
the five characters of the test. TLC computes it, and there is nothing more general
to prove about it.

## Not modelled

Logs, recorder events, condition severities and texts, the `Ready` summary
(it follows from the other conditions), addresses, the contents of a job, the
paused annotation of single objects, a machine's failure domain beyond its
absence, the template webhook (its registration is commented out in `main.go`),
environment variables, generated code and manifests.

Two managers at once: nothing in the code guards against them when
`--leader-elect` is off, and a takeover by one whose cache is up to date is the
crash that the models have. Consul's agents and status codes: what an agent
answers for a service that another one has is not in this repository. The
detachment of a machine whose deployment leaves the known states: the code has a
branch for it that such a machine does not reach, and nothing says whether it
should.

## What could follow

A second manager, with a cache, a queue and passes of its own, to see which of the
invariants survive without leader election; Consul as several agents; more than one
machine in `provider_teardown` with faults, and a start before the cluster is up. Of
liveness, the invariants above (`DeletionGoesOn`, `LeftAloneWhenDone`, `NoLostWakeup`,
`TeardownGoesOn`) are what can be proved here; that a pass which is asked for is made and
ends, and that failures stop, is fairness, and stays with the runs.
