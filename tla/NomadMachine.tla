---------------------------- MODULE NomadMachine ----------------------------
(***************************************************************************)
(* The NomadMachine controller together with what it talks to: the API     *)
(* server that stores the NomadMachine objects, the informer cache the     *)
(* controller reads them from, the Nomad servers (jobs and deployments),   *)
(* the Consul catalogue (one service per control plane machine) and the    *)
(* Nodes of the workload cluster.                                          *)
(*                                                                         *)
(* A pass of Reconcile over machine m is the walk of pc[m] through          *)
(*   idle -> dns -> release -> conds -> spec -> status -> idle   (delete)   *)
(*   idle -> register -> evaluate -> dns -> node -> conds -> ...  (normal)  *)
(* with one step per remote call, so that other workers, the environment   *)
(* and a crash of the process can come between any two calls.              *)
(***************************************************************************)
EXTENDS Naturals, FiniteSets, KubeObject

CONSTANTS
    Machines,        \* the NomadMachine objects, each with its owner Machine
    ControlPlane,    \* those whose Machine has the control plane label
    Names,           \* the names of the owner Machines
    Name,            \* Name[m]: the name of the Machine that owns m
    NoID,            \* a providerID that is not set
    Absent,          \* a Node that has not joined the workload cluster
    MaxDeployments,  \* bound on the deployments Nomad makes of one job
    Workers,         \* --machine-concurrency
    Stuck,           \* machines for which no remote call need ever return
    Disturbances     \* what may go wrong, see Possible

ASSUME MachinesAssumption ==
    ControlPlane \subseteq Machines /\ Stuck \subseteq Machines
ASSUME NameAssumption == Name \in [Machines -> Names]
ASSUME BoundsAssumption == MaxDeployments \in Nat \ {0} /\ Workers \in Nat \ {0}
\* What may go wrong: a remote call fails, or only its answer is lost; Nomad has
\* no answer that the code can use; a deployment is paused or fails; the process
\* is killed; the Cluster is paused or removed; its API server goes offline.
Possible ==
    {"failed", "lost", "panic", "stall", "crash", "pause", "removal", "offline"}
ASSUME DisturbancesAssumption == Disturbances \subseteq Possible

\* A providerID names a job and one of its deployments.
ProviderIDs == Names \X (1..MaxDeployments)

ASSUME NoIDAssumption == NoID \notin ProviderIDs
ASSUME AbsentAssumption == Absent \notin ProviderIDs \cup {NoID}

\* No two owner Machines have the same name. A name is only unique within a
\* namespace, so this is an assumption of the theorems and not of the module.
UniqueNames == \A m, k \in Machines : Name[m] = Name[k] => m = k

\* "unhandled" is every status the code has no case for: paused, failed, ...
Deployments == {"none", "running", "successful", "unhandled"}
DeployedConditions == {"none", "waiting", "deploying", "deployed",
                       "deployFailed", "unknown", "deleted"}
DNSConditions == {"none", "pending", "attached"}
PCs == {"idle", "dns", "release", "register", "evaluate", "node",
        "conds", "spec", "status"}

\* What the provider writes of a NomadMachine, and where it is in its life.
Object == [phase       : Phases,
           finalizer   : BOOLEAN,
           providerID  : ProviderIDs \cup {NoID},
           ready       : BOOLEAN,
           deployment  : Deployments,
           failed      : BOOLEAN,             \* FailureReason and FailureMessage
           dnsAttached : BOOLEAN,
           deployedCond: DeployedConditions,
           dnsCond     : DNSConditions]

Blank(phase) == [phase |-> phase, finalizer |-> FALSE, providerID |-> NoID,
                 ready |-> FALSE, deployment |-> "none", failed |-> FALSE,
                 dnsAttached |-> FALSE, deployedCond |-> "none", dnsCond |-> "none"]

\* MachineRunningStates, MachineOperationalStates and MachineKnownStates are
\* the same set of deployment states.
KnownStates == {"running", "successful"}

Job == [registered : BOOLEAN, deployment : 0..MaxDeployments, status : Deployments]
NoJob == [registered |-> FALSE, deployment |-> 0, status |-> "none"]

VARIABLES
    api,        \* the stored objects
    cache,      \* the controller's view of them
    cluster,    \* the Cluster and its NomadCluster, as one: one of them is missing,
                \* the Cluster has no InfrastructureRef, or both are there
    paused,     \* Cluster.Spec.Paused
    bootstrap,  \* the machines whose DataSecretName is set
    homeless,   \* the machines with a failure domain on neither object
    apiOnline,  \* would IsAPIServerOnline answer yes
    jobs,       \* Nomad's jobs, by name
    services,   \* the service ids of the Consul catalogue
    nodes,      \* the Nodes of the workload cluster, by name
    queue,      \* the work queue
    pc,         \* where the worker of a machine is
    before,     \* the object as the pass read it (the patch helper's copy)
    after,      \* the object as the pass has changed it
    requeue     \* will the pass ask for another one

objects == <<api, cache>>
world == <<cluster, paused, bootstrap, homeless, apiOnline>>
backends == <<jobs, services, nodes>>
passes == <<pc, before, after, requeue>>
vars == <<objects, world, backends, queue, passes>>

TypeOK ==
    /\ api \in [Machines -> Object]
    /\ cache \in [Machines -> Object]
    /\ cluster \in {"missing", "unreferenced", "provisioning", "ready"}
    /\ paused \in BOOLEAN
    /\ bootstrap \in SUBSET Machines
    /\ homeless \in SUBSET Machines
    /\ apiOnline \in BOOLEAN
    /\ jobs \in [Names -> Job]
    /\ \A n \in Names : jobs[n].registered => jobs[n].deployment > 0
    /\ services \subseteq Names
    /\ nodes \in [Names -> ProviderIDs \cup {NoID, Absent}]
    /\ queue \subseteq Machines
    /\ pc \in [Machines -> PCs]
    /\ before \in [Machines -> Object]
    /\ after \in [Machines -> Object]
    /\ requeue \in [Machines -> BOOLEAN]

\* No NomadMachine has been made yet; their cluster may be older than they are.
Init ==
    /\ api = [m \in Machines |-> Blank("none")]
    /\ cache = api
    /\ cluster \in {"missing", "unreferenced", "provisioning", "ready"}
    /\ paused = FALSE
    /\ bootstrap \in SUBSET Machines
    /\ homeless \in SUBSET Machines
    /\ apiOnline \in BOOLEAN
    /\ jobs = [n \in Names |-> NoJob]
    /\ services = {}
    /\ nodes = [n \in Names |-> Absent]
    /\ queue = {}
    /\ pc = [m \in Machines |-> "idle"]
    /\ before = [m \in Machines |-> Blank("none")]
    /\ after = before
    /\ requeue = [m \in Machines |-> FALSE]

-----------------------------------------------------------------------------
Outcomes == {"ok"} \cup (Disturbances \cap {"failed", "lost"})

Existing == {m \in Machines : Exists(api[m])}

\* The process dies, in a crash or in a panic of a worker. What it had in
\* memory is lost; the new process lists every object and queues it.
Relist ==
    /\ cache' = api
    /\ queue' = Existing
    /\ pc' = [m \in Machines |-> "idle"]
    /\ before' = [m \in Machines |-> Blank("none")]
    /\ after' = before'
    /\ requeue' = [m \in Machines |-> FALSE]
    /\ UNCHANGED <<api, backends>>

Restart == Relist /\ UNCHANGED world

Crash == "crash" \in Disturbances /\ Restart

\* The pass goes on at `to` with the object `obj`.
Proceed(m, to, obj) ==
    /\ pc' = [pc EXCEPT ![m] = to]
    /\ after' = [after EXCEPT ![m] = obj]
    /\ UNCHANGED <<queue, before, requeue>>

\* Reconcile returns (again: with an error or a RequeueAfter) and its deferred
\* Close starts the patch of obj.
Return(m, obj, again) ==
    /\ pc' = [pc EXCEPT ![m] = "conds"]
    /\ after' = [after EXCEPT ![m] = obj]
    /\ requeue' = [requeue EXCEPT ![m] = again]
    /\ UNCHANGED <<queue, before>>

-----------------------------------------------------------------------------
(* The start of a pass: everything up to its first remote call. The reads   *)
(* come from the cache and are one step.                                    *)

Busy == {m \in Machines : pc[m] # "idle"}

\* Mutant: the controller is built without its options, and has one worker.
TurnAlone(m) == m \in queue /\ pc[m] = "idle" /\ Busy = {}

\* A worker is free, and no other has m.
Turn(m) == m \in queue /\ pc[m] = "idle" /\ Cardinality(Busy) < Workers

Dequeue(m) ==
    /\ Turn(m)
    /\ queue' = queue \ {m}
    /\ UNCHANGED <<objects, world, backends>>

Owned(m) == cache[m].phase \in {"live", "deleting"}

\* Is there something to reconcile, and may we?
Reconcilable(m) == Owned(m) /\ ~paused /\ cluster \in {"provisioning", "ready"}

\* The Cluster is there and not paused, and does not say what its NomadCluster is.
Unreferenced(m) == Owned(m) /\ ~paused /\ cluster = "unreferenced"

Open(m, to, obj) ==
    /\ Dequeue(m)
    /\ Reconcilable(m)
    /\ pc' = [pc EXCEPT ![m] = to]
    /\ before' = [before EXCEPT ![m] = cache[m]]
    /\ after' = [after EXCEPT ![m] = obj]
    /\ UNCHANGED requeue

\* No object, no owner, no cluster, or paused: done, and not asked for again.
Ignore(m) ==
    /\ Dequeue(m)
    /\ ~Reconcilable(m) /\ ~Unreferenced(m)
    /\ UNCHANGED passes

\* The Machine that owns m is not in the cache: unlike a Cluster or a NomadCluster
\* that is not, this is an error. It puts m back in the queue, from which m has just
\* been taken, and nothing else has changed.
LookupFails(m) ==
    /\ "failed" \in Disturbances
    /\ Turn(m)
    /\ Owned(m)
    /\ UNCHANGED vars

\* A nil InfrastructureRef is dereferenced.
PanicAtLookup(m) ==
    /\ Turn(m)
    /\ Unreferenced(m)
    /\ Restart

\* Mutant: the machine is released without being detached.
BeginDeleteUndetached(m) ==
    /\ Deleting(cache[m])
    /\ Open(m, "release", cache[m])

BeginDelete(m) ==
    /\ Deleting(cache[m])
    /\ Open(m, "dns", cache[m])

AddFinalizer(m) ==
    /\ cache[m].phase = "live"
    /\ ~cache[m].finalizer
    /\ Open(m, "conds", [cache[m] EXCEPT !.finalizer = TRUE])

\* The Cluster has no infrastructure yet or the Machine no bootstrap data.
Wait(m) ==
    /\ cache[m].phase = "live"
    /\ cache[m].finalizer
    /\ cluster = "provisioning" \/ m \notin bootstrap
    /\ Open(m, "conds", [cache[m] EXCEPT !.deployedCond = "waiting"])

\* Mutant: the pass that adds the finalizer does not return after it.
BeginDeployAtOnce(m) ==
    /\ cache[m].phase = "live"
    /\ cluster = "ready" /\ m \in bootstrap
    /\ Open(m, "register", [cache[m] EXCEPT !.finalizer = TRUE])

\* Mutant: a machine that has a providerID is taken to be deployed.
BeginDeployOnce(m) ==
    /\ cache[m].phase = "live"
    /\ cache[m].finalizer /\ cache[m].providerID = NoID
    /\ cluster = "ready" /\ m \in bootstrap
    /\ Open(m, "register", cache[m])

BeginDeploy(m) ==
    /\ cache[m].phase = "live"
    /\ cache[m].finalizer
    /\ cluster = "ready" /\ m \in bootstrap
    /\ Open(m, "register", cache[m])

-----------------------------------------------------------------------------
(* deployMachine *)

DeployFailed(m) == Return(m, [after[m] EXCEPT !.deployedCond = "deployFailed"], TRUE)

\* Nomad makes a new deployment of a job it did not have or whose
\* specification has changed since it was last registered.
Registered(n) ==
    {[registered |-> TRUE, deployment |-> k, status |-> "running"] :
        k \in {jobs[n].deployment + 1} \cap (1..MaxDeployments)}
    \cup (IF jobs[n].registered THEN {jobs[n]} ELSE {})

\* The bootstrap secret, which is read first, cannot be.
SecretFails(m) ==
    /\ pc[m] = "register"
    /\ "failed" \in Disturbances
    /\ DeployFailed(m)
    /\ UNCHANGED <<objects, world, backends>>

\* The job is registered.
Register(m, r) ==
    /\ pc[m] = "register"
    /\ m \notin homeless
    /\ IF Happens(r)
         THEN \E j \in Registered(Name[m]) : jobs' = [jobs EXCEPT ![Name[m]] = j]
         ELSE UNCHANGED jobs
    /\ IF r = "ok" THEN Proceed(m, "evaluate", after[m]) ELSE DeployFailed(m)
    /\ UNCHANGED <<objects, world, services, nodes>>

\* The bootstrap secret is read; then a nil failure domain is dereferenced.
PanicBeforeRegister(m) ==
    /\ pc[m] = "register"
    /\ m \in homeless
    /\ Restart

\* Mutant: the condition's reason is Nomad's own word.
ObservedStatus(o, id, status) ==
    [o EXCEPT !.providerID = id, !.deployment = status, !.ready = (status = "successful"),
              !.failed = @ \/ status \notin KnownStates, !.deployedCond = status]

\* Mutant: a running deployment makes the machine ready.
ObservedRunning(o, id, status) ==
    [o EXCEPT !.providerID = id, !.deployment = status, !.ready = (status \in KnownStates),
              !.failed = @ \/ status \notin KnownStates, !.deployedCond = "deployed"]

\* What reconcileNormal makes of the status of the deployment.
Observed(o, id, status) ==
    [o EXCEPT !.providerID = id,
              !.deployment = status,
              !.ready = (status = "successful"),
              !.failed = @ \/ status \notin KnownStates,
              !.deployedCond = CASE status = "running" -> "deploying"
                                 [] status = "successful" -> "deployed"
                                 [] OTHER -> "unknown"]

\* The evaluation completes and its deployment is read. Only a deployment in
\* a known state goes on to the DNS attachment.
Evaluate(m) ==
    LET job == jobs[Name[m]] IN
    /\ pc[m] = "evaluate"
    /\ job.registered
    /\ Proceed(m, IF job.status \in KnownStates THEN "dns" ELSE "node",
               Observed(after[m], <<Name[m], job.deployment>>, job.status))
    /\ UNCHANGED <<objects, world, backends>>

\* Mutant: a machine that failed to deploy is released.
EvaluationFailureReleases(m) ==
    /\ pc[m] = "evaluate"
    /\ "failed" \in Disturbances \/ ~jobs[Name[m]].registered
    /\ DeployFailed(m)
    /\ jobs' = [jobs EXCEPT ![Name[m]].registered = FALSE]
    /\ UNCHANGED <<objects, world, services, nodes>>

\* The evaluation cannot be read, or it was cancelled or blocked.
EvaluationFails(m) ==
    /\ pc[m] = "evaluate"
    /\ "failed" \in Disturbances \/ ~jobs[Name[m]].registered
    /\ DeployFailed(m)
    /\ UNCHANGED <<objects, world, backends>>

\* No evaluation id, whose error is nil, or no deployment, whose error is
\* dropped: deployMachine's caller or deploymentToMachine dereferences nil.
PanicAfterRegister(m) ==
    /\ pc[m] = "evaluate"
    /\ "panic" \in Disturbances
    /\ Restart

-----------------------------------------------------------------------------
(* reconcileDNSAttachment, called by both halves of Reconcile *)

\* Mutant: the condition about the status is not negated.
DetachesKnown(o) == Deleting(o) \/ o.deployment \in KnownStates

Detaches(o) == Deleting(o) \/ o.deployment \notin KnownStates

Attachment(o) ==
    IF Detaches(o)
      THEN [o EXCEPT !.dnsAttached = FALSE, !.dnsCond = "pending"]
      ELSE [o EXCEPT !.dnsAttached = TRUE, !.dnsCond = "attached"]

\* Mutant: a service is deregistered by its name, which is the cluster's.
CatalogueByName(m) == IF Detaches(after[m]) THEN {} ELSE services \cup {Name[m]}

Catalogue(m) == IF Detaches(after[m]) THEN services \ {Name[m]}
                                      ELSE services \cup {Name[m]}

AfterDNS(o) == IF Deleting(o) THEN "release" ELSE "node"

\* Mutant: the object is changed before the call.
DNSMarkedFirst(m, r) ==
    /\ pc[m] = "dns"
    /\ m \in ControlPlane
    /\ services' = IF Happens(r) THEN Catalogue(m) ELSE services
    /\ IF r = "ok" THEN Proceed(m, AfterDNS(after[m]), Attachment(after[m]))
                   ELSE Return(m, Attachment(after[m]), TRUE)
    /\ UNCHANGED <<objects, world, jobs, nodes>>

\* Mutant: the error of the call is dropped.
DNSErrorDropped(m, r) ==
    /\ pc[m] = "dns"
    /\ m \in ControlPlane
    /\ services' = IF Happens(r) THEN Catalogue(m) ELSE services
    /\ Proceed(m, AfterDNS(after[m]), Attachment(after[m]))
    /\ UNCHANGED <<objects, world, jobs, nodes>>

\* Mutant: the error of the call is not returned.
DNSErrorForgotten(m, r) ==
    /\ pc[m] = "dns"
    /\ m \in ControlPlane
    /\ services' = IF Happens(r) THEN Catalogue(m) ELSE services
    /\ IF r = "ok" THEN Proceed(m, AfterDNS(after[m]), Attachment(after[m]))
                   ELSE Return(m, after[m], FALSE)
    /\ UNCHANGED <<objects, world, jobs, nodes>>

DNS(m, r) ==
    /\ pc[m] = "dns"
    /\ m \in ControlPlane
    /\ services' = IF Happens(r) THEN Catalogue(m) ELSE services
    /\ IF r = "ok" THEN Proceed(m, AfterDNS(after[m]), Attachment(after[m]))
                   ELSE Return(m, after[m], TRUE)
    /\ UNCHANGED <<objects, world, jobs, nodes>>

SkipDNS(m) ==
    /\ pc[m] = "dns"
    /\ m \notin ControlPlane
    /\ Proceed(m, AfterDNS(after[m]), after[m])
    /\ UNCHANGED <<objects, world, backends>>

-----------------------------------------------------------------------------
\* The rest of reconcileDelete: purge the job and give up the finalizer.
Released(o) == [o EXCEPT !.finalizer = FALSE, !.deployedCond = "deleted"]

\* The number of its last deployment is kept: no two share an ID.
Purged(j) == [j EXCEPT !.registered = FALSE, !.status = "none"]

\* Mutant: the finalizer is removed although the call failed.
ReleaseDeferred(m, r) ==
    /\ pc[m] = "release"
    /\ IF Happens(r)
         THEN jobs' = [jobs EXCEPT ![Name[m]] = Purged(@)]
         ELSE UNCHANGED jobs
    /\ Return(m, Released(after[m]), r # "ok")
    /\ UNCHANGED <<objects, world, services, nodes>>

ReleaseMachine(m, r) ==
    /\ pc[m] = "release"
    /\ IF Happens(r)
         THEN jobs' = [jobs EXCEPT ![Name[m]] = Purged(@)]
         ELSE UNCHANGED jobs
    /\ IF r = "ok" THEN Return(m, Released(after[m]), FALSE)
                   ELSE Return(m, after[m], TRUE)
    /\ UNCHANGED <<objects, world, services, nodes>>

-----------------------------------------------------------------------------
(* The rest of reconcileNormal: give the Node its providerID. A Node's      *)
(* providerID cannot be changed once it is set.                             *)

Operational(m) == apiOnline /\ after[m].deployment \in KnownStates

Settable(m) == nodes[Name[m]] \in {NoID, after[m].providerID}

SetNodeProviderID(m, r) ==
    /\ pc[m] = "node"
    /\ Operational(m)
    /\ nodes' = IF Settable(m) /\ Happens(r)
                  THEN [nodes EXCEPT ![Name[m]] = after[m].providerID] ELSE nodes
    /\ Return(m, after[m], ~Settable(m) \/ r # "ok")
    /\ UNCHANGED <<objects, world, jobs, services>>

\* Mutant: a machine that is not operational is not looked at again.
NotOperationalGivesUp(m) ==
    /\ pc[m] = "node"
    /\ ~Operational(m)
    /\ Return(m, after[m], FALSE)
    /\ UNCHANGED <<objects, world, backends>>

NotOperational(m) ==
    /\ pc[m] = "node"
    /\ ~Operational(m)
    /\ Return(m, after[m], TRUE)
    /\ UNCHANGED <<objects, world, backends>>

-----------------------------------------------------------------------------
(* PatchObject: the patch helper issues up to three calls, one after the    *)
(* other whether or not the one before it failed. Each sends the fields in  *)
(* which the pass's object differs from the copy it read.                   *)

PatchSpecOf(m) ==
    [api[m] EXCEPT
        !.finalizer = Patched(@, before[m].finalizer, after[m].finalizer),
        !.providerID = Patched(@, before[m].providerID, after[m].providerID)]

PatchStatusOf(m) ==
    [api[m] EXCEPT
        !.ready = Patched(@, before[m].ready, after[m].ready),
        !.deployment = Patched(@, before[m].deployment, after[m].deployment),
        !.failed = Patched(@, before[m].failed, after[m].failed),
        !.dnsAttached = Patched(@, before[m].dnsAttached, after[m].dnsAttached)]

\* The conditions are merged into a fresh copy of the object.
PatchCondsOf(m) ==
    [api[m] EXCEPT
        !.deployedCond = Patched(@, before[m].deployedCond, after[m].deployedCond),
        !.dnsCond = Patched(@, before[m].dnsCond, after[m].dnsCond)]

CondsChange(m) == \/ before[m].deployedCond # after[m].deployedCond
                  \/ before[m].dnsCond # after[m].dnsCond
SpecChanges(m) == \/ before[m].finalizer # after[m].finalizer
                  \/ before[m].providerID # after[m].providerID
StatusChanges(m) == \/ before[m].ready # after[m].ready
                    \/ before[m].deployment # after[m].deployment
                    \/ before[m].failed # after[m].failed
                    \/ before[m].dnsAttached # after[m].dnsAttached

\* Only MachineDeployed and Ready are owned: a DNSAttached condition that has
\* changed since it was read, and not to what the pass wants, is a conflict.
Conflict(m) == /\ before[m].dnsCond # after[m].dnsCond
               /\ api[m].dnsCond \notin {before[m].dnsCond, after[m].dnsCond}

\* An object that is being deleted goes with its last finalizer.
Stored(o) == IF Deleting(o) /\ ~o.finalizer THEN Blank("gone") ELSE o

\* One call of the patch. It is skipped when nothing changed, and fails when
\* the object is gone.
Call(m, r, changes, refused, obj) ==
    /\ api' = IF changes /\ ~refused /\ Exists(api[m]) /\ Happens(r)
                THEN [api EXCEPT ![m] = Stored(obj)] ELSE api
    /\ UNCHANGED <<cache, world, backends>>

Errs(m, r, changes, refused) == changes /\ (refused \/ ~Exists(api[m]) \/ r # "ok")

PatchConds(m, r) ==
    /\ pc[m] = "conds"
    /\ Call(m, r, CondsChange(m), Conflict(m), PatchCondsOf(m))
    /\ pc' = [pc EXCEPT ![m] = "spec"]
    /\ requeue' = [requeue EXCEPT ![m] = @ \/ Errs(m, r, CondsChange(m), Conflict(m))]
    /\ UNCHANGED <<queue, before, after>>

\* Mutant: the spec is updated and not patched.
UpdateSpec(m, r) ==
    /\ pc[m] = "spec"
    /\ Call(m, r, TRUE, FALSE, [api[m] EXCEPT !.finalizer = after[m].finalizer,
                                              !.providerID = after[m].providerID])
    /\ pc' = [pc EXCEPT ![m] = "status"]
    /\ requeue' = [requeue EXCEPT ![m] = @ \/ Errs(m, r, TRUE, FALSE)]
    /\ UNCHANGED <<queue, before, after>>

PatchSpec(m, r) ==
    /\ pc[m] = "spec"
    /\ Call(m, r, SpecChanges(m), FALSE, PatchSpecOf(m))
    /\ pc' = [pc EXCEPT ![m] = "status"]
    /\ requeue' = [requeue EXCEPT ![m] = @ \/ Errs(m, r, SpecChanges(m), FALSE)]
    /\ UNCHANGED <<queue, before, after>>

\* The last call ends the pass; an error of any of them queues the machine.
PatchStatus(m, r) ==
    /\ pc[m] = "status"
    /\ Call(m, r, StatusChanges(m), FALSE, PatchStatusOf(m))
    /\ queue' = IF requeue[m] \/ Errs(m, r, StatusChanges(m), FALSE)
                  THEN queue \cup {m} ELSE queue
    /\ pc' = [pc EXCEPT ![m] = "idle"]
    /\ requeue' = [requeue EXCEPT ![m] = FALSE]
    /\ before' = [before EXCEPT ![m] = Blank("none")]
    /\ after' = [after EXCEPT ![m] = Blank("none")]
-----------------------------------------------------------------------------
(* The environment: Cluster API, Nomad's deployments, the workload cluster, *)
(* and the events that put machines in the queue.                           *)

\* A write of the object by someone else.
Write(m, obj) ==
    /\ api' = [api EXCEPT ![m] = Stored(obj)]
    /\ UNCHANGED <<cache, world, backends, queue, passes>>

Create(m) == api[m].phase = "none" /\ Write(m, Blank("unowned"))

\* The Machine controller sets the OwnerRef.
SetOwner(m) ==
    api[m].phase = "unowned" /\ Write(m, [api[m] EXCEPT !.phase = "live"])

Delete(m) ==
    /\ api[m].phase \in {"unowned", "live"}
    /\ Write(m, [api[m] EXCEPT !.phase = "deleting"])

\* The watch brings the object's latest version, and an event.
CacheSync(m) ==
    /\ cache[m] # api[m]
    /\ cache' = [cache EXCEPT ![m] = api[m]]
    /\ queue' = queue \cup {m}
    /\ UNCHANGED <<api, world, backends, passes>>

\* The periodic resync of the informer (--sync-period).
Resync ==
    /\ queue' = queue \cup {m \in Machines : Exists(cache[m])}
    /\ UNCHANGED <<objects, world, backends, passes>>

\* The Cluster and its NomadCluster appear, or appear again, and the infrastructure
\* becomes ready. The watches of Cluster and NomadCluster queue the machines.
ClusterStep ==
    /\ \/ cluster = "missing" /\ cluster' \in {"unreferenced", "provisioning", "ready"}
       \/ cluster = "unreferenced" /\ cluster' = "provisioning"
       \/ cluster = "provisioning" /\ cluster' = "ready"
    /\ queue' = queue \cup {m \in Machines : Exists(cache[m])}
    /\ UNCHANGED <<objects, paused, bootstrap, homeless, apiOnline, backends, passes>>

\* The NomadCluster goes without waiting for the machines.
Removal ==
    /\ "removal" \in Disturbances
    /\ cluster \in {"provisioning", "ready"}
    /\ cluster' = "missing"
    /\ queue' = queue \cup {m \in Machines : Exists(cache[m])}
    /\ UNCHANGED <<objects, paused, bootstrap, homeless, apiOnline, backends, passes>>

Pause ==
    /\ "pause" \in Disturbances
    /\ ~paused
    /\ paused' = TRUE
    /\ UNCHANGED <<objects, cluster, bootstrap, homeless, apiOnline, backends, queue, passes>>

Unpause ==
    /\ paused
    /\ paused' = FALSE
    /\ queue' = queue \cup {m \in Machines : Exists(cache[m])}
    /\ UNCHANGED <<objects, cluster, bootstrap, homeless, apiOnline, backends, passes>>

\* The bootstrap provider sets DataSecretName; the watch of Machine queues m.
BootstrapReady(m) ==
    /\ m \notin bootstrap
    /\ bootstrap' = bootstrap \cup {m}
    /\ queue' = IF Exists(cache[m]) THEN queue \cup {m} ELSE queue
    /\ UNCHANGED <<objects, cluster, paused, homeless, apiOnline, backends, passes>>

\* A user gives the NomadMachine or its Machine a failure domain.
SetFailureDomain(m) ==
    /\ m \in homeless
    /\ homeless' = homeless \ {m}
    /\ queue' = IF Exists(cache[m]) THEN queue \cup {m} ELSE queue
    /\ UNCHANGED <<objects, cluster, paused, bootstrap, apiOnline, backends, passes>>

\* Nothing tells the controller of what follows.
DeploymentStep(n) ==
    /\ \/ jobs[n].status = "running" /\ jobs' = [jobs EXCEPT ![n].status = "successful"]
       \/ jobs[n].status = "unhandled" /\ jobs' = [jobs EXCEPT ![n].status = "running"]
    /\ UNCHANGED <<objects, world, services, nodes, queue, passes>>

DeploymentStalls(n) ==
    /\ "stall" \in Disturbances
    /\ jobs[n].status = "running"
    /\ jobs' = [jobs EXCEPT ![n].status = "unhandled"]
    /\ UNCHANGED <<objects, world, services, nodes, queue, passes>>

NodeJoins(n) ==
    /\ nodes[n] = Absent
    /\ jobs[n].registered
    /\ apiOnline
    /\ nodes' = [nodes EXCEPT ![n] = NoID]
    /\ UNCHANGED <<objects, world, jobs, services, queue, passes>>

ApiServerUp ==
    /\ ~apiOnline
    /\ apiOnline' = TRUE
    /\ UNCHANGED <<objects, cluster, paused, bootstrap, homeless, backends, queue, passes>>

ApiServerDown ==
    /\ "offline" \in Disturbances
    /\ apiOnline
    /\ apiOnline' = FALSE
    /\ UNCHANGED <<objects, cluster, paused, bootstrap, homeless, backends, queue, passes>>

-----------------------------------------------------------------------------
Begin(m) == Ignore(m) \/ BeginDelete(m) \/ AddFinalizer(m) \/ Wait(m) \/ BeginDeploy(m)

RemoteCall(m, r) ==
    \/ Register(m, r) \/ DNS(m, r) \/ ReleaseMachine(m, r) \/ SetNodeProviderID(m, r)
    \/ PatchConds(m, r) \/ PatchSpec(m, r) \/ PatchStatus(m, r)

Controller(m) ==
    \/ Begin(m) \/ RemoteCall(m, "ok")
    \/ Evaluate(m) \/ SkipDNS(m) \/ NotOperational(m)
    \/ PanicAtLookup(m) \/ PanicBeforeRegister(m)

Environment(m) ==
    \/ Create(m) \/ SetOwner(m) \/ Delete(m) \/ CacheSync(m)
    \/ BootstrapReady(m) \/ SetFailureDomain(m)

Normal ==
    \/ \E m \in Machines : Controller(m) \/ Environment(m)
    \/ \E n \in Names : DeploymentStep(n) \/ NodeJoins(n)
    \/ Resync \/ ClusterStep \/ Unpause \/ ApiServerUp

Disturbance ==
    \/ \E m \in Machines :
          \/ \E r \in Outcomes \ {"ok"} : RemoteCall(m, r)
          \/ LookupFails(m) \/ SecretFails(m)
          \/ EvaluationFails(m) \/ PanicAfterRegister(m)
    \/ \E n \in Names : DeploymentStalls(n)
    \/ Crash \/ Pause \/ Removal \/ ApiServerDown

Next == Normal \/ Disturbance

Spec == Init /\ [][Next]_vars
-----------------------------------------------------------------------------
(* Safety *)

\* Whatever the provider holds outside of Kubernetes for a machine, its job and
\* its Consul service, is held for an object that is still stored with our
\* finalizer: a job is never registered before the finalizer is (reconcileNormal
\* returns after adding it) and the finalizer is never removed before both are
\* gone (reconcileDelete), whatever is lost, stale or cut short in between.
NoOrphanedResources ==
    \A m \in Machines :
        jobs[Name[m]].registered \/ Name[m] \in services => api[m].finalizer

\* Consul never sends API server traffic to a machine whose job Nomad no longer
\* has: reconcileDelete detaches before it releases, and a pass attaches only a
\* machine whose job it has registered.
ServiceNeedsJob == \A n \in services : jobs[n].registered

\* While a machine is not being deleted, Status.DNSAttached is only true when
\* its service is in the catalogue: reconcileDNSAttachment sets the field after
\* the call, and Close may lose it but not invent it.
DNSAttachedHonest ==
    \A m \in Machines :
        api[m].phase = "live" /\ api[m].dnsAttached => Name[m] \in services

\* Nothing is on its way: no pass over m runs or is asked for, and its latest
\* version has been delivered.
Resting(m) == pc[m] = "idle" /\ m \notin queue /\ cache[m] = api[m]

\* A machine that is being deleted never comes to rest while its cluster is there
\* and not paused. Nobody starts the next attempt from outside: each error has to ask
\* for another pass, each event has to come to one that sees what it is about, and a
\* pass that asks for none must have removed the finalizer.
DeletionGoesOn ==
    \A m \in Machines :
        Deleting(api[m]) /\ cluster \in {"provisioning", "ready"} /\ ~paused =>
            ~Resting(m)

\* What o says of the deployment of m is current, but that it may have succeeded
\* since.
Reported(m, o) ==
    /\ o.providerID = <<Name[m], jobs[Name[m]].deployment>>
    /\ \/ o.deployment = "running" /\ ~o.ready /\ o.deployedCond = "deploying"
       \/ o.deployment = "successful" /\ o.ready /\ o.deployedCond = "deployed"

Attached(m, o) == m \in ControlPlane => o.dnsAttached /\ o.dnsCond = "attached"

Attended(m, o) ==
    /\ Reported(m, o) /\ Attached(m, o)
    /\ jobs[Name[m]].registered
    /\ nodes[Name[m]] \notin {NoID, Absent}

\* A machine of a cluster that is ready comes to rest only when all that a pass can
\* do for it is done and reported, whatever failed, was patched in part or from an
\* old copy, and whenever its cluster, its bootstrap data and its Node came. All that
\* may be left, to the resync, is to see that a running deployment has succeeded.
LeftAloneWhenDone ==
    \A m \in Machines :
        (/\ api[m].phase = "live" /\ Resting(m)
         /\ cluster = "ready" /\ ~paused /\ m \in bootstrap) =>
            Attended(m, api[m]) /\ (m \in ControlPlane => Name[m] \in services)

\* A step that makes a stored machine ready is one at which Nomad does report
\* its deployment successful: nothing between the read of the deployment and the
\* status patch, three calls later, can replace that deployment.
ReadyOnlyOnSuccess ==
    [][\A m \in Machines :
          ~api[m].ready /\ api'[m].ready => jobs[Name[m]].status = "successful"]_vars

\* A machine that has not been asked to go keeps its job: the passes over other
\* machines, a pass over an older object of its name, retries and restarts never
\* purge it. The name of the job is all that ReleaseMachine goes by.
MachineKeepsJob ==
    [][\A m \in Machines :
          api[m].phase = "live" /\ jobs[Name[m]].registered =>
              jobs'[Name[m]].registered]_vars

\* The stored providerID never goes back to an earlier deployment, or to none,
\* while the object exists: the patch of a pass that read an old copy sends
\* only what that pass changed.
ProviderIDNeverGoesBack ==
    [][\A m \in Machines :
          api[m].providerID # NoID /\ Exists(api'[m]) =>
              /\ api'[m].providerID # NoID
              /\ api'[m].providerID[2] >= api[m].providerID[2]]_vars

-----------------------------------------------------------------------------
(* What the repository says of a NomadMachine and the code does not keep. *)

\* "Make sure Spec.ProviderID and Spec.InstanceID are always set", before the
\* machine is made ready: but the spec and the status are patched by two calls,
\* and the second is made when the first has failed.
ReadyHasProviderID ==
    \A m \in Machines : api[m].ready => api[m].providerID # NoID

\* "Ready denotes that the machine (nomad container) is ready": but the job goes by
\* the name of the Machine alone, and is purged when another Machine of that name, in
\* another namespace, is deleted. The machine goes on being stored as ready.
ReadyMachineKeepsJob ==
    [][\A m \in Machines :
          api[m].phase = "live" /\ api[m].ready /\ jobs[Name[m]].registered =>
              jobs'[Name[m]].registered]_vars

\* FailureReason is set "in the event that there is a terminal problem": but it
\* is set for a deployment that is paused, too, and never cleared when the
\* deployment goes on and succeeds.
FailureIsTerminal == \A m \in Machines : ~(api[m].failed /\ api[m].ready)

-----------------------------------------------------------------------------
(* The invariant behind them. *)

\* The cache only ever lags behind. It shows a finalizer that has been removed
\* since only on an object it already shows as being deleted.
CacheInv(m) ==
    /\ api[m].finalizer => api[m].phase \in {"live", "deleting"}
    /\ cache[m].phase = "live" => api[m].phase \in {"live", "deleting", "gone"}
    /\ cache[m].phase \in {"deleting", "gone"} => api[m].phase \in {"deleting", "gone"}
    /\ cache[m].phase = "live" /\ cache[m].finalizer => api[m].finalizer

\* A pass over a live machine with our finalizer never gives it up, and while
\* it runs nobody else does.
PassInv(m) ==
    pc[m] # "idle" =>
        /\ before[m].phase \in {"live", "deleting"}
        /\ api[m].phase \in {"live", "deleting", "gone"}
        /\ after[m].phase = before[m].phase
        /\ before[m].phase = "deleting" => cache[m].phase \in {"deleting", "gone"}
        /\ before[m].phase = "live" /\ before[m].finalizer =>
              after[m].finalizer /\ api[m].finalizer

\* Past the finalizer, and past the registration of the job.
DeployInv(m) ==
    /\ pc[m] \in {"register", "evaluate", "node"} => before[m].phase = "live"
    /\ pc[m] \in {"register", "evaluate", "dns", "node"} /\ before[m].phase = "live" =>
          before[m].finalizer
    /\ pc[m] \in {"evaluate", "dns", "node"} /\ before[m].phase = "live" =>
          jobs[Name[m]].registered

\* Before the detachment, past it, and past the release.
ReleaseInv(m) ==
    /\ pc[m] \in {"dns", "release"} /\ before[m].finalizer => after[m].finalizer
    /\ pc[m] = "release" => before[m].phase = "deleting" /\ Name[m] \notin services
    /\ pc[m] \in {"conds", "spec"} /\ before[m].finalizer /\ ~after[m].finalizer =>
          /\ before[m].phase = "deleting"
          /\ ~jobs[Name[m]].registered
          /\ Name[m] \notin services

ResourceInv(m) ==
    /\ Name[m] \in services => m \in ControlPlane /\ jobs[Name[m]].registered
    /\ jobs[Name[m]].registered => api[m].finalizer

\* Inductive when no two Machines share a name: the conjuncts relate what a
\* pass has read and decided, which may be old, to what is true when it acts.
InductiveInv ==
    /\ \A m \in Machines :
          CacheInv(m) /\ PassInv(m) /\ DeployInv(m) /\ ReleaseInv(m) /\ ResourceInv(m)
    /\ \A n \in services : \E m \in ControlPlane : Name[m] = n

-----------------------------------------------------------------------------
(* The abstract view: guards, jobs and services, by name. *)

Guarded == {Name[m] : m \in {k \in Machines : api[k].finalizer}}
RegisteredJobs == {n \in Names : jobs[n].registered}

Resources == INSTANCE ExternalResources
                WITH guarded <- Guarded, jobs <- RegisteredJobs

\* The controller takes guard, job and service in this order and gives them up
\* in the opposite order, one at a time, across retries, stale reads and
\* restarts.
RefinesExternalResources == Resources!Spec

-----------------------------------------------------------------------------
(* Liveness. The manager's workers run, so a pass that has begun goes on,    *)
(* and the queue is first in first out, so a queued machine is not passed    *)
(* over for ever; the watch delivers. Nothing is assumed of the disturbances *)
(* but that they end: the claims are about recovering from them. The resync  *)
(* is only assumed where it is needed.                                       *)

Fairness == \A m \in Machines \ Stuck : /\ WF_vars(Controller(m))
                                        /\ SF_vars(Begin(m))
                                        /\ WF_vars(CacheSync(m))

Calm == <>[][~Disturbance]_vars

FairSpec == Spec /\ Calm /\ Fairness
ResyncSpec == FairSpec /\ WF_vars(Resync)

\* A machine that is being deleted is gone in the end, if from some time on its
\* cluster is there and not paused. The cluster has to be there: reconcileDelete
\* is never reached without one, and nothing asks for another pass. A machine
\* without a failure domain, whose every deployment panics, goes too, and so does
\* one with neighbours whose evaluations stay pending, while a worker is left. (One
\* with neighbours that panic in every pass might not: it is cut off each time.)
DeletionCompletes ==
    \A m \in Machines \ Stuck :
        <>[](cluster \in {"provisioning", "ready"} /\ ~paused) =>
            (Deleting(api[m]) ~> api[m].phase = "gone")

\* The machine's deployment has succeeded and nothing else happens to it.
Settled(m) ==
    /\ api[m].phase = "live"
    /\ cluster = "ready" /\ ~paused /\ m \in bootstrap
    /\ jobs[Name[m]].status = "successful"
    /\ apiOnline

Converged(m) ==
    /\ api[m].ready
    /\ api[m].deployedCond = "deployed"
    /\ api[m].providerID = <<Name[m], jobs[Name[m]].deployment>>
    /\ m \in ControlPlane =>
         api[m].dnsAttached /\ api[m].dnsCond = "attached" /\ Name[m] \in services
    /\ nodes[Name[m]] # NoID

\* A machine whose deployment has succeeded ends up ready, with the providerID
\* of that deployment and attached to DNS, and its Node, if it has joined, does
\* not stay without a providerID, whatever was lost or patched from a stale copy
\* before.
Convergence ==
    \A m \in Machines : <>[]Settled(m) => <>[]Converged(m)
=============================================================================
