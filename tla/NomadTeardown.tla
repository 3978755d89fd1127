---------------------------- MODULE NomadTeardown ----------------------------
(***************************************************************************)
(* The end of a cluster: the NomadCluster and the NomadMachine controller in *)
(* their common process, and Cluster API, which owns both kinds of objects.  *)
(* The controllers meet in the NomadCluster, which every pass over a machine *)
(* reads, in the events by which a change of an object of the one kind       *)
(* queues those of the other, in the API server of the workload cluster, and *)
(* in the death of the process.                                              *)
(* The control plane has been initialized, so no goroutine polls; the jobs   *)
(* stay as they are, so Nomad makes no other deployment of one.              *)
(***************************************************************************)
EXTENDS Naturals, FiniteSets

CONSTANTS Machines, ControlPlane, Names, Name, NoID, Absent, Workers,
                                      \* see NomadMachine
          Cluster,                    \* the cluster
          Goroutines,                 \* see NomadCluster
          Disturbances                \* of both

VARIABLES
    mapi, mcache, mqueue, mpc, mbefore, mafter, mrequeue,   \* of the machines
    paused, bootstrap, homeless, jobs, services, nodes,
    capi, ccache, cqueue, cpc, cbefore, cafter, crequeue,   \* of the cluster
    owner, online, inbox, seen, triggers, gpc, polled

\* Each controller with the lemmas about it, for the proofs about both.
C == INSTANCE NomadClusterProofs
        WITH Clusters <- {Cluster}, Domains <- {},
             api <- capi, cache <- ccache, queue <- cqueue, pc <- cpc,
             before <- cbefore, after <- cafter, requeue <- crequeue

\* What a pass over a machine sees of its cluster is the NomadCluster in the
\* cache that the controllers share.
Seen == IF C!Exists(ccache[Cluster]) THEN "ready" ELSE "missing"

M == INSTANCE NomadMachineProgressProofs
        WITH cluster <- Seen, apiOnline <- C!Reachable(Cluster),
             Stuck <- {}, MaxDeployments <- 1,
             api <- mapi, cache <- mcache, queue <- mqueue, pc <- mpc,
             before <- mbefore, after <- mafter, requeue <- mrequeue

ASSUME MachinesAssumption == ControlPlane \subseteq Machines
ASSUME NameAssumption ==
    Name \in [Machines -> Names] /\ Names = {Name[m] : m \in Machines}
ASSUME WorkersAssumption == Workers \in Nat \ {0}
ASSUME DisturbancesAssumption == Disturbances \subseteq {"failed", "lost", "crash"}
ASSUME NoIDAssumption == NoID \notin M!ProviderIDs
ASSUME AbsentAssumption == Absent \notin M!ProviderIDs \cup {NoID}

machineVars == <<mapi, mcache, mqueue, mpc, mbefore, mafter, mrequeue,
                 paused, bootstrap, homeless, jobs, services, nodes>>
passes == <<cpc, seen, cbefore, cafter, crequeue>>
pollers == <<triggers, gpc, polled>>
clusterVars == <<capi, ccache, owner, online, cqueue, inbox, passes, pollers>>
vars == <<machineVars, clusterVars>>

\* A machine as NomadMachine leaves it when its deployment has succeeded.
Deployed(m) ==
    [M!Blank("live") EXCEPT
        !.finalizer = TRUE, !.providerID = <<Name[m], 1>>, !.ready = TRUE,
        !.deployment = "successful", !.deployedCond = "deployed",
        !.dnsAttached = m \in ControlPlane,
        !.dnsCond = IF m \in ControlPlane THEN "attached" ELSE "none"]

UpAndRunning ==
    [C!Blank("live") EXCEPT
        !.finalizer = TRUE,
        !.endpoint = TRUE, !.ready = TRUE, !.available = "True"]

\* The cluster and its machines are up, and everything has been patched.
Init ==
    /\ capi = [c \in {Cluster} |-> UpAndRunning]
    /\ ccache = capi
    /\ owner = [c \in {Cluster} |-> [deleting |-> FALSE, initialized |-> TRUE]]
    /\ online = {Cluster}
    /\ cqueue = {} /\ inbox = {} /\ triggers = {}
    /\ cpc = [c \in {Cluster} |-> "idle"]
    /\ seen = [c \in {Cluster} |-> C!NewOwner]
    /\ cbefore = [c \in {Cluster} |-> C!Blank("none")]
    /\ cafter = cbefore
    /\ crequeue = [c \in {Cluster} |-> FALSE]
    /\ gpc = [g \in Goroutines |-> "free"]
    /\ polled = [g \in Goroutines |-> Cluster]
    /\ mapi = [m \in Machines |-> Deployed(m)]
    /\ mqueue = {}
    /\ jobs = [n \in Names |->
                  [registered |-> TRUE, deployment |-> 1, status |-> "successful"]]
    /\ nodes = [n \in Names |-> <<n, 1>>]
    /\ services = {Name[m] : m \in ControlPlane}
    /\ mcache = mapi
    /\ paused = FALSE
    /\ bootstrap = Machines /\ homeless = {}
    /\ mpc = [m \in Machines |-> "idle"]
    /\ mbefore = [m \in Machines |-> M!Blank("none")]
    /\ mafter = mbefore
    /\ mrequeue = [m \in Machines |-> FALSE]

-----------------------------------------------------------------------------
(* The controllers *)

BeginMachine(m) == UNCHANGED clusterVars /\ M!Begin(m)

MachinePass(m) ==
    /\ UNCHANGED clusterVars
    /\ \/ M!Begin(m) \/ M!RemoteCall(m, "ok")
       \/ M!Evaluate(m) \/ M!SkipDNS(m) \/ M!NotOperational(m)

BeginCluster == C!Begin(Cluster) /\ UNCHANGED machineVars
ClusterPass == C!Pass(Cluster) /\ UNCHANGED machineVars

\* controlPlaneMachineToCluster: the new version of a control plane machine
\* queues its cluster, too.
MachineSync(m) ==
    /\ UNCHANGED <<capi, ccache, owner, online, inbox, passes, pollers>>
    /\ M!CacheSync(m)
    /\ cqueue' = IF m \in ControlPlane /\ C!Exists(ccache[Cluster])
                   THEN cqueue \cup {Cluster} ELSE cqueue

\* NomadClusterToNomadMachines: the new version of a NomadCluster queues the
\* machines that the cache knows.
ClusterSync ==
    /\ C!CacheSync(Cluster)
    /\ mqueue' = mqueue \cup {m \in Machines : M!Exists(mcache[m])}
    /\ UNCHANGED <<mapi, mcache, mpc, mbefore, mafter, mrequeue,
                   paused, bootstrap, homeless, jobs, services, nodes>>

\* The process dies and takes both controllers with it. As the NomadCluster is
\* listed again, the machines may see it as they did not before.
Restart == C!Restart /\ M!Relist /\ UNCHANGED <<paused, bootstrap, homeless>>

-----------------------------------------------------------------------------
(* Cluster API, Nomad and the workload cluster *)

\* A machine may be deleted by itself; all are when the Cluster is.
DeleteMachine(m) == UNCHANGED clusterVars /\ M!Delete(m)

DeleteCluster == C!DeleteCluster(Cluster) /\ UNCHANGED machineVars

\* The NomadCluster is deleted when no machine is left.
DeleteNomadCluster ==
    /\ owner[Cluster].deleting
    /\ M!Existing = {}
    /\ C!DeleteObject(Cluster)
    /\ UNCHANGED machineVars

\* The API server is gone with the last control plane machine.
ApiServerGone ==
    /\ \A m \in ControlPlane : ~jobs[Name[m]].registered
    /\ Cluster \in online
    /\ online' = online \ {Cluster}
    /\ UNCHANGED <<machineVars, capi, ccache, owner, cqueue, inbox, passes, pollers>>

Normal ==
    \/ \E m \in Machines : MachinePass(m) \/ MachineSync(m) \/ DeleteMachine(m)
    \/ ClusterPass \/ ClusterSync
    \/ DeleteCluster \/ DeleteNomadCluster \/ ApiServerGone

\* A call fails, or the process dies; or only a pass that nothing else asks for.
Disturbance ==
    \/ \E m \in Machines :
          /\ UNCHANGED clusterVars
          /\ \/ M!LookupFails(m) \/ M!SecretFails(m) \/ M!EvaluationFails(m)
             \/ \E r \in M!Outcomes \ {"ok"} : M!RemoteCall(m, r)
    \/ /\ UNCHANGED machineVars
       /\ C!LookupFails(Cluster) \/ \E r \in C!Outcomes \ {"ok"} : C!Patch(Cluster, r)
    \/ "crash" \in Disturbances /\ Restart
    \/ UNCHANGED clusterVars /\ M!Resync
    \/ C!Event(Cluster) /\ UNCHANGED machineVars

Next == Normal \/ Disturbance

Spec == Init /\ [][Next]_vars

-----------------------------------------------------------------------------
\* When the NomadCluster is gone, nothing of the cluster is left in Nomad or in
\* Consul. The NomadCluster controller waits for no machine: this rests on Cluster
\* API's order and on each machine keeping its finalizer until all else is gone.
NothingLeftBehind ==
    capi[Cluster].phase = "gone" =>
        services = {} /\ \A n \in Names : ~jobs[n].registered

\* A machine that was up keeps its job, and a control plane machine the traffic of
\* its API server, until it is deleted itself: no pass over an old copy of it, no
\* retry, no restart, and nothing that happens to the Cluster or to another machine
\* takes either away.
ServedUntilDeleted ==
    \A m \in Machines :
        mapi[m].phase = "live" =>
            /\ jobs[Name[m]].registered
            /\ m \in ControlPlane => Name[m] \in services

\* A machine or a NomadCluster that is being deleted never comes to rest, however
\* its deletion began and whatever becomes of the other's passes. Every pass over a
\* machine has to find the NomadCluster in the cache: it is still there.
TeardownGoesOn ==
    /\ \A m \in Machines : M!Deleting(mapi[m]) => ~M!Resting(m)
    /\ C!Deleting(capi[Cluster]) => ~C!Resting(Cluster)

\* What the machines hold outside of Kubernetes, and when the NomadCluster ends.
Lifetime == INSTANCE ClusterLifetime
               WITH present <- capi[Cluster].phase # "gone", guarded <- M!Guarded,
                    jobs <- M!RegisteredJobs

\* The two controllers, which never speak of each other's objects but through the
\* cache, keep guards, jobs and services in order to the last one and let none of
\* them outlive the NomadCluster, although every pass of theirs may be older than
\* what it changes.
RefinesClusterLifetime == Lifetime!Spec

-----------------------------------------------------------------------------
(* The invariant behind them. *)

\* The NomadCluster is there, and is seen to be, as long as a machine is, and no
\* machine comes back.
OrderInv ==
    /\ ~paused
    /\ capi[Cluster].phase \in {"live", "deleting", "gone"}
    /\ capi[Cluster].phase = "live" => ccache[Cluster].phase = "live"
    /\ \A m \in Machines : mapi[m].phase \in {"live", "deleting", "gone"}
    /\ capi[Cluster].phase # "live" => \A m \in Machines : mapi[m].phase = "gone"

InductiveInv ==
    /\ C!TypeOK /\ C!InductiveInv
    /\ M!TypeOK /\ M!InductiveInv /\ M!Reports /\ M!Progress
    /\ OrderInv /\ ServedUntilDeleted

-----------------------------------------------------------------------------
\* The controllers go on, and Cluster API does what it has to. Nothing is assumed
\* of the passes that nothing else asks for.
Fairness ==
    /\ \A m \in Machines : /\ WF_vars(MachinePass(m))
                          /\ SF_vars(BeginMachine(m))
                          /\ WF_vars(MachineSync(m))
                          /\ WF_vars(owner[Cluster].deleting /\ DeleteMachine(m))
    /\ WF_vars(ClusterPass) /\ SF_vars(BeginCluster) /\ WF_vars(ClusterSync)
    /\ WF_vars(DeleteNomadCluster)

\* A Cluster that is deleted is torn down to the end: the machines go first, each
\* with its job and its service, then the NomadCluster. Every pass over a machine
\* has to find the NomadCluster, so it must not go before them.
TeardownCompletes ==
    owner[Cluster].deleting ~>
        /\ \A m \in Machines : mapi[m].phase = "gone"
        /\ \A n \in Names : ~jobs[n].registered
        /\ services = {}
        /\ capi[Cluster].phase = "gone"
=============================================================================
