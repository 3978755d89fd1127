------------------------- MODULE NomadTeardownProofs -------------------------
(***************************************************************************)
(* Proofs about the two controllers together, from the lemmas about each:   *)
(* nothing is left behind when the NomadCluster ends. A step of the one      *)
(* controller is a step of its module or, when it changes what the other    *)
(* sees, one that leaves the other's objects, passes and backends alone.    *)
(***************************************************************************)
EXTENDS NomadTeardown, TLAPS

\* What the modules of the controllers assume of their constants.
LEMMA Constants ==
    /\ ControlPlane \subseteq Machines /\ {} \subseteq Machines
    /\ Name \in [Machines -> Names]
    /\ 1 \in Nat \ {0} /\ Workers \in Nat \ {0}
    /\ Disturbances \subseteq M!Possible
    /\ Disturbances \subseteq C!Possible
    /\ NoID \notin M!ProviderIDs
    /\ Absent \notin M!ProviderIDs \cup {NoID}
  BY MachinesAssumption, NameAssumption, WorkersAssumption, DisturbancesAssumption,
     NoIDAssumption, AbsentAssumption DEF M!Possible, C!Possible

-----------------------------------------------------------------------------
(* The steps are of three kinds. *)

ClusterOK == C!TypeOK /\ C!InductiveInv

\* A step of a machine's controller or of its objects.
OfMachines == M!Next /\ UNCHANGED <<capi, ccache>>

\* A step of the cluster's controller or of its object. It may change what the
\* machines see of the cluster, when it queues those that are known, and only then.
\* The NomadCluster begins to go when all machines are gone.
OfCluster ==
    /\ UNCHANGED <<mapi, mcache, mpc, mbefore, mafter, mrequeue,
                   paused, bootstrap, homeless, jobs, services, nodes>>
    /\ mqueue \subseteq mqueue' /\ mqueue' \subseteq Machines
    /\ \/ ccache' = ccache
       \/ /\ ccache'[Cluster] = capi'[Cluster]
          /\ \A m \in Machines : M!Exists(mcache[m]) => m \in mqueue'
    /\ \/ capi'[Cluster].phase = capi[Cluster].phase
       \/ capi[Cluster].phase = "deleting" /\ capi'[Cluster].phase = "gone"
       \/ /\ capi[Cluster].phase = "live"
          /\ capi'[Cluster].phase \in {"deleting", "gone"}
          /\ \A m \in Machines : mapi[m].phase = "gone"

\* A restart of the process they share.
OfBoth == "crash" \in Disturbances /\ Restart

\* A step of the NomadCluster controller keeps what holds of it.
LEMMA ClusterNext == ASSUME InductiveInv, C!Next PROVE ClusterOK'
  BY C!NextType, C!InductiveNext, Constants DEF InductiveInv, ClusterOK

LEMMA SameCluster ==
    ASSUME InductiveInv,
           UNCHANGED <<capi, ccache, owner, cqueue, inbox, passes, pollers>>,
           online' \subseteq online
    PROVE  ClusterOK'
  <1>1. C!TypeOK'
    BY DEF InductiveInv, C!TypeOK, passes, pollers
  <1>2. C!InductiveInv'
    BY C!WorldInv, Constants DEF InductiveInv, C!objects, C!passes, C!pollers, passes, pollers
  <1> QED
    BY <1>1, <1>2 DEF ClusterOK

LEMMA MachineSteps ==
    ASSUME InductiveInv,
           \/ \E m \in Machines :
                 \/ MachinePass(m) \/ DeleteMachine(m)
                 \/ /\ UNCHANGED clusterVars
                    /\ \/ M!LookupFails(m) \/ M!SecretFails(m) \/ M!EvaluationFails(m)
                       \/ \E r \in M!Outcomes \ {"ok"} : M!RemoteCall(m, r)
           \/ UNCHANGED clusterVars /\ M!Resync
    PROVE  OfMachines /\ ClusterOK'
  <1>1. UNCHANGED clusterVars /\ M!Next
    BY DEF MachinePass, DeleteMachine, M!Next, M!Normal, M!Disturbance, M!Controller,
           M!Environment
  <1> QED
    BY <1>1, SameCluster DEF OfMachines, clusterVars

LEMMA MachineSyncStep ==
    ASSUME InductiveInv, NEW m \in Machines, MachineSync(m) PROVE OfMachines /\ ClusterOK'
  <1>1. M!Next
    BY DEF MachineSync, M!Next, M!Normal, M!Environment
  <1>2. UNCHANGED <<capi, ccache, owner, online, inbox, passes, pollers>>
    BY DEF MachineSync
  <1>3. CASE cqueue' = cqueue
    BY <1>1, <1>2, <1>3, SameCluster DEF OfMachines
  <1>4. CASE C!Exists(ccache[Cluster]) /\ cqueue' = cqueue \cup {Cluster}
    <2>1. C!Event(Cluster)
      BY <1>2, <1>4
         DEF C!Event, C!objects, C!world, C!passes, C!pollers, passes, pollers
    <2>2. C!Next
      BY <2>1 DEF C!Next, C!Normal, C!Environment
    <2> QED
      BY <1>1, <1>2, <2>2, ClusterNext DEF OfMachines
  <1> QED
    BY <1>3, <1>4 DEF MachineSync

LEMMA ClusterSteps ==
    ASSUME InductiveInv, UNCHANGED machineVars,
           C!Pass(Cluster) \/ (\E r \in C!Outcomes : C!Patch(Cluster, r)) \/ C!Event(Cluster)
           \/ C!DeleteCluster(Cluster) \/ C!LookupFails(Cluster)
    PROVE  OfCluster /\ ClusterOK'
  <1>1. C!Next
    BY DEF C!Next, C!Normal, C!Disturbance, C!Environment, C!Pass
  <1>2. /\ ccache' = ccache
        /\ \/ capi'[Cluster].phase = capi[Cluster].phase
           \/ capi[Cluster].phase = "deleting" /\ capi'[Cluster].phase = "gone"
    <2>1. CASE \E r : C!Patch(Cluster, r)
      <3>1. ccache' = ccache
        BY <2>1 DEF C!Patch, C!PatchConds, C!PatchSpec, C!PatchStatus, C!Call
      <3> QED
        BY <2>1, <3>1, C!PatchPhase, Constants DEF InductiveInv
    <2>2. CASE ~\E r : C!Patch(Cluster, r)
      BY <2>2 DEF C!Pass, C!Begin, C!Ignore, C!Delete, C!AddFinalizer, C!SetEndpoint,
                  C!Open, C!Dequeue, C!Trigger, C!SkipTrigger, C!SkipPolled,
                  C!StartPolling, C!Check, C!Proceed, C!Event, C!DeleteCluster, C!LookupFails,
                  C!objects, C!vars
    <2> QED
      BY <2>1, <2>2
  <1> QED
    BY <1>1, <1>2, ClusterNext DEF OfCluster, machineVars, InductiveInv, M!TypeOK

LEMMA ClusterSyncStep == ASSUME InductiveInv, ClusterSync PROVE OfCluster /\ ClusterOK'
  <1>1. C!Next
    BY DEF ClusterSync, C!Next, C!Normal, C!Environment
  <1>2. ccache'[Cluster] = capi'[Cluster] /\ capi' = capi
    BY DEF ClusterSync, C!CacheSync, InductiveInv, C!TypeOK
  <1> QED
    BY <1>1, <1>2, ClusterNext DEF OfCluster, ClusterSync, InductiveInv, M!TypeOK

LEMMA DeleteNomadClusterStep ==
    ASSUME InductiveInv, DeleteNomadCluster PROVE OfCluster /\ ClusterOK'
  <1>1. C!Next
    BY DEF DeleteNomadCluster, C!Next, C!Normal, C!Environment
  <1>2. \A m \in Machines : mapi[m].phase = "gone"
    BY DEF DeleteNomadCluster, InductiveInv, OrderInv, M!Existing, M!Exists
  <1>3. capi[Cluster].phase = "live" /\ capi'[Cluster].phase \in {"deleting", "gone"}
    BY DEF DeleteNomadCluster, C!DeleteObject, C!Write, C!Stored, C!Deleting, C!Blank,
           InductiveInv, OrderInv, C!TypeOK, C!Object
  <1>4. ccache' = ccache
    BY DEF DeleteNomadCluster, C!DeleteObject, C!Write
  <1> QED
    BY <1>1, <1>2, <1>3, <1>4, ClusterNext
       DEF OfCluster, DeleteNomadCluster, machineVars, InductiveInv, M!TypeOK

LEMMA OtherSteps ==
    ASSUME InductiveInv, ApiServerGone \/ UNCHANGED vars PROVE OfCluster /\ ClusterOK'
  <1>1. /\ UNCHANGED <<machineVars, capi, ccache, owner, cqueue, inbox, passes, pollers>>
        /\ online' \subseteq online
    BY DEF ApiServerGone, vars, clusterVars
  <1> QED
    BY <1>1, SameCluster DEF OfCluster, machineVars, InductiveInv, M!TypeOK

LEMMA BothSteps ==
    ASSUME InductiveInv, OfBoth PROVE ClusterOK' /\ capi' = capi /\ ccache' = capi
  <1>1. C!Next
    BY DEF OfBoth, Restart, C!Crash, C!Next, C!Disturbance
  <1> QED
    BY <1>1, ClusterNext DEF OfBoth, Restart, C!Restart

LEMMA Kinds ==
    ASSUME InductiveInv, [Next]_vars PROVE (OfMachines \/ OfCluster \/ OfBoth) /\ ClusterOK'
  <1>1. CASE Normal
    BY <1>1, MachineSteps, MachineSyncStep, ClusterSteps, ClusterSyncStep,
       DeleteNomadClusterStep, OtherSteps
       DEF Normal, ClusterPass, DeleteCluster
  <1>2. CASE Disturbance
    BY <1>2, MachineSteps, ClusterSteps, BothSteps DEF Disturbance, OfBoth
  <1> QED
    BY <1>1, <1>2, OtherSteps DEF Next

-----------------------------------------------------------------------------
\* A machine and a cluster as the composition starts with them.
LEMMA StartTypes ==
    /\ UpAndRunning \in C!Object
    /\ UpAndRunning.phase = "live" /\ UpAndRunning.finalizer
    /\ UpAndRunning.domains = UpAndRunning.listed
    /\ C!Blank("none") \in C!Object
    /\ \A m \in Machines :
          /\ Deployed(m) \in M!Object /\ Deployed(m).phase = "live"
          /\ Deployed(m).finalizer
    /\ M!Blank("none") \in M!Object
  <1>1. /\ C!Blank("live") \in C!Object /\ C!Blank("none") \in C!Object
        /\ C!Blank("live").phase = "live"
        /\ C!Blank("live").domains = C!Blank("live").listed
    BY C!BlankType, Constants DEF C!Phases, C!Blank
  <1>2. /\ M!Blank("live") \in M!Object /\ M!Blank("none") \in M!Object
        /\ M!Blank("live").phase = "live"
    BY M!BlankType, Constants DEF M!Phases, M!Blank
  <1>3. /\ UpAndRunning \in C!Object
        /\ UpAndRunning.phase = "live" /\ UpAndRunning.finalizer
        /\ UpAndRunning.domains = UpAndRunning.listed
    BY <1>1 DEF UpAndRunning, C!Object, C!Availabilities
  <1>4. ASSUME NEW m \in Machines
        PROVE  Deployed(m) \in M!Object /\ Deployed(m).phase = "live" /\ Deployed(m).finalizer
    <2>1. <<Name[m], 1>> \in M!ProviderIDs
      BY Constants DEF M!ProviderIDs
    <2>2. ASSUME NEW b \in BOOLEAN, NEW cond \in M!DNSConditions,
                 Deployed(m) = [M!Blank("live") EXCEPT
                    !.finalizer = TRUE, !.providerID = <<Name[m], 1>>, !.ready = TRUE,
                    !.deployment = "successful", !.deployedCond = "deployed",
                    !.dnsAttached = b, !.dnsCond = cond]
          PROVE  /\ Deployed(m) \in M!Object
                 /\ Deployed(m).phase = "live" /\ Deployed(m).finalizer
      BY <1>2, <2>1, <2>2 DEF M!Object, M!Deployments, M!DeployedConditions
    <2>3. (m \in ControlPlane) \in BOOLEAN
      OBVIOUS
    <2>4. (IF m \in ControlPlane THEN "attached" ELSE "none") \in M!DNSConditions
      BY DEF M!DNSConditions
    <2> QED
      BY <2>2, <2>3, <2>4, Zenon DEF Deployed
  <1> QED
    BY <1>1, <1>2, <1>3, <1>4

\* What a machine says at the start is so.
LEMMA StartReports ==
    ASSUME NEW m \in Machines
    PROVE  /\ Deployed(m).providerID = <<Name[m], 1>> /\ Deployed(m).ready
           /\ Deployed(m).deployment = "successful" /\ Deployed(m).deployedCond = "deployed"
           /\ Deployed(m).dnsAttached <=> m \in ControlPlane
           /\ m \in ControlPlane => Deployed(m).dnsCond = "attached"
  <1>1. ASSUME NEW b \in BOOLEAN, NEW cond \in M!DNSConditions,
               Deployed(m) = [M!Blank("live") EXCEPT
                  !.finalizer = TRUE, !.providerID = <<Name[m], 1>>, !.ready = TRUE,
                  !.deployment = "successful", !.deployedCond = "deployed",
                  !.dnsAttached = b, !.dnsCond = cond]
        PROVE  /\ Deployed(m).providerID = <<Name[m], 1>> /\ Deployed(m).ready
               /\ Deployed(m).deployment = "successful"
               /\ Deployed(m).deployedCond = "deployed"
               /\ Deployed(m).dnsAttached = b /\ Deployed(m).dnsCond = cond
    BY <1>1, StartTypes, M!BlankType, Constants DEF M!Object, M!Phases
  <1>2. /\ (m \in ControlPlane) \in BOOLEAN
        /\ (IF m \in ControlPlane THEN "attached" ELSE "none") \in M!DNSConditions
    BY DEF M!DNSConditions
  <1>3. /\ Deployed(m).providerID = <<Name[m], 1>> /\ Deployed(m).ready
        /\ Deployed(m).deployment = "successful" /\ Deployed(m).deployedCond = "deployed"
        /\ Deployed(m).dnsAttached = (m \in ControlPlane)
        /\ Deployed(m).dnsCond = IF m \in ControlPlane THEN "attached" ELSE "none"
    BY <1>1, <1>2, Zenon DEF Deployed
  <1>4. Deployed(m).dnsAttached <=> m \in ControlPlane
    BY <1>3, Zenon
  <1> QED
    BY <1>3, <1>4

LEMMA ClusterInit == Init => C!TypeOK /\ C!InductiveInv
  <1> SUFFICES ASSUME Init PROVE C!TypeOK /\ C!InductiveInv
    OBVIOUS
  <1>1. C!TypeOK
    BY StartTypes DEF Init, C!TypeOK, C!Owner, C!NewOwner, C!PCs
  <1>2. C!OnePoller /\ C!TriggersHavePollers
    BY DEF Init, C!OnePoller, C!TriggersHavePollers, C!Running
  <1>3. /\ capi[Cluster] = UpAndRunning /\ ccache[Cluster] = UpAndRunning
        /\ cpc[Cluster] = "idle" /\ cbefore[Cluster].phase = "none"
    BY DEF Init, C!Blank
  <1>4. C!FinalizerFirst /\ C!CacheInv(Cluster) /\ C!PassInv(Cluster)
    BY <1>3, StartTypes DEF Init, C!FinalizerFirst, C!CacheInv, C!PassInv
  <1>5. C!DomainsInv(Cluster) /\ C!GoingInv(Cluster)
    BY <1>3, StartTypes DEF C!DomainsInv, C!GoingInv, C!Deleting
  <1> QED
    BY <1>1, <1>2, <1>4, <1>5 DEF C!InductiveInv

LEMMA MachineInit == Init => M!TypeOK
  <1>1. [registered |-> TRUE, deployment |-> 1, status |-> "successful"] \in M!Job
    BY DEF M!Job, M!Deployments
  <1>2. \A n \in Names : <<n, 1>> \in M!ProviderIDs
    BY DEF M!ProviderIDs
  <1>3. Init => Seen \in {"ready", "missing"} /\ C!Reachable(Cluster) \in BOOLEAN
    BY DEF Seen, C!Reachable
  <1>4. {Name[m] : m \in ControlPlane} \subseteq Names
    BY Constants
  <1> SUFFICES ASSUME Init PROVE M!TypeOK
    OBVIOUS
  <1>5. mapi \in [Machines -> M!Object] /\ mcache = mapi
    BY StartTypes DEF Init
  <1>6. /\ jobs \in [Names -> M!Job] /\ \A n \in Names : jobs[n].deployment > 0
        /\ nodes \in [Names -> M!ProviderIDs \cup {NoID, Absent}]
    BY <1>1, <1>2 DEF Init
  <1>7. mpc \in [Machines -> M!PCs]
    BY DEF Init, M!PCs
  <1> QED
    BY <1>3, <1>4, <1>5, <1>6, <1>7, StartTypes DEF Init, M!TypeOK

LEMMA InitInv == ASSUME M!UniqueNames, Init PROVE InductiveInv
  <1>1. M!InductiveInv
    BY StartTypes, Constants
       DEF Init, M!UniqueNames, M!InductiveInv, M!CacheInv, M!PassInv,
           M!DeployInv, M!ReleaseInv, M!ResourceInv
  <1>2. OrderInv
    BY StartTypes DEF Init, OrderInv
  <1>3. M!Reports
    <2> SUFFICES ASSUME NEW m \in Machines PROVE M!ReportInv(m)
      BY DEF M!Reports
    <2>1. /\ mapi[m] = Deployed(m) /\ mcache[m] = Deployed(m) /\ mpc[m] = "idle"
          /\ jobs[Name[m]].deployment = 1 /\ Deployed(m).phase = "live"
          /\ Deployed(m).dnsAttached => Name[m] \in services
      BY StartTypes, StartReports, Constants DEF Init
    <2>2. Deployed(m).providerID[2] = 1
      BY StartReports
    <2> QED
      BY <2>1, <2>2 DEF M!ReportInv, M!AttachInv, M!Claimed, M!IDInv, M!ReadyInv
  <1>4. M!Progress
    <2> SUFFICES ASSUME NEW m \in Machines PROVE M!ProgressInv(m)
      BY DEF M!Progress
    <2>1. /\ mapi[m] = Deployed(m) /\ mcache[m] = Deployed(m) /\ mpc[m] = "idle"
          /\ mbefore[m].phase = "none"
          /\ Deployed(m).phase = "live" /\ ~M!Deleting(Deployed(m))
      BY StartTypes DEF Init, M!Deleting, M!Blank
    <2>2. /\ jobs[Name[m]].registered /\ jobs[Name[m]].deployment = 1
          /\ nodes[Name[m]] = <<Name[m], 1>>
      BY Constants DEF Init
    <2>3. nodes[Name[m]] \notin {NoID, Absent}
      BY <2>2, Constants DEF M!ProviderIDs
    <2>4. M!Attended(m, mapi[m])
      BY <2>1, <2>2, <2>3, StartReports DEF M!Attended, M!Reported, M!Attached
    <2> QED
      BY <2>1, <2>4
         DEF M!ProgressInv, M!GoingInv, M!FreshInv, M!ReadingInv, M!DoneInv, M!SentInv,
             M!RestInv, M!Patching
  <1>5. ServedUntilDeleted
    BY StartTypes, Constants DEF Init, ServedUntilDeleted
  <1> QED
    BY <1>1, <1>2, <1>3, <1>4, <1>5, ClusterInit, MachineInit DEF InductiveInv

-----------------------------------------------------------------------------
(* The invariant, kind by kind. *)

LEMMA MachinesInv ==
    ASSUME M!UniqueNames, InductiveInv, OfMachines, ClusterOK' PROVE InductiveInv'
  <1>1. M!TypeOK' /\ M!InductiveInv' /\ M!Reports' /\ M!Progress'
    BY M!NextType, M!NextInv, M!NextReports, M!NextProgress, Constants
       DEF InductiveInv, OfMachines
  <1>2. ~paused'
    BY M!NobodyPauses, Constants, DisturbancesAssumption
       DEF InductiveInv, OrderInv, OfMachines
  <1>3. ASSUME NEW m \in Machines
        PROVE  /\ mapi'[m].phase \in {"live", "deleting", "gone"}
               /\ mapi[m].phase = "gone" => mapi'[m].phase = "gone"
    BY M!PhaseStep, Constants DEF InductiveInv, OrderInv, OfMachines
  <1>4. ASSUME NEW m \in Machines, mapi'[m].phase = "live" PROVE mapi[m].phase = "live"
    BY <1>4, M!PhaseStep, Constants DEF InductiveInv, OrderInv, OfMachines
  <1>5. ServedUntilDeleted'
    <2> SUFFICES ASSUME NEW m \in Machines, mapi'[m].phase = "live"
                 PROVE  /\ jobs'[Name[m]].registered
                        /\ m \in ControlPlane => Name[m] \in services'
      BY DEF ServedUntilDeleted
    <2>1. mapi[m].phase = "live"
      BY <1>4
    <2> QED
      BY <2>1, M!JobStep, M!ServiceStep, Constants
         DEF InductiveInv, ServedUntilDeleted, OfMachines
  <1>6. OrderInv'
    BY <1>2, <1>3 DEF InductiveInv, OrderInv, OfMachines
  <1> QED
    BY <1>1, <1>5, <1>6 DEF InductiveInv, ClusterOK

\* What the cluster does to the machines' world, no invariant of theirs minds.
LEMMA ClusterInv == ASSUME InductiveInv, OfCluster, ClusterOK' PROVE InductiveInv'
  <1>1. M!TypeOK'
    <2>1. Seen' \in {"ready", "missing"} /\ C!Reachable(Cluster)' \in BOOLEAN
      BY DEF Seen, C!Reachable
    <2> QED
      BY <2>1 DEF OfCluster, InductiveInv, M!TypeOK
  <1>2. M!InductiveInv'
    BY M!UnrelatedInv, Constants DEF OfCluster, InductiveInv, M!objects, M!passes
  <1>3. M!Reports'
    BY M!UnrelatedReports, Constants DEF OfCluster, InductiveInv, M!objects, M!passes
  <1>4. M!Progress'
    <2> SUFFICES ASSUME NEW m \in Machines PROVE M!Undisturbed(m)
      BY M!UndisturbedProgress, Constants DEF InductiveInv, M!Progress
    <2>1. M!Same(m) /\ mrequeue'[m] = mrequeue[m] /\ (m \in mqueue => m \in mqueue')
      BY DEF OfCluster, M!Same, M!SamePass, M!SameBackends
    <2>2. jobs' = jobs /\ (M!NodeSettled(m) => M!NodeSettled(m)')
      BY DEF OfCluster, M!NodeSettled
    <2>3. \/ m \in mqueue' \/ ~M!Exists(mcache[m])
          \/ (M!Ready(m)' => M!Ready(m)) /\ (M!Unheld' => M!Unheld)
      BY DEF OfCluster, M!Ready, M!Unheld, Seen
    <2> QED
      BY <2>1, <2>2, <2>3 DEF M!Undisturbed
  <1>5. capi'[Cluster].phase = "live" => ccache'[Cluster].phase = "live"
    BY DEF OfCluster, InductiveInv, OrderInv
  <1>6. OrderInv' /\ ServedUntilDeleted'
    BY <1>5 DEF OfCluster, InductiveInv, OrderInv, ServedUntilDeleted
  <1> QED
    BY <1>1, <1>2, <1>3, <1>4, <1>6 DEF InductiveInv, ClusterOK

LEMMA BothInv == ASSUME InductiveInv, OfBoth PROVE InductiveInv'
  <1>1. M!TypeOK'
    <2>1. M!Blank("none") \in M!Object
      BY StartTypes
    <2>2. Seen' \in {"ready", "missing"} /\ C!Reachable(Cluster)' \in BOOLEAN
      BY DEF Seen, C!Reachable
    <2> QED
      BY <2>1, <2>2 DEF OfBoth, Restart, InductiveInv, M!Relist, M!TypeOK, M!Existing,
                        M!PCs, M!backends
  <1>2. M!InductiveInv'
    BY M!RelistInv, Constants DEF OfBoth, Restart, InductiveInv
  <1>3. M!Reports'
    BY M!RelistReports, Constants DEF OfBoth, Restart, InductiveInv, M!Relist, M!backends
  <1>4. M!Progress'
    BY M!RelistProgress, Constants DEF OfBoth, Restart, InductiveInv
  <1>5. OrderInv' /\ ServedUntilDeleted'
    BY BothSteps DEF InductiveInv, OrderInv, ServedUntilDeleted, OfBoth, Restart,
                     M!Relist, M!backends
  <1> QED
    BY <1>1, <1>2, <1>3, <1>4, <1>5, BothSteps DEF InductiveInv, ClusterOK

LEMMA NextInv == ASSUME M!UniqueNames, InductiveInv, [Next]_vars PROVE InductiveInv'
  BY Kinds, MachinesInv, ClusterInv, BothInv

\* The invariant behind the theorems below: both controllers keep theirs although
\* each changes what the other works with, and no machine outlives the NomadCluster.
THEOREM Inductive == ASSUME M!UniqueNames PROVE Spec => []InductiveInv
  <1>1. Init => InductiveInv
    BY InitInv
  <1>2. InductiveInv /\ [Next]_vars => InductiveInv'
    BY NextInv
  <1> QED
    BY <1>1, <1>2, PTL DEF Spec

\* When no machine is left, nothing is held for one.
LEMMA NothingHeld ==
    ASSUME InductiveInv, \A m \in Machines : mapi[m].phase = "gone"
    PROVE  services = {} /\ \A n \in Names : ~jobs[n].registered
  <1>1. \A m \in Machines : ~mapi[m].finalizer
    BY DEF InductiveInv, M!InductiveInv, M!CacheInv
  <1>2. \A m \in Machines : ~jobs[Name[m]].registered /\ Name[m] \notin services
    BY <1>1 DEF InductiveInv, M!InductiveInv, M!ResourceInv
  <1>3. \A n \in Names : ~jobs[n].registered /\ n \notin services
    BY <1>2, NameAssumption
  <1> QED
    BY <1>3 DEF InductiveInv, M!TypeOK

\* For any number of machines and workers, any failed or lost calls, crashes and
\* stale copies: the NomadCluster is only gone when Nomad has no job and Consul no
\* service of its machines.
THEOREM NothingIsLeft == ASSUME M!UniqueNames PROVE Spec => []NothingLeftBehind
  <1>1. InductiveInv => NothingLeftBehind
    BY NothingHeld DEF InductiveInv, OrderInv, NothingLeftBehind
  <1> QED
    BY <1>1, Inductive, PTL

\* For any number of machines: one that was up keeps its job and its service until
\* Cluster API deletes it, whatever becomes of passes, process, Cluster and the others.
THEOREM ServedAsLongAsWanted ==
    ASSUME M!UniqueNames PROVE Spec => []ServedUntilDeleted
  <1>1. InductiveInv => ServedUntilDeleted
    BY DEF InductiveInv
  <1> QED
    BY <1>1, Inductive, PTL

\* For any number of machines: one that is being deleted, or the NomadCluster when it
\* is, never comes to rest. The machines' controller can do nothing for a machine whose
\* NomadCluster is not in the cache; here it always is.
THEOREM TeardownNeverRests ==
    ASSUME M!UniqueNames PROVE Spec => []TeardownGoesOn
  <1>1. ASSUME InductiveInv, NEW m \in Machines, M!Deleting(mapi[m]) PROVE ~M!Resting(m)
    <2>1. mapi[m].phase # "gone"
      BY <1>1 DEF M!Deleting
    <2>2. ccache[Cluster].phase = "live"
      BY <1>1, <2>1 DEF InductiveInv, OrderInv
    <2>3. M!Unheld
      BY <1>1, <2>2 DEF InductiveInv, OrderInv, M!Unheld, Seen, C!Exists
    <2> QED
      BY <1>1, <2>3 DEF InductiveInv, M!Progress, M!ProgressInv, M!RestInv
  <1>2. ASSUME InductiveInv, C!Deleting(capi[Cluster]) PROVE ~C!Resting(Cluster)
    BY <1>2 DEF InductiveInv, C!InductiveInv, C!GoingInv, C!Resting
  <1>3. InductiveInv => TeardownGoesOn
    BY <1>1, <1>2 DEF TeardownGoesOn
  <1> QED
    BY <1>3, Inductive, PTL

-----------------------------------------------------------------------------
(* The composition implements ClusterLifetime. *)

LEMMA InitStep == ASSUME M!UniqueNames, Init PROVE Lifetime!Init
  <1>1. InductiveInv
    BY InitInv
  <1>2. capi[Cluster].phase # "gone"
    BY StartTypes DEF Init
  <1>3. /\ M!Guarded \subseteq Names /\ M!RegisteredJobs \subseteq Names
        /\ services \subseteq Names
    BY Constants, <1>1 DEF M!Guarded, M!RegisteredJobs, InductiveInv, M!TypeOK
  <1>4. M!RegisteredJobs \subseteq M!Guarded
    BY <1>1, NameAssumption
       DEF M!RegisteredJobs, M!Guarded, InductiveInv, M!InductiveInv, M!ResourceInv
  <1>5. services \subseteq M!RegisteredJobs
    BY <1>1, <1>3, NameAssumption
       DEF M!RegisteredJobs, InductiveInv, M!InductiveInv, M!ResourceInv
  <1> QED
    BY <1>2, <1>3, <1>4, <1>5
       DEF Lifetime!Init, Lifetime!Resources!TypeOK, Lifetime!Resources!Nested

\* Nothing is guarded, registered or in the catalogue.
Nothing == M!Guarded = {} /\ M!RegisteredJobs = {} /\ services = {}

LEMMA NothingWhenGone ==
    ASSUME InductiveInv, \A m \in Machines : mapi[m].phase = "gone" PROVE Nothing
  <1>1. \A m \in Machines : ~mapi[m].finalizer
    BY DEF InductiveInv, M!InductiveInv, M!CacheInv
  <1> QED
    BY <1>1, NothingHeld DEF Nothing, M!Guarded, M!RegisteredJobs

LEMMA MachinesStep ==
    ASSUME M!UniqueNames, InductiveInv, InductiveInv', OfMachines
    PROVE  [Lifetime!Next]_(Lifetime!vars)
  <1>1. capi' = capi
    BY DEF OfMachines
  <1>2. CASE capi[Cluster].phase = "gone"
    <2>1. \A m \in Machines : mapi[m].phase = "gone" /\ mapi'[m].phase = "gone"
      BY <1>1, <1>2 DEF InductiveInv, OrderInv
    <2>2. Nothing
      BY <2>1, NothingWhenGone
    <2>3. Nothing'
      <3>1. \A m \in Machines : ~mapi'[m].finalizer /\ ~jobs'[Name[m]].registered
                                /\ Name[m] \notin services'
        BY <2>1 DEF InductiveInv, M!InductiveInv, M!CacheInv, M!ResourceInv
      <3>2. \A n \in Names : ~jobs'[n].registered /\ n \notin services'
        BY <3>1, NameAssumption
      <3> QED
        BY <3>1, <3>2
           DEF Nothing, M!Guarded, M!RegisteredJobs, InductiveInv, M!TypeOK
    <2> QED
      BY <1>1, <2>2, <2>3 DEF Nothing, Lifetime!vars, Lifetime!Resources!vars
  <1>3. CASE capi[Cluster].phase # "gone"
    <2>1. [M!Resources!Next]_(M!Resources!vars)
      BY M!NextStep, Constants DEF InductiveInv, OfMachines
    <2>2. CASE UNCHANGED M!Resources!vars
      BY <1>1, <2>2 DEF M!Resources!vars, Lifetime!vars, Lifetime!Resources!vars
    <2>3. CASE M!Resources!Next
      BY <1>1, <1>3, <2>3
         DEF M!Resources!Next, M!Resources!Guard, M!Resources!Claim, M!Resources!Publish,
             M!Resources!Withdraw, M!Resources!Free, M!Resources!Unguard,
             Lifetime!Resources!Next, Lifetime!Resources!Guard, Lifetime!Resources!Claim,
             Lifetime!Resources!Publish, Lifetime!Resources!Withdraw,
             Lifetime!Resources!Free, Lifetime!Resources!Unguard,
             Lifetime!Next, Lifetime!Hold
    <2> QED
      BY <2>1, <2>2, <2>3
  <1> QED
    BY <1>2, <1>3

LEMMA ClusterStep ==
    ASSUME InductiveInv, OfCluster PROVE [Lifetime!Next]_(Lifetime!vars)
  <1>1. UNCHANGED Lifetime!Resources!vars
    BY DEF OfCluster, Lifetime!Resources!vars, M!Guarded, M!RegisteredJobs
  <1>2. CASE (capi'[Cluster].phase = "gone") = (capi[Cluster].phase = "gone")
    BY <1>1, <1>2 DEF Lifetime!vars
  <1>3. CASE capi[Cluster].phase # "gone" /\ capi'[Cluster].phase = "gone"
    <2>1. \A m \in Machines : mapi[m].phase = "gone"
      BY <1>3 DEF OfCluster, InductiveInv, OrderInv
    <2>2. M!Guarded = {}
      BY <2>1, NothingWhenGone DEF Nothing
    <2> QED
      BY <1>1, <1>3, <2>2 DEF Lifetime!Next, Lifetime!End
  <1> QED
    BY <1>2, <1>3 DEF OfCluster

LEMMA BothStep == ASSUME InductiveInv, OfBoth PROVE UNCHANGED Lifetime!vars
  BY BothSteps DEF OfBoth, Restart, M!Relist, M!backends, Lifetime!vars,
                   Lifetime!Resources!vars, M!Guarded, M!RegisteredJobs

\* Two controllers that know nothing of each other's passes, and the order in which
\* Cluster API deletes their objects, make one lifetime of all that a cluster holds.
THEOREM Refinement == ASSUME M!UniqueNames PROVE Spec => RefinesClusterLifetime
  <1>1. Init => Lifetime!Init
    BY InitStep
  <1>2. InductiveInv /\ InductiveInv' /\ [Next]_vars => [Lifetime!Next]_(Lifetime!vars)
    BY Kinds, MachinesStep, ClusterStep, BothStep
  <1> QED
    BY <1>1, <1>2, Inductive, PTL DEF Spec, RefinesClusterLifetime, Lifetime!Spec

-----------------------------------------------------------------------------
(* What ClusterLifetime is worth. *)

\* Guards are the last to go, and the NomadCluster goes after them.
GuardedLast == Lifetime!Resources!Nested /\ (capi[Cluster].phase = "gone" => M!Guarded = {})

LEMMA GuardedLastStep ==
    ASSUME GuardedLast, [Lifetime!Next]_(Lifetime!vars) PROVE GuardedLast'
  <1>1. CASE Lifetime!Hold
    BY <1>1 DEF GuardedLast, Lifetime!Hold, Lifetime!Resources!Nested,
                Lifetime!Resources!Next, Lifetime!Resources!Guard,
                Lifetime!Resources!Claim, Lifetime!Resources!Publish,
                Lifetime!Resources!Withdraw, Lifetime!Resources!Free,
                Lifetime!Resources!Unguard
  <1>2. CASE Lifetime!End
    BY <1>2 DEF GuardedLast, Lifetime!End, Lifetime!Resources!vars,
                Lifetime!Resources!Nested
  <1>3. CASE UNCHANGED Lifetime!vars
    BY <1>3 DEF GuardedLast, Lifetime!vars, Lifetime!Resources!vars,
                Lifetime!Resources!Nested
  <1> QED
    BY <1>1, <1>2, <1>3 DEF Lifetime!Next

\* Controllers that implement ClusterLifetime leave nothing behind, however many
\* machines there are and whether or not they share names.
THEOREM LifetimeSuffices == RefinesClusterLifetime => []NothingLeftBehind
  <1>1. Lifetime!Init => GuardedLast
    BY DEF Lifetime!Init, GuardedLast
  <1>2. GuardedLast /\ [Lifetime!Next]_(Lifetime!vars) => GuardedLast'
    BY GuardedLastStep
  <1>3. GuardedLast => NothingLeftBehind
    BY DEF GuardedLast, Lifetime!Resources!Nested, M!RegisteredJobs, NothingLeftBehind
  <1> QED
    BY <1>1, <1>2, <1>3, PTL DEF RefinesClusterLifetime, Lifetime!Spec
=============================================================================
