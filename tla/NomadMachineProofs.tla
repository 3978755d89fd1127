------------------------- MODULE NomadMachineProofs -------------------------
(***************************************************************************)
(* Proofs about NomadMachine: it is well typed, it never orphans what it    *)
(* holds outside of Kubernetes, and it implements ExternalResources.        *)
(***************************************************************************)
EXTENDS NomadMachine, TLAPS

-----------------------------------------------------------------------------
(* Well-typedness *)

LEMMA BlankType == \A p \in Phases : Blank(p) \in Object
  BY DEF Blank, Object, Deployments, DeployedConditions, DNSConditions

LEMMA StoredType == \A o \in Object : Stored(o) \in Object
  BY BlankType DEF Stored, Phases

LEMMA InitType == Init => TypeOK
  <1> SUFFICES ASSUME Init PROVE TypeOK
    OBVIOUS
  <1>1. Blank("none") \in Object
    BY BlankType DEF Phases
  <1>2. NoJob \in Job
    BY BoundsAssumption DEF NoJob, Job, Deployments
  <1> QED
    BY <1>1, <1>2 DEF Init, TypeOK, PCs, NoJob

LEMMA RestartType == TypeOK /\ Restart => TypeOK'
  <1> SUFFICES ASSUME TypeOK, Restart PROVE TypeOK'
    OBVIOUS
  <1>1. Blank("none") \in Object
    BY BlankType DEF Phases
  <1> QED
    BY <1>1 DEF TypeOK, Restart, Relist, Existing, PCs, world, backends

LEMMA CachedType == ASSUME NEW m \in Machines, TypeOK PROVE cache[m] \in Object
  BY DEF TypeOK

LEMMA AfterType == ASSUME NEW m \in Machines, TypeOK PROVE after[m] \in Object
  BY DEF TypeOK

\* What a step that leaves Nomad, Consul and the Nodes alone keeps.
LEMMA BackendsType ==
    ASSUME TypeOK, UNCHANGED backends
    PROVE  /\ jobs' \in [Names -> Job]
           /\ \A n \in Names : jobs'[n].registered => jobs'[n].deployment > 0
           /\ services' \subseteq Names
           /\ nodes' \in [Names -> ProviderIDs \cup {NoID, Absent}]
  BY DEF TypeOK, backends

LEMMA BeginType == ASSUME NEW m \in Machines, TypeOK, Begin(m) PROVE TypeOK'
  <1> USE DEF Dequeue, objects, world, backends, passes
  <1>1. CASE Ignore(m)
    BY <1>1 DEF Ignore, TypeOK
  <1>2. CASE BeginDelete(m)
    BY <1>2 DEF BeginDelete, Open, TypeOK, PCs
  <1>3. CASE AddFinalizer(m)
    <2>1. [cache[m] EXCEPT !.finalizer = TRUE] \in Object
      BY CachedType DEF Object
    <2> QED
      BY <1>3, <2>1 DEF AddFinalizer, Open, TypeOK, PCs
  <1>4. CASE Wait(m)
    <2>1. [cache[m] EXCEPT !.deployedCond = "waiting"] \in Object
      BY CachedType DEF Object, DeployedConditions
    <2> QED
      BY <1>4, <2>1 DEF Wait, Open, TypeOK, PCs
  <1>5. CASE BeginDeploy(m)
    BY <1>5 DEF BeginDeploy, Open, TypeOK, PCs
  <1> QED
    BY <1>1, <1>2, <1>3, <1>4, <1>5 DEF Begin

LEMMA ReturnType ==
    ASSUME NEW m \in Machines, NEW obj \in Object, NEW again \in BOOLEAN,
           TypeOK, Return(m, obj, again), UNCHANGED <<objects, world>>,
           jobs' \in [Names -> Job],
           \A n \in Names : jobs'[n].registered => jobs'[n].deployment > 0,
           services' \subseteq Names,
           nodes' \in [Names -> ProviderIDs \cup {NoID, Absent}]
    PROVE  TypeOK'
  BY DEF TypeOK, Return, PCs, objects, world

LEMMA ProceedType ==
    ASSUME NEW m \in Machines, NEW to \in PCs, NEW obj \in Object,
           TypeOK, Proceed(m, to, obj), UNCHANGED <<objects, world>>,
           jobs' \in [Names -> Job],
           \A n \in Names : jobs'[n].registered => jobs'[n].deployment > 0,
           services' \subseteq Names,
           nodes' \in [Names -> ProviderIDs \cup {NoID, Absent}]
    PROVE  TypeOK'
  BY DEF TypeOK, Proceed, objects, world

LEMMA RegisterType ==
    ASSUME NEW m \in Machines, NEW r, TypeOK, Register(m, r) PROVE TypeOK'
  <1>1. /\ jobs' \in [Names -> Job]
        /\ \A n \in Names : jobs'[n].registered => jobs'[n].deployment > 0
    <2>1. CASE UNCHANGED jobs
      BY <2>1 DEF TypeOK
    <2>2. CASE \E j \in Registered(Name[m]) : jobs' = [jobs EXCEPT ![Name[m]] = j]
      <3>1. PICK j \in Registered(Name[m]) : jobs' = [jobs EXCEPT ![Name[m]] = j]
        BY <2>2
      <3>2. Name[m] \in Names /\ jobs[Name[m]] \in Job
        BY NameAssumption DEF TypeOK
      <3>3. CASE j = jobs[Name[m]]
        BY <3>1, <3>2, <3>3 DEF TypeOK
      <3>4. CASE \E k \in 1..MaxDeployments :
                   j = [registered |-> TRUE, deployment |-> k, status |-> "running"]
        <4>1. j \in Job /\ j.deployment > 0
          BY <3>4, BoundsAssumption DEF Job, Deployments
        <4> QED
          BY <3>1, <3>2, <4>1 DEF TypeOK
      <3> QED
        BY <3>1, <3>3, <3>4 DEF Registered
    <2> QED
      BY <2>1, <2>2 DEF Register
  <1>2. [after[m] EXCEPT !.deployedCond = "deployFailed"] \in Object
    BY AfterType DEF Object, DeployedConditions
  <1>3. UNCHANGED <<services, nodes, objects, world>>
    BY DEF Register
  <1>4. after[m] \in Object /\ services \subseteq Names
        /\ nodes \in [Names -> ProviderIDs \cup {NoID, Absent}]
    BY DEF TypeOK
  <1>5. CASE Proceed(m, "evaluate", after[m])
    BY <1>1, <1>3, <1>4, <1>5, ProceedType DEF PCs
  <1>6. CASE DeployFailed(m)
    BY <1>1, <1>2, <1>3, <1>4, <1>6, ReturnType DEF DeployFailed
  <1> QED
    BY <1>5, <1>6 DEF Register

LEMMA EvaluateType ==
    ASSUME NEW m \in Machines, TypeOK,
           Evaluate(m) \/ EvaluationFails(m) \/ SecretFails(m)
    PROVE  TypeOK'
  <1>1. CASE Evaluate(m)
    <2> DEFINE job == jobs[Name[m]]
               obj == Observed(after[m], <<Name[m], job.deployment>>, job.status)
               to == IF job.status \in KnownStates THEN "dns" ELSE "node"
    <2>1. UNCHANGED <<objects, world, backends>> /\ Proceed(m, to, obj) /\ job.registered
      BY <1>1 DEF Evaluate
    <2>2. Name[m] \in Names /\ job \in Job /\ job.deployment > 0
      BY <2>1, NameAssumption DEF TypeOK
    <2>3. <<Name[m], job.deployment>> \in ProviderIDs /\ job.status \in Deployments
      BY <2>2, BoundsAssumption DEF Job, ProviderIDs
    <2>4. obj \in Object
      BY <2>3, AfterType DEF Observed, Object, Deployments, DeployedConditions
    <2>5. to \in PCs
      BY DEF PCs
    <2> QED
      <3> HIDE DEF job, obj, to
      <3> QED BY <2>1, <2>4, <2>5, BackendsType, ProceedType
  <1>2. CASE EvaluationFails(m) \/ SecretFails(m)
    <2>1. [after[m] EXCEPT !.deployedCond = "deployFailed"] \in Object
      BY AfterType DEF Object, DeployedConditions
    <2> QED
      BY <1>2, <2>1, BackendsType, ReturnType
         DEF EvaluationFails, SecretFails, DeployFailed
  <1> QED
    BY <1>1, <1>2

LEMMA DNSType ==
    ASSUME NEW m \in Machines, NEW r, TypeOK, DNS(m, r) \/ SkipDNS(m) PROVE TypeOK'
  <1>1. AfterDNS(after[m]) \in PCs
    BY DEF AfterDNS, PCs
  <1>2. CASE DNS(m, r)
    <2>1. Attachment(after[m]) \in Object
      BY AfterType DEF Attachment, Object, DNSConditions
    <2>2. services' \subseteq Names
      BY <1>2, NameAssumption DEF DNS, Catalogue, TypeOK
    <2>3. UNCHANGED <<objects, world, jobs, nodes>>
      BY <1>2 DEF DNS
    <2>4. /\ jobs' \in [Names -> Job]
          /\ \A n \in Names : jobs'[n].registered => jobs'[n].deployment > 0
          /\ nodes' \in [Names -> ProviderIDs \cup {NoID, Absent}]
      BY <2>3 DEF TypeOK
    <2>5. \/ Proceed(m, AfterDNS(after[m]), Attachment(after[m]))
          \/ Return(m, after[m], TRUE)
      BY <1>2 DEF DNS
    <2> QED
      BY <1>1, <2>1, <2>2, <2>3, <2>4, <2>5, AfterType, ProceedType, ReturnType
  <1>3. CASE SkipDNS(m)
    BY <1>1, <1>3, AfterType, BackendsType, ProceedType DEF SkipDNS
  <1> QED
    BY <1>2, <1>3

LEMMA ReleaseType ==
    ASSUME NEW m \in Machines, NEW r, TypeOK, ReleaseMachine(m, r) PROVE TypeOK'
  <1>1. /\ jobs' \in [Names -> Job]
        /\ \A n \in Names : jobs'[n].registered => jobs'[n].deployment > 0
    <2>1. Name[m] \in Names /\ jobs \in [Names -> Job]
      BY NameAssumption DEF TypeOK
    <2>2. CASE UNCHANGED jobs
      BY <2>2 DEF TypeOK
    <2>3. CASE jobs' = [jobs EXCEPT ![Name[m]] = Purged(@)]
      <3>1. Purged(jobs[Name[m]]) \in Job /\ ~Purged(jobs[Name[m]]).registered
        BY <2>1 DEF Purged, Job, Deployments
      <3> QED
        BY <2>1, <2>3, <3>1 DEF TypeOK
    <2> QED
      BY <2>2, <2>3 DEF ReleaseMachine
  <1>2. Released(after[m]) \in Object
    BY AfterType DEF Released, Object, DeployedConditions
  <1>3. UNCHANGED <<objects, world, services, nodes>>
    BY DEF ReleaseMachine
  <1>4. services' \subseteq Names /\ nodes' \in [Names -> ProviderIDs \cup {NoID, Absent}]
    BY <1>3 DEF TypeOK
  <1>5. Return(m, Released(after[m]), FALSE) \/ Return(m, after[m], TRUE)
    BY DEF ReleaseMachine
  <1> QED
    BY <1>1, <1>2, <1>3, <1>4, <1>5, AfterType, ReturnType

LEMMA NodeType ==
    ASSUME NEW m \in Machines, NEW r, TypeOK,
           SetNodeProviderID(m, r) \/ NotOperational(m)
    PROVE  TypeOK'
  <1>1. CASE SetNodeProviderID(m, r)
    <2>1. after[m].providerID \in ProviderIDs \cup {NoID}
      BY AfterType DEF Object
    <2>2. nodes' \in [Names -> ProviderIDs \cup {NoID, Absent}]
      BY <1>1, <2>1, NameAssumption DEF SetNodeProviderID, TypeOK
    <2>3. UNCHANGED <<objects, world, jobs, services>>
      BY <1>1 DEF SetNodeProviderID
    <2>4. /\ jobs' \in [Names -> Job]
          /\ \A n \in Names : jobs'[n].registered => jobs'[n].deployment > 0
          /\ services' \subseteq Names
      BY <2>3 DEF TypeOK
    <2>5. Return(m, after[m], ~Settable(m) \/ r # "ok")
      BY <1>1 DEF SetNodeProviderID
    <2>6. (~Settable(m) \/ r # "ok") \in BOOLEAN
      OBVIOUS
    <2> QED
      BY <2>2, <2>3, <2>4, <2>5, <2>6, AfterType, ReturnType
  <1>2. CASE NotOperational(m)
    BY <1>2, AfterType, BackendsType, ReturnType DEF NotOperational
  <1> QED
    BY <1>1, <1>2

\* A patch stores a well-typed object or nothing.
LEMMA CallType ==
    ASSUME NEW m \in Machines, NEW r, NEW changes, NEW refused, NEW obj \in Object,
           TypeOK, Call(m, r, changes, refused, obj)
    PROVE  api' \in [Machines -> Object] /\ UNCHANGED <<cache, world, backends>>
  <1>1. Stored(obj) \in Object
    BY StoredType
  <1> QED
    BY <1>1 DEF Call, TypeOK

LEMMA PatchedTypes ==
    ASSUME NEW m \in Machines, TypeOK
    PROVE  PatchCondsOf(m) \in Object /\ PatchSpecOf(m) \in Object /\ PatchStatusOf(m) \in Object
  <1>1. api[m] \in Object /\ before[m] \in Object /\ after[m] \in Object
    BY DEF TypeOK
  <1>2. PatchCondsOf(m) \in Object
    BY <1>1 DEF PatchCondsOf, Patched, Object
  <1>3. PatchSpecOf(m) \in Object
    BY <1>1 DEF PatchSpecOf, Patched, Object
  <1>4. PatchStatusOf(m) \in Object
    BY <1>1 DEF PatchStatusOf, Patched, Object
  <1> QED
    BY <1>2, <1>3, <1>4

LEMMA PatchType ==
    ASSUME NEW m \in Machines, NEW r, TypeOK,
           PatchConds(m, r) \/ PatchSpec(m, r) \/ PatchStatus(m, r)
    PROVE  TypeOK'
  <1>1. CASE PatchConds(m, r)
    <2>1. api' \in [Machines -> Object] /\ UNCHANGED <<cache, world, backends>>
      BY <1>1, CallType, PatchedTypes DEF PatchConds
    <2> QED
      BY <1>1, <2>1 DEF PatchConds, Errs, TypeOK, PCs, world, backends
  <1>2. CASE PatchSpec(m, r)
    <2>1. api' \in [Machines -> Object] /\ UNCHANGED <<cache, world, backends>>
      BY <1>2, CallType, PatchedTypes DEF PatchSpec
    <2> QED
      BY <1>2, <2>1 DEF PatchSpec, Errs, TypeOK, PCs, world, backends
  <1>3. CASE PatchStatus(m, r)
    <2>1. api' \in [Machines -> Object] /\ UNCHANGED <<cache, world, backends>>
      BY <1>3, CallType, PatchedTypes DEF PatchStatus
    <2>2. Blank("none") \in Object
      BY BlankType DEF Phases
    <2> QED
      BY <1>3, <2>1, <2>2 DEF PatchStatus, TypeOK, PCs, world, backends
  <1> QED
    BY <1>1, <1>2, <1>3

LEMMA WriteType ==
    ASSUME NEW m \in Machines, NEW obj \in Object, TypeOK, Write(m, obj)
    PROVE  TypeOK'
  <1>1. Stored(obj) \in Object
    BY StoredType
  <1> QED
    BY <1>1 DEF Write, TypeOK, world, backends, passes

LEMMA EnvironmentType ==
    ASSUME NEW m \in Machines, TypeOK, Environment(m) PROVE TypeOK'
  <1>1. CASE Create(m)
    BY <1>1, WriteType, BlankType DEF Create, Phases
  <1>2. api[m] \in Object
    BY DEF TypeOK
  <1>3. CASE SetOwner(m)
    <2>1. [api[m] EXCEPT !.phase = "live"] \in Object
      BY <1>2 DEF Object, Phases
    <2> QED
      BY <1>3, <2>1, WriteType DEF SetOwner
  <1>4. CASE Delete(m)
    <2>1. [api[m] EXCEPT !.phase = "deleting"] \in Object
      BY <1>2 DEF Object, Phases
    <2> QED
      BY <1>4, <2>1, WriteType DEF Delete
  <1>5. CASE CacheSync(m)
    BY <1>5 DEF CacheSync, TypeOK, world, backends, passes
  <1>6. CASE BootstrapReady(m)
    BY <1>6 DEF BootstrapReady, TypeOK, objects, backends, passes
  <1>7. CASE SetFailureDomain(m)
    BY <1>7 DEF SetFailureDomain, TypeOK, objects, backends, passes
  <1> QED
    BY <1>1, <1>3, <1>4, <1>5, <1>6, <1>7 DEF Environment

LEMMA WorldType ==
    ASSUME TypeOK, Resync \/ ClusterStep \/ Removal \/ Pause \/ Unpause
                   \/ ApiServerUp \/ ApiServerDown
    PROVE  TypeOK'
  BY DEF Resync, ClusterStep, Removal, Pause, Unpause, ApiServerUp, ApiServerDown,
         TypeOK, objects, world, backends, passes

LEMMA NomadType ==
    ASSUME NEW n \in Names, TypeOK,
           DeploymentStep(n) \/ DeploymentStalls(n) \/ NodeJoins(n)
    PROVE  TypeOK'
  <1>1. CASE NodeJoins(n)
    BY <1>1 DEF NodeJoins, TypeOK, objects, world, passes
  <1>2. CASE DeploymentStep(n) \/ DeploymentStalls(n)
    <2>1. PICK s \in Deployments : jobs' = [jobs EXCEPT ![n].status = s]
      BY <1>2 DEF DeploymentStep, DeploymentStalls, Deployments
    <2>2. [jobs[n] EXCEPT !.status = s] \in Job
      BY DEF TypeOK, Job
    <2>3. /\ jobs' \in [Names -> Job]
          /\ \A k \in Names : jobs'[k].registered => jobs'[k].deployment > 0
      BY <2>1, <2>2 DEF TypeOK, Job
    <2> QED
      BY <1>2, <2>3 DEF DeploymentStep, DeploymentStalls, TypeOK, objects, world, passes
  <1> QED
    BY <1>1, <1>2

LEMMA NextType == TypeOK /\ [Next]_vars => TypeOK'
  <1> SUFFICES ASSUME TypeOK, [Next]_vars PROVE TypeOK'
    OBVIOUS
  <1>1. CASE UNCHANGED vars
    BY <1>1 DEF vars, objects, world, backends, passes, TypeOK
  <1>2. ASSUME NEW m \in Machines, Controller(m) PROVE TypeOK'
    BY <1>2, BeginType, RegisterType, EvaluateType, DNSType, ReleaseType, NodeType,
       PatchType, RestartType DEF Controller, RemoteCall, PanicBeforeRegister, PanicAtLookup
  <1>3. CASE Normal
    BY <1>2, <1>3, EnvironmentType, NomadType, WorldType DEF Normal
  <1>4. ASSUME NEW m \in Machines, LookupFails(m) PROVE TypeOK'
    BY <1>1, <1>4 DEF LookupFails
  <1>5. CASE Disturbance
    BY <1>4, <1>5, RegisterType, EvaluateType, DNSType, ReleaseType, NodeType, PatchType,
       RestartType, NomadType, WorldType
       DEF Disturbance, RemoteCall, PanicAfterRegister, Crash
  <1> QED
    BY <1>1, <1>3, <1>5 DEF Next

\* Every reachable state is well typed: statuses, conditions and identifiers come
\* from the declared sets, and a registered job has a deployment.
THEOREM TypeCorrect == Spec => []TypeOK
  BY InitType, NextType, PTL DEF Spec

=============================================================================
