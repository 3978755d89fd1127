-------------------- MODULE NomadMachineRefinementProofs --------------------
(***************************************************************************)
(* NomadMachine implements ExternalResources: every step of it is a step of *)
(* the abstract specification about one name, or leaves guards, jobs and    *)
(* services as they are.                                                    *)
(***************************************************************************)
EXTENDS NomadMachineResourceProofs

\* The abstract state is a function of the finalizers, the registrations and the
\* catalogue.
LEMMA StutterStep ==
    ASSUME \A m \in Machines : api'[m].finalizer = api[m].finalizer,
           \A n \in Names : jobs'[n].registered = jobs[n].registered,
           services' = services
    PROVE  UNCHANGED Resources!vars
  <1>1. Guarded' = Guarded
    BY DEF Guarded
  <1>2. RegisteredJobs' = RegisteredJobs
    BY DEF RegisteredJobs
  <1> QED
    BY <1>1, <1>2 DEF Resources!vars

LEMMA RegisterStep ==
    ASSUME NEW m \in Machines, NEW r, TypeOK, InductiveInv, Register(m, r)
    PROVE  [Resources!Next]_(Resources!vars)
  <1>1. Name[m] \in Names /\ jobs \in [Names -> Job]
    BY NameAssumption DEF TypeOK
  <1>2. Name[m] \in Guarded
    BY DEF InductiveInv, PassInv, DeployInv, Register, Guarded
  <1>3. UNCHANGED <<Guarded, services>>
    BY DEF Register, objects, Guarded
  <1>4. RegisteredJobs' = RegisteredJobs \/ RegisteredJobs' = RegisteredJobs \cup {Name[m]}
    BY <1>1 DEF Register, Registered, RegisteredJobs
  <1> QED
    BY <1>1, <1>2, <1>3, <1>4 DEF Resources!Next, Resources!Claim, Resources!vars

LEMMA DNSStep ==
    ASSUME NEW m \in Machines, NEW r, TypeOK, InductiveInv, DNS(m, r)
    PROVE  [Resources!Next]_(Resources!vars)
  <1>1. Name[m] \in Names /\ after[m].phase = before[m].phase
        /\ before[m].phase \in {"live", "deleting"}
    BY NameAssumption DEF InductiveInv, PassInv, DNS
  <1>2. UNCHANGED <<Guarded, RegisteredJobs>>
    BY DEF DNS, objects, Guarded, RegisteredJobs
  <1>3. CASE services' = services
    BY <1>2, <1>3 DEF Resources!vars
  <1>4. CASE services' = services \ {Name[m]}
    BY <1>1, <1>2, <1>4 DEF Resources!Next, Resources!Withdraw
  <1>5. CASE services' = services \cup {Name[m]} /\ ~Detaches(after[m])
    <2>1. Name[m] \in RegisteredJobs
      BY <1>1, <1>5 DEF InductiveInv, DeployInv, DNS, Detaches, Deleting, RegisteredJobs
    <2> QED
      BY <1>1, <1>2, <1>5, <2>1 DEF Resources!Next, Resources!Publish
  <1> QED
    BY <1>3, <1>4, <1>5 DEF DNS, Catalogue

LEMMA ReleaseStep ==
    ASSUME NEW m \in Machines, NEW r, TypeOK, InductiveInv, ReleaseMachine(m, r)
    PROVE  [Resources!Next]_(Resources!vars)
  <1>1. Name[m] \in Names /\ Name[m] \notin services /\ jobs \in [Names -> Job]
    BY NameAssumption DEF InductiveInv, ReleaseInv, ReleaseMachine, TypeOK
  <1>2. UNCHANGED <<Guarded, services>>
    BY DEF ReleaseMachine, objects, Guarded
  <1>3. ~Purged(jobs[Name[m]]).registered
    BY <1>1 DEF Purged, Job
  <1>4. RegisteredJobs' = RegisteredJobs \/ RegisteredJobs' = RegisteredJobs \ {Name[m]}
    BY <1>1, <1>3 DEF ReleaseMachine, RegisteredJobs
  <1> QED
    BY <1>1, <1>2, <1>4 DEF Resources!Next, Resources!Free, Resources!vars

\* A step that changes m's finalizer alone.
LEMMA FinalizerStep ==
    ASSUME UniqueNames, NEW m \in Machines, InductiveInv, InductiveInv',
           UNCHANGED backends, api[m].finalizer \in BOOLEAN, api'[m].finalizer \in BOOLEAN,
           \A k \in Machines \ {m} : api'[k] = api[k]
    PROVE  [Resources!Next]_(Resources!vars)
  <1>1. Name[m] \in Names /\ UNCHANGED <<RegisteredJobs, services>>
    BY NameAssumption DEF backends, RegisteredJobs
  <1>2. CASE api'[m].finalizer = api[m].finalizer
    BY <1>2, StutterStep DEF backends
  <1>3. CASE api'[m].finalizer /\ ~api[m].finalizer
    <2>1. Guarded' = Guarded \cup {Name[m]}
      BY <1>3 DEF Guarded
    <2> QED
      BY <1>1, <2>1 DEF Resources!Next, Resources!Guard
  <1>4. CASE ~api'[m].finalizer /\ api[m].finalizer
    <2>1. Guarded' = Guarded \ {Name[m]}
      BY <1>4 DEF Guarded, UniqueNames
    <2>2. ~jobs[Name[m]].registered /\ Name[m] \notin services
      BY <1>4 DEF InductiveInv, ResourceInv, backends
    <2> QED
      BY <1>1, <2>1, <2>2 DEF Resources!Next, Resources!Unguard, RegisteredJobs
  <1> QED
    BY <1>2, <1>3, <1>4

LEMMA PatchStep ==
    ASSUME UniqueNames, NEW m \in Machines, NEW r, TypeOK, TypeOK', InductiveInv, InductiveInv',
           PatchConds(m, r) \/ PatchSpec(m, r) \/ PatchStatus(m, r)
    PROVE  [Resources!Next]_(Resources!vars)
  <1>1. PICK obj, changes, refused : Call(m, r, changes, refused, obj)
    BY DEF PatchConds, PatchSpec, PatchStatus
  <1>2. UNCHANGED backends /\ \A k \in Machines \ {m} : api'[k] = api[k]
    BY <1>1 DEF Call, TypeOK
  <1>3. api[m].finalizer \in BOOLEAN /\ api'[m].finalizer \in BOOLEAN
    BY DEF TypeOK, Object
  <1> QED
    BY <1>2, <1>3, FinalizerStep

LEMMA EnvironmentStep ==
    ASSUME UniqueNames, NEW m \in Machines, TypeOK, TypeOK', InductiveInv, InductiveInv',
           Environment(m)
    PROVE  [Resources!Next]_(Resources!vars)
  <1>1. UNCHANGED backends /\ \A k \in Machines \ {m} : api'[k] = api[k]
    BY DEF Environment, Create, SetOwner, Delete, Write, CacheSync, BootstrapReady,
           SetFailureDomain, TypeOK, objects
  <1>2. api[m].finalizer \in BOOLEAN /\ api'[m].finalizer \in BOOLEAN
    BY DEF TypeOK, Object
  <1> QED
    BY <1>1, <1>2, FinalizerStep

\* The other steps.
LEMMA OtherStep ==
    ASSUME NEW r, TypeOK,
           \/ UNCHANGED vars \/ Restart
           \/ \E m \in Machines :
                \/ Begin(m) \/ Evaluate(m) \/ EvaluationFails(m)
                \/ SecretFails(m) \/ SkipDNS(m) \/ SetNodeProviderID(m, r) \/ NotOperational(m)
           \/ Resync \/ ClusterStep \/ Removal \/ Pause \/ Unpause
           \/ ApiServerUp \/ ApiServerDown
           \/ \E n \in Names : DeploymentStep(n) \/ DeploymentStalls(n) \/ NodeJoins(n)
    PROVE  UNCHANGED Resources!vars
  <1>1. UNCHANGED <<api, services>>
    BY DEF vars, Restart, Relist, Begin, Ignore, BeginDelete, AddFinalizer, Wait, BeginDeploy,
           Open, Dequeue, Evaluate, EvaluationFails, SecretFails, SkipDNS, SetNodeProviderID,
           NotOperational, Resync, ClusterStep, Removal, Pause, Unpause, ApiServerUp,
           ApiServerDown, DeploymentStep, DeploymentStalls, NodeJoins, objects, backends
  <1>2. CASE \E n \in Names : DeploymentStep(n) \/ DeploymentStalls(n)
    <2>1. PICK n \in Names, s \in Deployments : jobs' = [jobs EXCEPT ![n].status = s]
      BY <1>2 DEF DeploymentStep, DeploymentStalls, Deployments
    <2>2. \A k \in Names : jobs'[k].registered = jobs[k].registered
      BY <2>1 DEF TypeOK, Job
    <2> QED
      BY <1>1, <2>2, StutterStep
  <1>3. CASE ~(\E n \in Names : DeploymentStep(n) \/ DeploymentStalls(n))
    <2>1. UNCHANGED jobs
      BY <1>3 DEF vars, Restart, Relist, Begin, Ignore, BeginDelete, AddFinalizer, Wait,
           BeginDeploy, Open, Dequeue, Evaluate, EvaluationFails, SecretFails, SkipDNS,
           SetNodeProviderID, NotOperational, Resync, ClusterStep, Removal, Pause,
           Unpause, ApiServerUp, ApiServerDown, NodeJoins, backends
    <2> QED
      BY <1>1, <2>1, StutterStep
  <1> QED
    BY <1>2, <1>3

LEMMA NextStep ==
    ASSUME UniqueNames, TypeOK, TypeOK', InductiveInv, InductiveInv', [Next]_vars
    PROVE  [Resources!Next]_(Resources!vars)
  <1>1. ASSUME NEW m \in Machines, NEW r, RemoteCall(m, r)
        PROVE  [Resources!Next]_(Resources!vars)
    BY <1>1, RegisterStep, DNSStep, ReleaseStep, PatchStep, OtherStep DEF RemoteCall
  <1>2. ASSUME NEW m \in Machines, Controller(m) PROVE [Resources!Next]_(Resources!vars)
    BY <1>1, <1>2, OtherStep DEF Controller, PanicAtLookup, PanicBeforeRegister
  <1>3. CASE Normal
    BY <1>2, <1>3, EnvironmentStep, OtherStep DEF Normal
  <1>4. CASE Disturbance
    BY <1>1, <1>4, OtherStep DEF Disturbance, LookupFails, PanicAfterRegister, Crash
  <1> QED
    BY <1>3, <1>4, OtherStep DEF Next

LEMMA InitStep == Init => Resources!Init
  BY NameAssumption DEF Init, Resources!Init, Guarded, RegisteredJobs, Blank, NoJob

\* The controller takes and gives up guard, job and service as the abstract
\* specification says.
THEOREM Refinement == ASSUME UniqueNames PROVE Spec => RefinesExternalResources
  <1>1. Init => Resources!Init
    BY InitStep
  <1>2. /\ TypeOK /\ TypeOK' /\ InductiveInv /\ InductiveInv' /\ [Next]_vars
        => [Resources!Next]_(Resources!vars)
    BY NextStep
  <1> QED
    BY <1>1, <1>2, TypeCorrect, Inductive, PTL DEF Spec, RefinesExternalResources, Resources!Spec

-----------------------------------------------------------------------------
(* What the abstract specification is worth. *)

LEMMA NestedStep ==
    ASSUME Resources!Nested, [Resources!Next]_(Resources!vars) PROVE Resources!Nested'
  BY DEF Resources!Nested, Resources!Next, Resources!vars, Resources!Guard, Resources!Claim,
         Resources!Publish, Resources!Withdraw, Resources!Free, Resources!Unguard

\* Whatever implements ExternalResources leaves nothing orphaned, and sends no
\* traffic to a machine without a job: the order of taking and giving up is all that
\* these two depend on.
THEOREM OrderSuffices ==
    ASSUME UniqueNames
    PROVE  RefinesExternalResources => [](NoOrphanedResources /\ ServiceNeedsJob)
  <1>1. Resources!Init => Resources!Nested
    BY DEF Resources!Init, Resources!Nested
  <1>2. Resources!Nested /\ [Resources!Next]_(Resources!vars) => Resources!Nested'
    BY NestedStep
  <1>3. Resources!Nested => NoOrphanedResources /\ ServiceNeedsJob
    <2> SUFFICES ASSUME Resources!Nested PROVE NoOrphanedResources /\ ServiceNeedsJob
      OBVIOUS
    <2>1. ServiceNeedsJob
      BY DEF Resources!Nested, RegisteredJobs, ServiceNeedsJob
    <2>2. ASSUME NEW m \in Machines, Name[m] \in RegisteredJobs PROVE api[m].finalizer
      BY <2>2 DEF Resources!Nested, Guarded, UniqueNames
    <2> QED
      BY <2>1, <2>2, NameAssumption
         DEF Resources!Nested, RegisteredJobs, NoOrphanedResources
  <1> QED
    BY <1>1, <1>2, <1>3, PTL DEF RefinesExternalResources, Resources!Spec
=============================================================================
