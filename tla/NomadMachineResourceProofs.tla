--------------------- MODULE NomadMachineResourceProofs ---------------------
(***************************************************************************)
(* When no two Machines share a name, no job and no service is held without *)
(* a finalizer, and NomadMachine implements ExternalResources. Each lemma   *)
(* about an action looks at the machine the action is about; all others     *)
(* keep what their invariants are about (Same).                             *)
(***************************************************************************)
EXTENDS NomadMachineProofs

MachineInv(m) ==
    CacheInv(m) /\ PassInv(m) /\ DeployInv(m) /\ ReleaseInv(m) /\ ResourceInv(m)

ServicesOwned == \A n \in services : \E m \in ControlPlane : Name[m] = n

\* What the invariants of m look at outside of the API server and its cache.
SamePass(m) ==
    /\ pc'[m] = pc[m]
    /\ before'[m] = before[m]
    /\ after'[m] = after[m]

SameBackends(m) ==
    /\ jobs'[Name[m]].registered = jobs[Name[m]].registered
    /\ Name[m] \in services' <=> Name[m] \in services

Same(m) ==
    /\ api'[m] = api[m]
    /\ cache'[m] = cache[m]
    /\ SamePass(m)
    /\ SameBackends(m)

LEMMA InvParts == InductiveInv <=> (\A m \in Machines : MachineInv(m)) /\ ServicesOwned
  BY DEF InductiveInv, MachineInv, ServicesOwned

LEMMA SameInv == ASSUME NEW m \in Machines, MachineInv(m), Same(m) PROVE MachineInv(m)'
  BY DEF MachineInv, CacheInv, PassInv, DeployInv, ReleaseInv, ResourceInv,
         Same, SamePass, SameBackends

\* A step of m alone: its own invariant is what is left to show.
LEMMA StepOf ==
    ASSUME NEW m \in Machines, InductiveInv, MachineInv(m)',
           \A k \in Machines \ {m} : Same(k),
           \A n \in services' : n \in services \/ (n = Name[m] /\ m \in ControlPlane)
    PROVE  InductiveInv'
  <1>1. (\A k \in Machines : MachineInv(k)) /\ ServicesOwned
    BY InvParts
  <1>2. \A k \in Machines : MachineInv(k)'
    BY <1>1, SameInv
  <1>3. ServicesOwned'
    BY <1>1 DEF ServicesOwned
  <1> QED
    BY <1>2, <1>3 DEF InductiveInv, MachineInv, ServicesOwned

-----------------------------------------------------------------------------
LEMMA InitInv == Init => InductiveInv
  BY NameAssumption
     DEF Init, InductiveInv, CacheInv, PassInv, DeployInv, ReleaseInv, ResourceInv,
         Blank, NoJob

LEMMA RelistInv == ASSUME TypeOK, InductiveInv, Relist PROVE InductiveInv'
  <1>1. ASSUME NEW m \in Machines PROVE MachineInv(m)'
    <2>1. cache'[m] = api[m] /\ api'[m] = api[m] /\ pc'[m] = "idle"
          /\ jobs' = jobs /\ services' = services
      BY DEF Relist, backends
    <2>2. CacheInv(m) /\ ResourceInv(m)
      BY DEF InductiveInv
    <2> QED
      BY <2>1, <2>2
         DEF MachineInv, CacheInv, PassInv, DeployInv, ReleaseInv, ResourceInv
  <1>2. services' = services
    BY DEF Relist, backends
  <1> QED
    BY <1>1, <1>2 DEF InductiveInv, MachineInv

LEMMA BeginInv ==
    ASSUME NEW m \in Machines, TypeOK, InductiveInv, Begin(m) PROVE InductiveInv'
  <1>1. MachineInv(m)
    BY DEF InductiveInv, MachineInv
  <1>2. UNCHANGED <<objects, backends>> /\ pc[m] = "idle"
    BY DEF Begin, Ignore, BeginDelete, AddFinalizer, Wait, BeginDeploy, Open, Dequeue,
           Turn
  <1>3. ASSUME NEW to, NEW obj, Open(m, to, obj)
        PROVE  /\ pc'[m] = to /\ before'[m] = cache[m] /\ after'[m] = obj
               /\ \A k \in Machines \ {m} : SamePass(k)
    BY <1>3 DEF Open, SamePass, TypeOK
  <1>4. CASE Ignore(m)
    BY <1>1, <1>2, <1>4, SameInv, StepOf
       DEF Ignore, Same, SamePass, SameBackends, objects, backends, passes
  <1>5. CASE ~Ignore(m)
    <2>1. \A k \in Machines \ {m} : Same(k)
      BY <1>2, <1>3, <1>5 DEF Begin, BeginDelete, AddFinalizer, Wait, BeginDeploy,
                       Same, SameBackends, objects, backends
    <2>2. /\ before'[m] = cache[m]
          /\ \/ pc'[m] = "dns" /\ after'[m] = cache[m] /\ cache[m].phase = "deleting"
             \/ /\ pc'[m] = "conds" /\ cache[m].phase = "live"
                /\ after'[m].phase = "live"
                /\ cache[m].finalizer => after'[m].finalizer
             \/ /\ pc'[m] = "register" /\ after'[m] = cache[m]
                /\ cache[m].phase = "live" /\ cache[m].finalizer
      <3>1. cache[m] \in Object
        BY CachedType
      <3>2. CASE BeginDelete(m)
        BY <1>3, <3>2 DEF BeginDelete, Deleting
      <3>3. CASE AddFinalizer(m)
        BY <1>3, <3>1, <3>3 DEF AddFinalizer, Object
      <3>4. CASE Wait(m)
        BY <1>3, <3>1, <3>4 DEF Wait, Object
      <3>5. CASE BeginDeploy(m)
        BY <1>3, <3>5 DEF BeginDeploy
      <3> QED
        BY <1>5, <3>2, <3>3, <3>4, <3>5 DEF Begin
    <2>3. MachineInv(m)'
      BY <1>1, <1>2, <2>2
         DEF MachineInv, CacheInv, PassInv, DeployInv, ReleaseInv, ResourceInv,
             objects, backends
    <2> QED
      BY <1>2, <2>1, <2>3, StepOf DEF backends
  <1> QED
    BY <1>4, <1>5

-----------------------------------------------------------------------------
\* A step of the pass over m, to `to` and with `obj`.
Moved(m, to, obj) ==
    /\ pc'[m] = to /\ before'[m] = before[m] /\ after'[m] = obj
    /\ \A k \in Machines \ {m} : SamePass(k)

LEMMA ProceedMoves ==
    ASSUME NEW m \in Machines, NEW to, NEW obj, TypeOK, Proceed(m, to, obj)
    PROVE  Moved(m, to, obj)
  BY DEF Moved, Proceed, SamePass, TypeOK

LEMMA ReturnMoves ==
    ASSUME NEW m \in Machines, NEW obj, NEW again, TypeOK, Return(m, obj, again)
    PROVE  Moved(m, "conds", obj)
  BY DEF Moved, Return, SamePass, TypeOK

\* With names of their own, a step about m's job or service is about no other's.
LEMMA OthersKeep ==
    ASSUME UniqueNames, NEW m \in Machines, NEW to, NEW obj, Moved(m, to, obj),
           UNCHANGED objects, TypeOK,
           \A n \in Names \ {Name[m]} :
              jobs'[n].registered = jobs[n].registered /\ (n \in services' <=> n \in services)
    PROVE  \A k \in Machines \ {m} : Same(k)
  BY NameAssumption DEF UniqueNames, Moved, Same, SameBackends, objects

LEMMA RegisterInv ==
    ASSUME UniqueNames, NEW m \in Machines, NEW r, TypeOK, InductiveInv, Register(m, r)
    PROVE  InductiveInv'
  <1>1. MachineInv(m) /\ pc[m] = "register" /\ UNCHANGED <<objects, services>>
    BY DEF InductiveInv, MachineInv, Register
  <1>2. Name[m] \in Names /\ after[m] \in Object /\ jobs \in [Names -> Job]
    BY NameAssumption, AfterType DEF TypeOK
  <1>3. PICK to \in {"evaluate", "conds"}, obj \in Object :
           /\ Moved(m, to, obj)
           /\ obj.phase = after[m].phase /\ obj.finalizer = after[m].finalizer
           /\ to = "evaluate" => r = "ok"
    <2>1. CASE r = "ok"
      BY <1>2, <2>1, ProceedMoves DEF Register
    <2>2. CASE r # "ok"
      <3>1. Return(m, [after[m] EXCEPT !.deployedCond = "deployFailed"], TRUE)
        BY <2>2 DEF Register, DeployFailed
      <3>2. [after[m] EXCEPT !.deployedCond = "deployFailed"] \in Object
        BY <1>2 DEF Object, DeployedConditions
      <3> QED
        BY <1>2, <2>2, <3>1, <3>2, ReturnMoves DEF Object
    <2> QED
      BY <2>1, <2>2
  <1>4. /\ \A n \in Names \ {Name[m]} : jobs'[n].registered = jobs[n].registered
        /\ jobs'[Name[m]].registered \/ jobs'[Name[m]].registered = jobs[Name[m]].registered
        /\ r = "ok" => jobs'[Name[m]].registered
    BY <1>2 DEF Register, Registered, Happens
  <1>5. \A k \in Machines \ {m} : Same(k)
    BY <1>1, <1>3, <1>4, OthersKeep
  <1>6. MachineInv(m)'
    BY <1>1, <1>3, <1>4
       DEF MachineInv, CacheInv, PassInv, DeployInv, ReleaseInv, ResourceInv,
           Moved, objects
  <1> QED
    BY <1>1, <1>5, <1>6, StepOf

\* The steps that touch neither Nomad nor Consul.
LEMMA QuietInv ==
    ASSUME UniqueNames, NEW m \in Machines, NEW r, TypeOK, InductiveInv,
           \/ Evaluate(m) \/ EvaluationFails(m) \/ SecretFails(m) \/ SkipDNS(m)
           \/ SetNodeProviderID(m, r) \/ NotOperational(m)
    PROVE  InductiveInv'
  <1>1. MachineInv(m) /\ UNCHANGED <<objects, services, jobs>>
    BY DEF InductiveInv, MachineInv, Evaluate, EvaluationFails, SecretFails, SkipDNS,
           SetNodeProviderID, NotOperational, backends
  <1>2. after[m] \in Object
    BY AfterType
  <1>3. PICK to \in PCs, obj \in Object :
           /\ Moved(m, to, obj)
           /\ obj.phase = after[m].phase /\ obj.finalizer = after[m].finalizer
           /\ \/ pc[m] = "register" /\ to = "conds"
              \/ pc[m] = "evaluate" /\ to \in {"dns", "node", "conds"}
              \/ pc[m] = "dns" /\ m \notin ControlPlane
                   /\ to = IF after[m].phase = "deleting" THEN "release" ELSE "node"
              \/ pc[m] = "node" /\ to = "conds"
           /\ pc[m] = "evaluate" /\ to # "conds" => jobs[Name[m]].registered
    <2>1. CASE Evaluate(m)
      <3> DEFINE id == <<Name[m], jobs[Name[m]].deployment>>
                 status == jobs[Name[m]].status
                 obj == Observed(after[m], id, status)
                 to == IF status \in KnownStates THEN "dns" ELSE "node"
      <3>1. id \in ProviderIDs /\ status \in Deployments
        BY <2>1, NameAssumption, BoundsAssumption DEF Evaluate, TypeOK, Job, ProviderIDs
      <3>2. obj \in Object /\ obj.phase = after[m].phase /\ obj.finalizer = after[m].finalizer
        <4> HIDE DEF id, status
        <4> QED BY <1>2, <3>1 DEF Observed, Object, Deployments, DeployedConditions
      <3>3. Moved(m, to, obj)
        BY <2>1, ProceedMoves DEF Evaluate
      <3>4. pc[m] = "evaluate" /\ to \in {"dns", "node"} /\ jobs[Name[m]].registered
        BY <2>1 DEF Evaluate
      <3> HIDE DEF obj, to
      <3> QED
        BY <3>2, <3>3, <3>4 DEF PCs
    <2>2. CASE EvaluationFails(m) \/ SecretFails(m)
      <3>1. Return(m, [after[m] EXCEPT !.deployedCond = "deployFailed"], TRUE)
        BY <2>2 DEF EvaluationFails, SecretFails, DeployFailed
      <3>2. [after[m] EXCEPT !.deployedCond = "deployFailed"] \in Object
        BY <1>2 DEF Object, DeployedConditions
      <3> QED
        BY <1>2, <2>2, <3>1, <3>2, ReturnMoves
           DEF EvaluationFails, SecretFails, Object, PCs
    <2>3. CASE SkipDNS(m)
      BY <1>2, <2>3, ProceedMoves DEF SkipDNS, AfterDNS, Deleting, PCs
    <2>4. CASE SetNodeProviderID(m, r)
      BY <1>2, <2>4, ReturnMoves DEF SetNodeProviderID, PCs
    <2>5. CASE NotOperational(m)
      BY <1>2, <2>5, ReturnMoves DEF NotOperational, PCs
    <2> QED
      BY <2>1, <2>2, <2>3, <2>4, <2>5
  <1>4. \A k \in Machines \ {m} : Same(k)
    BY <1>1, <1>3, OthersKeep
  <1>5. MachineInv(m)'
    BY <1>1, <1>3
       DEF MachineInv, CacheInv, PassInv, DeployInv, ReleaseInv, ResourceInv,
           Moved, objects
  <1> QED
    BY <1>1, <1>4, <1>5, StepOf

LEMMA DNSInv ==
    ASSUME UniqueNames, NEW m \in Machines, NEW r, TypeOK, InductiveInv, DNS(m, r)
    PROVE  InductiveInv'
  <1>1. /\ MachineInv(m) /\ UNCHANGED <<objects, jobs>>
        /\ pc[m] = "dns" /\ m \in ControlPlane
    BY DEF InductiveInv, MachineInv, DNS
  <1>2. after[m] \in Object /\ Name[m] \in Names
    BY AfterType, NameAssumption
  <1>3. PICK to \in PCs, obj \in Object :
           /\ Moved(m, to, obj)
           /\ obj.phase = after[m].phase /\ obj.finalizer = after[m].finalizer
           /\ \/ r = "ok" /\ to = IF after[m].phase = "deleting" THEN "release" ELSE "node"
              \/ to = "conds"
    <2>1. CASE r = "ok"
      <3>1. Moved(m, AfterDNS(after[m]), Attachment(after[m]))
        BY <2>1, ProceedMoves DEF DNS
      <3>2. /\ Attachment(after[m]) \in Object
            /\ Attachment(after[m]).phase = after[m].phase
            /\ Attachment(after[m]).finalizer = after[m].finalizer
        BY <1>2 DEF Attachment, Object, DNSConditions
      <3> QED
        BY <2>1, <3>1, <3>2 DEF AfterDNS, Deleting, PCs
    <2>2. CASE r # "ok"
      BY <1>2, <2>2, ReturnMoves DEF DNS, PCs
    <2> QED
      BY <2>1, <2>2
  <1>4. /\ services' \in {services, services \ {Name[m]}, services \cup {Name[m]}}
        /\ after[m].phase = "deleting" => services' \subseteq services
        /\ after[m].phase = "deleting" /\ r = "ok" => Name[m] \notin services'
    BY DEF DNS, Happens, Catalogue, Detaches, Deleting
  <1>5. \A k \in Machines \ {m} : Same(k)
    BY <1>1, <1>3, <1>4, OthersKeep
  <1>6. MachineInv(m)'
    BY <1>1, <1>3, <1>4
       DEF MachineInv, CacheInv, PassInv, DeployInv, ReleaseInv, ResourceInv,
           Moved, objects
  <1> QED
    BY <1>1, <1>4, <1>5, <1>6, StepOf

LEMMA ReleaseMachineInv ==
    ASSUME UniqueNames, NEW m \in Machines, NEW r, TypeOK, InductiveInv,
           ReleaseMachine(m, r)
    PROVE  InductiveInv'
  <1>1. /\ MachineInv(m) /\ UNCHANGED <<objects, services>>
        /\ pc[m] = "release"
    BY DEF InductiveInv, MachineInv, ReleaseMachine
  <1>2. after[m] \in Object /\ Name[m] \in Names
    BY AfterType, NameAssumption
  <1>3. PICK obj \in Object :
           /\ Moved(m, "conds", obj)
           /\ obj.phase = after[m].phase
           /\ r # "ok" => obj.finalizer = after[m].finalizer
    <2>1. CASE r = "ok"
      <3>1. Released(after[m]) \in Object /\ Released(after[m]).phase = after[m].phase
        BY <1>2 DEF Released, Object, DeployedConditions
      <3> QED
        BY <2>1, <3>1, ReturnMoves DEF ReleaseMachine
    <2>2. CASE r # "ok"
      BY <1>2, <2>2, ReturnMoves DEF ReleaseMachine
    <2> QED
      BY <2>1, <2>2
  <1>4. /\ \A n \in Names \ {Name[m]} : jobs'[n].registered = jobs[n].registered
        /\ ~jobs'[Name[m]].registered \/ jobs'[Name[m]].registered = jobs[Name[m]].registered
        /\ r = "ok" => ~jobs'[Name[m]].registered
    <2>1. jobs \in [Names -> Job]
      BY DEF TypeOK
    <2>2. ~Purged(jobs[Name[m]]).registered
      BY <1>2, <2>1 DEF Purged, Job
    <2> QED
      BY <1>2, <2>1, <2>2 DEF ReleaseMachine, Happens
  <1>5. \A k \in Machines \ {m} : Same(k)
    BY <1>1, <1>3, <1>4, OthersKeep
  <1>6. MachineInv(m)'
    <2>1. r # "ok" => (after[m].finalizer = obj.finalizer)
      BY <1>3
    <2>2. before[m].phase = "deleting" /\ Name[m] \notin services
      BY <1>1 DEF MachineInv, ReleaseInv
    <2>3. r # "ok" /\ before[m].finalizer => after[m].finalizer
      BY <1>1 DEF MachineInv, ReleaseInv
    <2> QED
      BY <1>1, <1>3, <1>4, <2>1, <2>2, <2>3
         DEF MachineInv, CacheInv, PassInv, DeployInv, ReleaseInv, ResourceInv,
             Moved, objects
  <1> QED
    BY <1>1, <1>5, <1>6, StepOf

-----------------------------------------------------------------------------
\* What a write that asks for obj leaves of m's object: obj, or a tombstone
\* when obj is being deleted and has lost its finalizer.
Becomes(m, obj) ==
    /\ api'[m].finalizer = obj.finalizer
    /\ api'[m].phase = IF obj.phase = "deleting" /\ ~obj.finalizer THEN "gone" ELSE obj.phase
    /\ \A k \in Machines \ {m} : api'[k] = api[k]

LEMMA StoredBecomes ==
    ASSUME NEW m \in Machines, NEW obj \in Object, TypeOK,
           api' = [api EXCEPT ![m] = Stored(obj)]
    PROVE  Becomes(m, obj)
  BY DEF Becomes, Stored, Deleting, Blank, TypeOK, Object

LEMMA CallBecomes ==
    ASSUME NEW m \in Machines, NEW r, NEW changes, NEW refused, NEW obj \in Object,
           TypeOK, Call(m, r, changes, refused, obj)
    PROVE  (Becomes(m, obj) /\ api[m].phase # "gone") \/ UNCHANGED api
  BY StoredBecomes DEF Call, Exists

LEMMA PatchInv ==
    ASSUME NEW m \in Machines, NEW r, TypeOK, InductiveInv,
           PatchConds(m, r) \/ PatchSpec(m, r) \/ PatchStatus(m, r)
    PROVE  InductiveInv'
  <1>1. MachineInv(m) /\ UNCHANGED <<cache, backends>> /\ pc[m] \in {"conds", "spec", "status"}
    BY DEF InductiveInv, MachineInv, PatchConds, PatchSpec, PatchStatus, Call
  <1>2. api[m] \in Object /\ before[m] \in Object /\ after[m] \in Object
    BY DEF TypeOK
  <1>3. /\ pc[m] = "conds" => pc'[m] = "spec"
        /\ pc[m] = "spec" => pc'[m] = "status"
        /\ pc[m] = "status" => pc'[m] = "idle"
        /\ pc[m] # "status" => before'[m] = before[m] /\ after'[m] = after[m]
        /\ \A k \in Machines \ {m} : SamePass(k)
    BY DEF PatchConds, PatchSpec, PatchStatus, SamePass, TypeOK
  <1>4. PICK obj \in Object :
           /\ (Becomes(m, obj) /\ api[m].phase # "gone") \/ UNCHANGED api
           /\ obj.phase = api[m].phase
           /\ pc[m] # "spec" => obj.finalizer = api[m].finalizer
           /\ obj.finalizer = api[m].finalizer \/
                (obj.finalizer = after[m].finalizer /\ after[m].finalizer # before[m].finalizer)
    <2>1. CASE PatchConds(m, r)
      <3>1. PatchCondsOf(m).phase = api[m].phase
            /\ PatchCondsOf(m).finalizer = api[m].finalizer
        BY <1>2 DEF PatchCondsOf, Object
      <3>2. PatchCondsOf(m) \in Object
        BY PatchedTypes
      <3>3. Call(m, r, CondsChange(m), Conflict(m), PatchCondsOf(m))
        BY <2>1 DEF PatchConds
      <3>4. (Becomes(m, PatchCondsOf(m)) /\ api[m].phase # "gone") \/ UNCHANGED api
        BY <3>2, <3>3, CallBecomes
      <3> QED
        BY <2>1, <3>1, <3>2, <3>4 DEF PatchConds
    <2>2. CASE PatchSpec(m, r)
      <3>1. PatchSpecOf(m).phase = api[m].phase
            /\ PatchSpecOf(m).finalizer =
                 Patched(api[m].finalizer, before[m].finalizer, after[m].finalizer)
        BY <1>2 DEF PatchSpecOf, Object
      <3>2. PatchSpecOf(m) \in Object
        BY PatchedTypes
      <3>3. Call(m, r, SpecChanges(m), FALSE, PatchSpecOf(m))
        BY <2>2 DEF PatchSpec
      <3>4. (Becomes(m, PatchSpecOf(m)) /\ api[m].phase # "gone") \/ UNCHANGED api
        BY <3>2, <3>3, CallBecomes
      <3> QED
        BY <2>2, <3>1, <3>2, <3>4 DEF PatchSpec, Patched
    <2>3. CASE PatchStatus(m, r)
      <3>1. PatchStatusOf(m).phase = api[m].phase
            /\ PatchStatusOf(m).finalizer = api[m].finalizer
        BY <1>2 DEF PatchStatusOf, Object
      <3>2. PatchStatusOf(m) \in Object
        BY PatchedTypes
      <3>3. Call(m, r, StatusChanges(m), FALSE, PatchStatusOf(m))
        BY <2>3 DEF PatchStatus
      <3>4. (Becomes(m, PatchStatusOf(m)) /\ api[m].phase # "gone") \/ UNCHANGED api
        BY <3>2, <3>3, CallBecomes
      <3> QED
        BY <2>3, <3>1, <3>2, <3>4 DEF PatchStatus
    <2> QED
      BY <2>1, <2>2, <2>3
  <1>5. \A k \in Machines \ {m} : Same(k)
    BY <1>1, <1>3, <1>4 DEF Same, SameBackends, Becomes, backends
  <1>6. before[m].finalizer \in BOOLEAN /\ after[m].finalizer \in BOOLEAN
        /\ obj.finalizer \in BOOLEAN /\ api[m].finalizer \in BOOLEAN
    BY <1>2 DEF Object
  <1>7. CASE UNCHANGED api
    BY <1>1, <1>3, <1>7, <1>5, StepOf
       DEF MachineInv, CacheInv, PassInv, DeployInv, ReleaseInv, ResourceInv, backends
  <1>8. CASE Becomes(m, obj) /\ api[m].phase # "gone"
    <2>1. api[m].finalizer /\ ~api'[m].finalizer =>
             /\ pc[m] = "spec"
             /\ before[m].finalizer /\ ~after[m].finalizer
             /\ before[m].phase = "deleting"
             /\ ~jobs[Name[m]].registered
             /\ Name[m] \notin services
             /\ cache[m].phase \in {"deleting", "gone"}
      BY <1>1, <1>4, <1>6, <1>8
         DEF Becomes, MachineInv, ReleaseInv, PassInv
    <2>2. CacheInv(m)'
      <3>1. api[m].phase \in {"live", "deleting"}
        BY <1>1, <1>8 DEF MachineInv, PassInv
      <3> QED
        BY <1>1, <1>4, <1>6, <1>8, <2>1, <3>1 DEF Becomes, MachineInv, CacheInv
    <2>3. PassInv(m)'
      BY <1>1, <1>3, <1>4, <1>6, <1>8, <2>1 DEF Becomes, MachineInv, PassInv
    <2>4. DeployInv(m)' /\ ReleaseInv(m)' /\ ResourceInv(m)'
      BY <1>1, <1>3, <1>4, <1>6, <1>8, <2>1
         DEF Becomes, MachineInv, DeployInv, ReleaseInv, ResourceInv, backends
    <2> QED
      BY <1>1, <1>5, <2>2, <2>3, <2>4, StepOf DEF MachineInv, backends
  <1> QED
    BY <1>4, <1>7, <1>8

LEMMA EnvironmentInv ==
    ASSUME NEW m \in Machines, TypeOK, InductiveInv, Environment(m)
    PROVE  InductiveInv'
  <1>1. MachineInv(m) /\ UNCHANGED <<backends, passes>>
    BY DEF InductiveInv, MachineInv, Environment, Create, SetOwner, Delete, Write,
           CacheSync, BootstrapReady, SetFailureDomain
  <1>2. api[m] \in Object
    BY DEF TypeOK
  <1>3. CASE Create(m) \/ SetOwner(m) \/ Delete(m)
    <2>1. PICK obj \in Object :
             /\ Becomes(m, obj) /\ UNCHANGED cache
             /\ obj.finalizer = api[m].finalizer \/ (api[m].phase = "none" /\ ~obj.finalizer)
             /\ \/ api[m].phase = "none" /\ obj.phase = "unowned"
                \/ api[m].phase = "unowned" /\ obj.phase = "live"
                \/ api[m].phase \in {"unowned", "live"} /\ obj.phase = "deleting"
      <3>1. CASE Create(m)
        <4>1. Blank("unowned") \in Object /\ Blank("unowned").phase = "unowned"
              /\ ~Blank("unowned").finalizer
          BY BlankType DEF Blank, Phases
        <4> QED
          BY <3>1, <4>1, StoredBecomes DEF Create, Write
      <3>2. CASE SetOwner(m)
        <4> DEFINE obj == [api[m] EXCEPT !.phase = "live"]
        <4>1. obj \in Object /\ obj.phase = "live" /\ obj.finalizer = api[m].finalizer
          BY <1>2 DEF Object, Phases
        <4> QED
          BY <3>2, <4>1, StoredBecomes DEF SetOwner, Write
      <3>3. CASE Delete(m)
        <4> DEFINE obj == [api[m] EXCEPT !.phase = "deleting"]
        <4>1. obj \in Object /\ obj.phase = "deleting" /\ obj.finalizer = api[m].finalizer
          BY <1>2 DEF Object, Phases
        <4> QED
          BY <3>3, <4>1, StoredBecomes DEF Delete, Write
      <3> QED
        BY <1>3, <3>1, <3>2, <3>3
    <2>2. \A k \in Machines \ {m} : Same(k)
      BY <1>1, <2>1 DEF Becomes, Same, SamePass, SameBackends, backends, passes
    <2>3. MachineInv(m)'
      BY <1>1, <1>2, <2>1
         DEF MachineInv, CacheInv, PassInv, DeployInv, ReleaseInv, ResourceInv,
             Becomes, Object, backends, passes
    <2> QED
      BY <1>1, <2>2, <2>3, StepOf DEF backends
  <1>4. CASE CacheSync(m)
    <2>1. cache'[m] = api[m] /\ UNCHANGED api
      BY <1>4 DEF CacheSync, TypeOK
    <2>2. \A k \in Machines \ {m} : Same(k)
      BY <1>1, <1>4 DEF CacheSync, TypeOK, Same, SamePass, SameBackends, backends, passes
    <2>3. MachineInv(m)'
      BY <1>1, <2>1
         DEF MachineInv, CacheInv, PassInv, DeployInv, ReleaseInv, ResourceInv,
             backends, passes
    <2> QED
      BY <1>1, <2>2, <2>3, StepOf DEF backends
  <1>5. CASE BootstrapReady(m) \/ SetFailureDomain(m)
    BY <1>1, <1>5, SameInv, StepOf
       DEF BootstrapReady, SetFailureDomain, InductiveInv, MachineInv, Same, SamePass, SameBackends,
           objects, backends, passes
  <1> QED
    BY <1>3, <1>4, <1>5 DEF Environment

\* The rest changes nothing the invariant looks at.
LEMMA UnrelatedInv ==
    ASSUME TypeOK, InductiveInv, UNCHANGED <<objects, services, passes>>,
           \A n \in Names : jobs'[n].registered = jobs[n].registered
    PROVE  InductiveInv'
  <1>1. ASSUME NEW m \in Machines PROVE MachineInv(m)'
    <2>1. MachineInv(m) /\ Same(m)
      BY NameAssumption
         DEF InductiveInv, MachineInv, Same, SamePass, SameBackends, objects, passes
    <2> QED
      BY <2>1, SameInv
  <1> QED
    BY <1>1 DEF InductiveInv, MachineInv

LEMMA WorldInv ==
    ASSUME TypeOK, InductiveInv,
           \/ UNCHANGED vars
           \/ Resync \/ ClusterStep \/ Removal \/ Pause \/ Unpause
           \/ ApiServerUp \/ ApiServerDown
           \/ \E n \in Names : DeploymentStep(n) \/ DeploymentStalls(n) \/ NodeJoins(n)
    PROVE  InductiveInv'
  <1>1. CASE \E n \in Names : DeploymentStep(n) \/ DeploymentStalls(n)
    <2>1. PICK n \in Names, s \in Deployments : jobs' = [jobs EXCEPT ![n].status = s]
      BY <1>1 DEF DeploymentStep, DeploymentStalls, Deployments
    <2>2. \A k \in Names : jobs'[k].registered = jobs[k].registered
      BY <2>1 DEF TypeOK, Job
    <2> QED
      BY <1>1, <2>2, UnrelatedInv DEF DeploymentStep, DeploymentStalls
  <1>2. CASE ~(\E n \in Names : DeploymentStep(n) \/ DeploymentStalls(n))
    <2>1. UNCHANGED <<objects, jobs, services, passes>>
      BY <1>2 DEF vars, Resync, ClusterStep, Removal, Pause, Unpause, ApiServerUp,
                  ApiServerDown, NodeJoins, backends
    <2> QED
      BY <2>1, UnrelatedInv
  <1> QED
    BY <1>1, <1>2

LEMMA NextInv == ASSUME UniqueNames, TypeOK, InductiveInv, [Next]_vars PROVE InductiveInv'
  <1>1. ASSUME NEW m \in Machines, Controller(m) PROVE InductiveInv'
    BY <1>1, BeginInv, RegisterInv, QuietInv, DNSInv, ReleaseMachineInv, PatchInv,
       RelistInv DEF Controller, RemoteCall, PanicBeforeRegister, PanicAtLookup, Restart
  <1>2. CASE Normal
    BY <1>1, <1>2, EnvironmentInv, WorldInv DEF Normal
  <1>3. CASE Disturbance
    BY <1>3, RegisterInv, QuietInv, DNSInv, ReleaseMachineInv, PatchInv, RelistInv,
       WorldInv
       DEF Disturbance, LookupFails, RemoteCall, PanicAfterRegister, Crash, Restart
  <1> QED
    BY <1>2, <1>3, WorldInv DEF Next

-----------------------------------------------------------------------------
\* The steps that change a stored object.
LEMMA OnlyWrites ==
    ASSUME TypeOK, [Next]_vars, NEW m \in Machines, api'[m] # api[m]
    PROVE  \/ \E r : PatchConds(m, r) \/ PatchSpec(m, r) \/ PatchStatus(m, r)
           \/ Create(m) \/ SetOwner(m) \/ Delete(m)
  <1>1. CASE Normal
    <2>1. PICK k \in Machines : Controller(k) \/ Environment(k)
      BY <1>1 DEF Normal, DeploymentStep, NodeJoins, Resync, ClusterStep, Unpause,
                  ApiServerUp, objects
    <2>2. \/ PatchConds(k, "ok") \/ PatchSpec(k, "ok") \/ PatchStatus(k, "ok")
          \/ Create(k) \/ SetOwner(k) \/ Delete(k)
      BY <2>1
         DEF Controller, Begin, Ignore, BeginDelete, AddFinalizer, Wait, BeginDeploy, Open,
             Dequeue, RemoteCall, Register, DNS, ReleaseMachine, SetNodeProviderID,
             Evaluate, SkipDNS, NotOperational, PanicAtLookup, PanicBeforeRegister, Restart,
             Relist, Environment, CacheSync, BootstrapReady, SetFailureDomain, objects
    <2>3. m = k
      BY <2>2 DEF PatchConds, PatchSpec, PatchStatus, Call, Create, SetOwner, Delete,
                  Write, TypeOK
    <2> QED
      BY <2>2, <2>3
  <1>2. CASE Disturbance
    <2>1. PICK k, r : k \in Machines /\ RemoteCall(k, r)
      BY <1>2 DEF Disturbance, LookupFails, vars, SecretFails, EvaluationFails, PanicAfterRegister, Crash, Restart, Relist,
                  Pause, Removal, ApiServerDown, DeploymentStalls, objects
    <2>2. PatchConds(k, r) \/ PatchSpec(k, r) \/ PatchStatus(k, r)
      BY <2>1 DEF RemoteCall, Register, DNS, ReleaseMachine, SetNodeProviderID, objects
    <2>3. m = k
      BY <2>2 DEF PatchConds, PatchSpec, PatchStatus, Call, TypeOK
    <2> QED
      BY <2>2, <2>3
  <1> QED
    BY <1>1, <1>2 DEF Next, vars, objects

\* A machine that has an owner keeps it, and one that is gone stays gone.
LEMMA PhaseStep ==
    ASSUME TypeOK, [Next]_vars, NEW m \in Machines
    PROVE  /\ api[m].phase \in {"live", "deleting", "gone"} =>
                api'[m].phase \in {"live", "deleting", "gone"}
           /\ api[m].phase = "deleting" => api'[m].phase \in {"deleting", "gone"}
           /\ api[m].phase = "gone" => api'[m].phase = "gone"
  <1>1. api[m] \in Object
    BY DEF TypeOK
  <1>2. CASE api'[m] = api[m]
    BY <1>2
  <1>3. CASE Create(m) \/ SetOwner(m) \/ Delete(m)
    BY <1>1, <1>3 DEF Create, SetOwner, Delete, Write, Stored, Blank, TypeOK, Object
  <1>4. ASSUME NEW r, PatchConds(m, r) \/ PatchSpec(m, r) \/ PatchStatus(m, r), api'[m] # api[m]
        PROVE  api[m].phase # "gone" /\ api'[m].phase \in {api[m].phase, "gone"}
    <2>1. PICK obj \in {PatchCondsOf(m), PatchSpecOf(m), PatchStatusOf(m)} :
             Exists(api[m]) /\ api' = [api EXCEPT ![m] = Stored(obj)]
      BY <1>4 DEF PatchConds, PatchSpec, PatchStatus, Call
    <2>2. obj.phase = api[m].phase
      BY <1>1 DEF PatchCondsOf, PatchSpecOf, PatchStatusOf, Object
    <2> QED
      BY <2>1, <2>2 DEF Stored, Blank, Exists, TypeOK
  <1> QED
    BY <1>2, <1>3, <1>4, OnlyWrites

-----------------------------------------------------------------------------
\* The invariant behind the theorems below.
THEOREM Inductive == ASSUME UniqueNames PROVE Spec => []InductiveInv
  <1>1. Init => InductiveInv
    BY InitInv
  <1>2. TypeOK /\ InductiveInv /\ [Next]_vars => InductiveInv'
    BY NextInv
  <1> QED
    BY <1>1, <1>2, TypeCorrect, PTL DEF Spec

\* As long as Nomad has a job or Consul a service for a machine, its NomadMachine
\* is stored with our finalizer: for any number of machines and workers, any
\* lag of the cache and any number of failures and restarts.
THEOREM NothingOrphaned == ASSUME UniqueNames PROVE Spec => []NoOrphanedResources
  <1>1. InductiveInv => NoOrphanedResources
    BY DEF InductiveInv, ResourceInv, NoOrphanedResources
  <1> QED
    BY <1>1, Inductive, PTL

\* A service is only in the catalogue while its machine's job is registered.
THEOREM ServicesHaveJobs == ASSUME UniqueNames PROVE Spec => []ServiceNeedsJob
  <1>1. InductiveInv => ServiceNeedsJob
    BY MachinesAssumption DEF InductiveInv, ResourceInv, ServiceNeedsJob
  <1> QED
    BY <1>1, Inductive, PTL

=============================================================================
