----------------------- MODULE NomadMachineReportProofs -----------------------
(***************************************************************************)
(* What a NomadMachine's fields say of Nomad and Consul is true, or was when *)
(* it was read, and a step never takes back what it said: proofs of the      *)
(* action properties of NomadMachine and of DNSAttachedHonest.               *)
(***************************************************************************)
EXTENDS NomadMachineRefinementProofs

\* Some copy of the object has DNSAttached.
Claimed(m) ==
    \/ api[m].dnsAttached \/ cache[m].dnsAttached
    \/ pc[m] # "idle" /\ (before[m].dnsAttached \/ after[m].dnsAttached)

\* A pass that attaches has seen a deployment that is to be attached, and while
\* the object is not being deleted every copy of DNSAttached is true.
AttachInv(m) ==
    /\ pc[m] = "dns" /\ before[m].phase = "live" => after[m].deployment \in KnownStates
    /\ api[m].phase \notin {"deleting", "gone"} /\ Claimed(m) => Name[m] \in services

\* Deployments are numbered upwards, and a pass that has read a new one has read
\* one that is at least as new as the stored one.
IDInv(m) ==
    /\ api[m].phase = "none" => api[m].providerID = NoID
    /\ api[m].providerID # NoID => api[m].providerID[2] <= jobs[Name[m]].deployment
    /\ pc[m] \in {"register", "evaluate"} => after[m].providerID = before[m].providerID
    /\ pc[m] \notin {"idle", "status"} /\ after[m].providerID # before[m].providerID =>
          /\ after[m].providerID # NoID
          /\ after[m].providerID[2] <= jobs[Name[m]].deployment
          /\ api[m].providerID # NoID => after[m].providerID[2] >= api[m].providerID[2]

\* A pass that is about to make the machine ready has seen the deployment
\* successful, and it is still. A pass that deletes makes no machine ready.
ReadyInv(m) ==
    /\ pc[m] \in {"register", "evaluate"} => after[m].ready = before[m].ready
    /\ pc[m] # "idle" /\ before[m].phase = "deleting" => after[m].ready = before[m].ready
    /\ pc[m] # "idle" /\ after[m].ready /\ ~before[m].ready =>
          jobs[Name[m]].status = "successful"

ReportInv(m) == AttachInv(m) /\ IDInv(m) /\ ReadyInv(m)
Reports == \A m \in Machines : ReportInv(m)

SameReport(m) == Same(m) /\ jobs'[Name[m]] = jobs[Name[m]]

LEMMA KeptReport ==
    ASSUME NEW m \in Machines, ReportInv(m), SameReport(m) PROVE ReportInv(m)'
  BY DEF ReportInv, AttachInv, Claimed, IDInv, ReadyInv, SameReport, Same, SamePass,
         SameBackends

\* A step of m alone.
LEMMA ReportOf ==
    ASSUME UniqueNames, NEW m \in Machines, Reports, ReportInv(m)',
           \A k \in Machines \ {m} : Same(k),
           \A n \in Names \ {Name[m]} : jobs'[n] = jobs[n]
    PROVE  Reports'
  <1>1. \A k \in Machines \ {m} : SameReport(k)
    BY NameAssumption DEF UniqueNames, SameReport
  <1> QED
    BY <1>1, KeptReport DEF Reports

LEMMA InitReports == Init => Reports
  BY DEF Init, Reports, ReportInv, AttachInv, Claimed, IDInv, ReadyInv, Blank

\* What happens to the world alone, no report minds.
LEMMA UnrelatedReports ==
    ASSUME Reports, UNCHANGED <<objects, jobs, services, passes>> PROVE Reports'
  BY KeptReport DEF Reports, SameReport, Same, SamePass, SameBackends, objects, passes

LEMMA RelistReports ==
    ASSUME Reports, Relist, UNCHANGED <<api, jobs, services>> PROVE Reports'
  <1> SUFFICES ASSUME NEW m \in Machines PROVE ReportInv(m)'
    BY DEF Reports
  <1>1. /\ cache'[m] = api[m] /\ api'[m] = api[m] /\ pc'[m] = "idle"
        /\ jobs' = jobs /\ services' = services
    BY DEF Relist
  <1>2. ReportInv(m)
    BY DEF Reports
  <1> QED
    BY <1>1, <1>2 DEF ReportInv, AttachInv, Claimed, IDInv, ReadyInv

LEMMA RestartReports == ASSUME Reports, Restart PROVE Reports'
  BY RelistReports DEF Restart, Relist, backends

LEMMA BeginReports ==
    ASSUME UniqueNames, NEW m \in Machines, TypeOK, Reports, Begin(m) PROVE Reports'
  <1>1. ReportInv(m) /\ UNCHANGED <<objects, backends>> /\ pc[m] = "idle"
    BY DEF Reports, Begin, Ignore, BeginDelete, AddFinalizer, Wait, BeginDeploy, Open,
           Dequeue, Turn
  <1>2. CASE Ignore(m)
    BY <1>1, <1>2, KeptReport
       DEF Ignore, Reports, SameReport, Same, SamePass, SameBackends, objects, backends, passes
  <1>3. CASE ~Ignore(m)
    <2>1. PICK to, obj : /\ Open(m, to, obj)
                         /\ obj.providerID = cache[m].providerID
                         /\ obj.ready = cache[m].ready
                         /\ obj.dnsAttached = cache[m].dnsAttached
                         /\ to = "dns" => cache[m].phase # "live"
      <3>1. cache[m] \in Object
        BY CachedType
      <3>2. CASE BeginDelete(m)
        BY <3>2 DEF BeginDelete, Deleting
      <3>3. CASE AddFinalizer(m)
        BY <3>1, <3>3 DEF AddFinalizer, Object
      <3>4. CASE Wait(m)
        BY <3>1, <3>4 DEF Wait, Object
      <3>5. CASE BeginDeploy(m)
        BY <3>5 DEF BeginDeploy
      <3> QED
        BY <1>3, <3>2, <3>3, <3>4, <3>5 DEF Begin
    <2>2. /\ pc'[m] = to /\ before'[m] = cache[m] /\ after'[m] = obj
          /\ \A k \in Machines \ {m} : Same(k)
      BY <1>1, <2>1 DEF Open, Same, SamePass, SameBackends, TypeOK, objects, backends
    <2>3. ReportInv(m)'
      BY <1>1, <2>1, <2>2
         DEF ReportInv, AttachInv, Claimed, IDInv, ReadyInv, objects, backends
    <2> QED
      BY <1>1, <2>2, <2>3, ReportOf DEF backends
  <1> QED
    BY <1>2, <1>3

-----------------------------------------------------------------------------
\* obj has what the pass has so far made of the fields the reports are about.
Kept(m, obj) ==
    /\ obj.providerID = after[m].providerID
    /\ obj.ready = after[m].ready
    /\ obj.deployment = after[m].deployment

LEMMA RegisterReports ==
    ASSUME UniqueNames, NEW m \in Machines, NEW r, TypeOK, Reports, Register(m, r)
    PROVE  Reports'
  <1>1. ReportInv(m) /\ pc[m] = "register" /\ UNCHANGED <<objects, services>>
    BY DEF Reports, Register
  <1>2. Name[m] \in Names /\ after[m] \in Object /\ api[m] \in Object /\ jobs \in [Names -> Job]
    BY NameAssumption, AfterType DEF TypeOK
  <1>moves. PICK to \in {"evaluate", "conds"} :
           \E obj :
             /\ Moved(m, to, obj) /\ Kept(m, obj) /\ obj.dnsAttached = after[m].dnsAttached
    <2>1. CASE r = "ok"
      BY <2>1, ProceedMoves DEF Register, Kept
    <2>2. CASE r # "ok"
      <3>1. Return(m, [after[m] EXCEPT !.deployedCond = "deployFailed"], TRUE)
        BY <2>2 DEF Register, DeployFailed
      <3> DEFINE obj == [after[m] EXCEPT !.deployedCond = "deployFailed"]
      <3>2. Kept(m, obj) /\ obj.dnsAttached = after[m].dnsAttached
        BY <1>2 DEF Object, Kept
      <3>3. Moved(m, "conds", obj)
        BY <3>1, ReturnMoves
      <3> QED
        BY <3>2, <3>3
    <2> QED
      BY <2>1, <2>2
  <1>3. PICK obj :
           /\ Moved(m, to, obj) /\ Kept(m, obj) /\ obj.dnsAttached = after[m].dnsAttached
    BY <1>moves
  <1>4. /\ \A n \in Names \ {Name[m]} : jobs'[n] = jobs[n]
        /\ jobs'[Name[m]].deployment \in Nat
        /\ jobs'[Name[m]].deployment >= jobs[Name[m]].deployment
    <2>1. CASE UNCHANGED jobs
      BY <1>2, <2>1, BoundsAssumption DEF Job
    <2>2. CASE \E j \in Registered(Name[m]) : jobs' = [jobs EXCEPT ![Name[m]] = j]
      BY <1>2, <2>2, BoundsAssumption DEF Registered, Job
    <2> QED
      BY <2>1, <2>2 DEF Register
  <1>5. \A k \in Machines \ {m} : Same(k)
    BY <1>1, <1>3, <1>4, OthersKeep
  <1>6. ReportInv(m)'
    <2>1. jobs[Name[m]].deployment \in Nat
          /\ (api[m].providerID # NoID => api[m].providerID[2] \in Nat)
      BY <1>2, BoundsAssumption DEF Job, Object, ProviderIDs
    <2>2. AttachInv(m)'
      BY <1>1, <1>3 DEF ReportInv, AttachInv, Claimed, Moved, objects
    <2>3. IDInv(m)'
      BY <1>1, <1>3, <1>4, <2>1 DEF ReportInv, IDInv, Moved, Kept, objects
    <2>4. ReadyInv(m)'
      BY <1>1, <1>3 DEF ReportInv, ReadyInv, Moved, Kept
    <2> QED
      BY <2>2, <2>3, <2>4 DEF ReportInv
  <1> QED
    BY <1>4, <1>5, <1>6, ReportOf

LEMMA EvaluateReports ==
    ASSUME UniqueNames, NEW m \in Machines, TypeOK, InductiveInv, Reports, Evaluate(m)
    PROVE  Reports'
  <1> DEFINE id == <<Name[m], jobs[Name[m]].deployment>>
             status == jobs[Name[m]].status
             obj == Observed(after[m], id, status)
             to == IF status \in KnownStates THEN "dns" ELSE "node"
  <1>1. ReportInv(m) /\ pc[m] = "evaluate" /\ UNCHANGED <<objects, services, jobs>>
    BY DEF Reports, Evaluate, backends
  <1>2. /\ id \in ProviderIDs /\ id[2] = jobs[Name[m]].deployment /\ id[2] \in Nat
        /\ after[m] \in Object /\ api[m] \in Object
    BY NameAssumption, BoundsAssumption DEF Evaluate, TypeOK, Job, ProviderIDs
  <1>3. /\ obj.providerID = id /\ obj.deployment = status
        /\ obj.ready = (status = "successful")
        /\ obj.dnsAttached = after[m].dnsAttached
    <2> HIDE DEF id, status
    <2> QED BY <1>2 DEF Observed, Object
  <1>4. Moved(m, to, obj)
    BY ProceedMoves DEF Evaluate
  <1>5. \A k \in Machines \ {m} : Same(k)
    BY <1>1, <1>4, OthersKeep
  <1>6. AttachInv(m)'
    <2> HIDE DEF obj, status
    <2> QED BY <1>1, <1>3, <1>4 DEF ReportInv, AttachInv, Claimed, Moved, objects
  <1>7. IDInv(m)'
    <2>1. api[m].providerID # NoID => api[m].providerID[2] \in Nat
      BY <1>2, BoundsAssumption DEF Object, ProviderIDs
    <2>2. obj.providerID # NoID /\ obj.providerID[2] = jobs[Name[m]].deployment
      BY <1>2, <1>3, NoIDAssumption
    <2> HIDE DEF obj, to
    <2>3. pc'[m] \in {"dns", "node"} /\ after'[m] = obj
      BY <1>4 DEF Moved, to
    <2> QED
      BY <1>1, <1>2, <2>1, <2>2, <2>3 DEF ReportInv, IDInv, objects
  <1>8. ReadyInv(m)'
    <2> HIDE DEF obj
    <2>1. before[m].phase = "live"
      BY <1>1 DEF InductiveInv, DeployInv
    <2> QED BY <1>1, <1>3, <1>4, <2>1 DEF ReadyInv, Moved
  <1> QED
    BY <1>1, <1>5, <1>6, <1>7, <1>8, ReportOf DEF ReportInv

\* The steps that leave Nomad, Consul and what is reported of them alone.
LEMMA QuietReports ==
    ASSUME UniqueNames, NEW m \in Machines, NEW r, TypeOK, Reports,
           \/ EvaluationFails(m) \/ SecretFails(m) \/ SkipDNS(m)
           \/ SetNodeProviderID(m, r) \/ NotOperational(m)
    PROVE  Reports'
  <1>1. ReportInv(m) /\ UNCHANGED <<objects, services, jobs>>
    BY DEF Reports, EvaluationFails, SecretFails, SkipDNS, SetNodeProviderID,
           NotOperational, backends
  <1>2. after[m] \in Object
    BY AfterType
  <1>moves. PICK to \in {"release", "node", "conds"} :
           \E obj :
             /\ Moved(m, to, obj) /\ Kept(m, obj) /\ obj.dnsAttached = after[m].dnsAttached
             /\ pc[m] \in {"register", "evaluate", "dns", "node"}
    <2>1. CASE EvaluationFails(m) \/ SecretFails(m)
      <3>1. Return(m, [after[m] EXCEPT !.deployedCond = "deployFailed"], TRUE)
        BY <2>1 DEF EvaluationFails, SecretFails, DeployFailed
      <3> QED
        BY <1>2, <2>1, <3>1, ReturnMoves
           DEF EvaluationFails, SecretFails, Object, Kept
    <2>2. CASE SkipDNS(m)
      BY <2>2, ProceedMoves DEF SkipDNS, AfterDNS, Kept
    <2>3. CASE SetNodeProviderID(m, r)
      BY <2>3, ReturnMoves DEF SetNodeProviderID, Kept
    <2>4. CASE NotOperational(m)
      BY <2>4, ReturnMoves DEF NotOperational, Kept
    <2> QED
      BY <2>1, <2>2, <2>3, <2>4
  <1>3. PICK obj :
           /\ Moved(m, to, obj) /\ Kept(m, obj) /\ obj.dnsAttached = after[m].dnsAttached
           /\ pc[m] \in {"register", "evaluate", "dns", "node"}
    BY <1>moves
  <1>4. \A k \in Machines \ {m} : Same(k)
    BY <1>1, <1>3, OthersKeep
  <1>5. ReportInv(m)'
    BY <1>1, <1>3
       DEF ReportInv, AttachInv, Claimed, IDInv, ReadyInv, Moved, Kept, objects
  <1> QED
    BY <1>1, <1>4, <1>5, ReportOf

LEMMA DNSReports ==
    ASSUME UniqueNames, NEW m \in Machines, NEW r, TypeOK, InductiveInv, Reports, DNS(m, r)
    PROVE  Reports'
  <1>1. ReportInv(m) /\ UNCHANGED <<objects, jobs>> /\ pc[m] = "dns"
    BY DEF Reports, DNS
  <1>2. after[m] \in Object /\ Name[m] \in Names
    BY AfterType, NameAssumption
  <1>moves. PICK to \in {"release", "node", "conds"} :
           \E obj :
             /\ Moved(m, to, obj)
             /\ obj.providerID = after[m].providerID /\ obj.ready = after[m].ready
             /\ r # "ok" => obj.dnsAttached = after[m].dnsAttached
    <2>1. CASE r = "ok"
      <3>1. Moved(m, AfterDNS(after[m]), Attachment(after[m]))
        BY <2>1, ProceedMoves DEF DNS
      <3>2. /\ Attachment(after[m]).providerID = after[m].providerID
            /\ Attachment(after[m]).ready = after[m].ready
        BY <1>2 DEF Attachment, Object
      <3> QED
        BY <2>1, <3>1, <3>2 DEF AfterDNS
    <2>2. CASE r # "ok"
      BY <2>2, ReturnMoves DEF DNS
    <2> QED
      BY <2>1, <2>2
  <1>3. PICK obj :
           /\ Moved(m, to, obj)
           /\ obj.providerID = after[m].providerID /\ obj.ready = after[m].ready
           /\ r # "ok" => obj.dnsAttached = after[m].dnsAttached
    BY <1>moves
  <1>4. \A n \in Names \ {Name[m]} : n \in services' <=> n \in services
    BY DEF DNS, Catalogue
  <1>5. \A k \in Machines \ {m} : Same(k)
    BY <1>1, <1>3, <1>4, OthersKeep
  <1>6. \/ before[m].phase = "deleting" /\ api[m].phase \in {"deleting", "gone"}
        \/ /\ before[m].phase = "live" /\ after[m].phase = "live"
           /\ after[m].deployment \in KnownStates
    BY <1>1 DEF InductiveInv, CacheInv, PassInv, ReportInv, AttachInv
  <1>7. AttachInv(m)'
    <2>1. CASE api[m].phase \in {"deleting", "gone"}
      BY <1>1, <1>3, <2>1 DEF AttachInv, Moved, objects
    <2>2. CASE after[m].phase = "live" /\ after[m].deployment \in KnownStates
      <3>1. services' = IF Happens(r) THEN services \cup {Name[m]} ELSE services
        BY <2>2 DEF DNS, Catalogue, Detaches, Deleting
      <3>2. r = "ok" => Name[m] \in services'
        BY <3>1 DEF Happens
      <3> QED
        BY <1>1, <1>3, <3>1, <3>2 DEF ReportInv, AttachInv, Claimed, Moved, objects
    <2> QED
      BY <1>6, <2>1, <2>2
  <1>8. IDInv(m)' /\ ReadyInv(m)'
    BY <1>1, <1>3 DEF ReportInv, IDInv, ReadyInv, Moved, objects
  <1> QED
    BY <1>1, <1>5, <1>7, <1>8, ReportOf DEF ReportInv

LEMMA ReleaseReports ==
    ASSUME UniqueNames, NEW m \in Machines, NEW r, TypeOK, InductiveInv, Reports,
           ReleaseMachine(m, r)
    PROVE  Reports'
  <1>1. /\ ReportInv(m) /\ UNCHANGED <<objects, services>> /\ pc[m] = "release"
        /\ before[m].phase = "deleting"
    BY DEF Reports, ReleaseMachine, InductiveInv, ReleaseInv
  <1>2. after[m] \in Object /\ Name[m] \in Names /\ jobs \in [Names -> Job]
    BY AfterType, NameAssumption DEF TypeOK
  <1>3. PICK obj : Moved(m, "conds", obj) /\ Kept(m, obj) /\ obj.dnsAttached = after[m].dnsAttached
    <2>1. Kept(m, Released(after[m])) /\ Released(after[m]).dnsAttached = after[m].dnsAttached
      BY <1>2 DEF Released, Object, Kept
    <2>2. Moved(m, "conds", Released(after[m])) \/ Moved(m, "conds", after[m])
      BY ReturnMoves DEF ReleaseMachine
    <2> QED
      BY <2>1, <2>2 DEF Kept
  <1>4. /\ \A n \in Names \ {Name[m]} : jobs'[n] = jobs[n]
        /\ jobs'[Name[m]].deployment = jobs[Name[m]].deployment
    BY <1>2 DEF ReleaseMachine, Purged, Job
  <1>5. \A k \in Machines \ {m} : Same(k)
    BY <1>1, <1>3, <1>4, OthersKeep
  <1>6. ReportInv(m)'
    BY <1>1, <1>3, <1>4
       DEF ReportInv, AttachInv, Claimed, IDInv, ReadyInv, Moved, Kept, objects
  <1> QED
    BY <1>4, <1>5, <1>6, ReportOf

-----------------------------------------------------------------------------
\* A write that asks for obj stores it, or a tombstone in its place.
Written(m, obj) ==
    /\ api'[m] \in {obj, Blank("gone")}
    /\ \A k \in Machines \ {m} : api'[k] = api[k]

LEMMA StoredWritten ==
    ASSUME NEW m \in Machines, NEW obj, TypeOK, api' = [api EXCEPT ![m] = Stored(obj)]
    PROVE  Written(m, obj)
  BY DEF Written, Stored, TypeOK

LEMMA CallWritten ==
    ASSUME NEW m \in Machines, NEW r, NEW changes, NEW refused, NEW obj, TypeOK,
           Call(m, r, changes, refused, obj)
    PROVE  (Written(m, obj) /\ api[m].phase # "none") \/ UNCHANGED api
  BY StoredWritten DEF Call, Exists

\* What each call of the patch makes of the fields the reports are about.
LEMMA PatchWrites ==
    ASSUME NEW m \in Machines, NEW r, TypeOK,
           PatchConds(m, r) \/ PatchSpec(m, r) \/ PatchStatus(m, r)
    PROVE  \E obj :
              /\ (Written(m, obj) /\ api[m].phase # "none") \/ UNCHANGED api
              /\ obj.phase = api[m].phase
              /\ obj.providerID = IF pc[m] = "spec"
                    THEN Patched(api[m].providerID, before[m].providerID, after[m].providerID)
                    ELSE api[m].providerID
              /\ obj.ready = IF pc[m] = "status"
                    THEN Patched(api[m].ready, before[m].ready, after[m].ready)
                    ELSE api[m].ready
              /\ obj.dnsAttached \in {api[m].dnsAttached, after[m].dnsAttached}
  <1>1. api[m] \in Object /\ before[m] \in Object /\ after[m] \in Object
    BY DEF TypeOK
  <1>2. CASE PatchConds(m, r)
    <2> DEFINE obj == PatchCondsOf(m)
    <2>1. /\ obj.phase = api[m].phase /\ obj.providerID = api[m].providerID
          /\ obj.ready = api[m].ready /\ obj.dnsAttached = api[m].dnsAttached
      BY <1>1 DEF PatchCondsOf, Object
    <2>2. Call(m, r, CondsChange(m), Conflict(m), obj) /\ pc[m] = "conds"
      BY <1>2 DEF PatchConds
    <2> HIDE DEF obj
    <2> QED
      BY <2>1, <2>2, CallWritten
  <1>3. CASE PatchSpec(m, r)
    <2> DEFINE obj == PatchSpecOf(m)
    <2>1. /\ obj.phase = api[m].phase
          /\ obj.providerID = Patched(api[m].providerID, before[m].providerID, after[m].providerID)
          /\ obj.ready = api[m].ready /\ obj.dnsAttached = api[m].dnsAttached
      BY <1>1 DEF PatchSpecOf, Object
    <2>2. Call(m, r, SpecChanges(m), FALSE, obj) /\ pc[m] = "spec"
      BY <1>3 DEF PatchSpec
    <2> HIDE DEF obj
    <2> QED
      BY <2>1, <2>2, CallWritten
  <1>4. CASE PatchStatus(m, r)
    <2> DEFINE obj == PatchStatusOf(m)
    <2>1. /\ obj.phase = api[m].phase /\ obj.providerID = api[m].providerID
          /\ obj.ready = Patched(api[m].ready, before[m].ready, after[m].ready)
          /\ obj.dnsAttached = Patched(api[m].dnsAttached, before[m].dnsAttached, after[m].dnsAttached)
      BY <1>1 DEF PatchStatusOf, Object
    <2>2. Call(m, r, StatusChanges(m), FALSE, obj) /\ pc[m] = "status"
      BY <1>4 DEF PatchStatus
    <2> HIDE DEF obj
    <2> QED
      BY <2>1, <2>2, CallWritten DEF Patched
  <1> QED
    BY <1>2, <1>3, <1>4

LEMMA PatchReports ==
    ASSUME UniqueNames, NEW m \in Machines, NEW r, TypeOK, Reports,
           PatchConds(m, r) \/ PatchSpec(m, r) \/ PatchStatus(m, r)
    PROVE  Reports'
  <1>1. /\ ReportInv(m) /\ UNCHANGED <<cache, backends>>
        /\ pc[m] \in {"conds", "spec", "status"}
    BY DEF Reports, PatchConds, PatchSpec, PatchStatus, Call
  <1>2. /\ pc[m] = "conds" => pc'[m] = "spec"
        /\ pc[m] = "spec" => pc'[m] = "status"
        /\ pc[m] = "status" => pc'[m] = "idle"
        /\ pc[m] # "status" => before'[m] = before[m] /\ after'[m] = after[m]
        /\ \A k \in Machines \ {m} : SamePass(k)
    BY DEF PatchConds, PatchSpec, PatchStatus, SamePass, TypeOK
  <1>3. PICK obj :
           /\ (Written(m, obj) /\ api[m].phase # "none") \/ UNCHANGED api
           /\ obj.phase = api[m].phase
           /\ obj.providerID = IF pc[m] = "spec"
                 THEN Patched(api[m].providerID, before[m].providerID, after[m].providerID)
                 ELSE api[m].providerID
           /\ obj.dnsAttached \in {api[m].dnsAttached, after[m].dnsAttached}
    BY PatchWrites
  <1>4. \A k \in Machines \ {m} : Same(k)
    BY <1>1, <1>2, <1>3 DEF Same, SameBackends, Written, backends
  <1>5. Blank("gone").phase = "gone" /\ Blank("gone").providerID = NoID
    BY DEF Blank
  <1>6. AttachInv(m)'
    BY <1>1, <1>2, <1>3, <1>5 DEF ReportInv, AttachInv, Claimed, Written, backends
  <1>7. IDInv(m)'
    BY <1>1, <1>2, <1>3, <1>5 DEF ReportInv, IDInv, Written, Patched, backends
  <1>8. ReadyInv(m)'
    BY <1>1, <1>2 DEF ReportInv, ReadyInv, backends
  <1> QED
    BY <1>1, <1>4, <1>6, <1>7, <1>8, ReportOf DEF ReportInv, backends

LEMMA EnvironmentReports ==
    ASSUME UniqueNames, NEW m \in Machines, TypeOK, Reports, Environment(m)
    PROVE  Reports'
  <1>1. ReportInv(m) /\ UNCHANGED <<backends, passes>>
    BY DEF Reports, Environment, Create, SetOwner, Delete, Write, CacheSync,
           BootstrapReady, SetFailureDomain
  <1>2. api[m] \in Object
    BY DEF TypeOK
  <1>3. CASE Create(m) \/ SetOwner(m) \/ Delete(m)
    <2>1. PICK obj :
             /\ Written(m, obj) /\ UNCHANGED cache
             /\ obj.phase # "none" /\ api[m].phase \notin {"deleting", "gone"}
             /\ \/ obj.providerID = NoID /\ ~obj.dnsAttached
                \/ obj.providerID = api[m].providerID /\ obj.dnsAttached = api[m].dnsAttached
      <3>1. CASE Create(m)
        <4>1. Blank("unowned").phase = "unowned" /\ Blank("unowned").providerID = NoID
              /\ ~Blank("unowned").dnsAttached
          BY DEF Blank
        <4> QED
          BY <3>1, <4>1, StoredWritten DEF Create, Write
      <3>2. CASE SetOwner(m)
        <4> DEFINE obj == [api[m] EXCEPT !.phase = "live"]
        <4>1. obj.phase = "live" /\ obj.providerID = api[m].providerID
              /\ obj.dnsAttached = api[m].dnsAttached
          BY <1>2 DEF Object
        <4> QED
          BY <3>2, <4>1, StoredWritten DEF SetOwner, Write
      <3>3. CASE Delete(m)
        <4> DEFINE obj == [api[m] EXCEPT !.phase = "deleting"]
        <4>1. obj.phase = "deleting" /\ obj.providerID = api[m].providerID
              /\ obj.dnsAttached = api[m].dnsAttached
          BY <1>2 DEF Object
        <4> QED
          BY <3>3, <4>1, StoredWritten DEF Delete, Write
      <3> QED
        BY <1>3, <3>1, <3>2, <3>3
    <2>2. Blank("gone").phase = "gone" /\ Blank("gone").providerID = NoID
      BY DEF Blank
    <2>3. \A k \in Machines \ {m} : Same(k)
      BY <1>1, <2>1 DEF Written, Same, SamePass, SameBackends, backends, passes
    <2>4. ReportInv(m)'
      BY <1>1, <2>1, <2>2
         DEF ReportInv, AttachInv, Claimed, IDInv, ReadyInv, Written, backends, passes
    <2> QED
      BY <1>1, <2>3, <2>4, ReportOf DEF backends
  <1>4. CASE CacheSync(m)
    <2>1. cache'[m] = api[m] /\ UNCHANGED api /\ \A k \in Machines \ {m} : Same(k)
      BY <1>1, <1>4 DEF CacheSync, TypeOK, Same, SamePass, SameBackends, backends, passes
    <2>2. ReportInv(m)'
      BY <1>1, <2>1
         DEF ReportInv, AttachInv, Claimed, IDInv, ReadyInv, backends, passes
    <2> QED
      BY <1>1, <2>1, <2>2, ReportOf DEF backends
  <1>5. CASE BootstrapReady(m) \/ SetFailureDomain(m)
    BY <1>1, <1>5, KeptReport
       DEF BootstrapReady, SetFailureDomain, Reports, SameReport, Same, SamePass,
           SameBackends, objects, backends, passes
  <1> QED
    BY <1>3, <1>4, <1>5 DEF Environment

\* Nomad's own steps never take a success back, nor change a deployment's number.
LEMMA WorldReports ==
    ASSUME TypeOK, Reports,
           \/ UNCHANGED vars
           \/ Resync \/ ClusterStep \/ Removal \/ Pause \/ Unpause
           \/ ApiServerUp \/ ApiServerDown
           \/ \E n \in Names : DeploymentStep(n) \/ DeploymentStalls(n) \/ NodeJoins(n)
    PROVE  Reports'
  <1>1. UNCHANGED <<objects, services, passes>>
    BY DEF vars, Resync, ClusterStep, Removal, Pause, Unpause, ApiServerUp,
           ApiServerDown, DeploymentStep, DeploymentStalls, NodeJoins, backends
  <1>2. \A k \in Names :
           /\ jobs'[k].deployment = jobs[k].deployment
           /\ jobs[k].status = "successful" => jobs'[k].status = "successful"
    <2>1. CASE \E n \in Names : DeploymentStep(n) \/ DeploymentStalls(n)
      <3>1. PICK n \in Names, s \in Deployments :
               jobs' = [jobs EXCEPT ![n].status = s] /\ jobs[n].status # "successful"
        BY <2>1 DEF DeploymentStep, DeploymentStalls, Deployments
      <3> QED
        BY <3>1 DEF TypeOK, Job
    <2>2. CASE ~(\E n \in Names : DeploymentStep(n) \/ DeploymentStalls(n))
      BY <2>2 DEF vars, Resync, ClusterStep, Removal, Pause, Unpause, ApiServerUp,
                  ApiServerDown, NodeJoins, backends
    <2> QED
      BY <2>1, <2>2
  <1> SUFFICES ASSUME NEW m \in Machines PROVE ReportInv(m)'
    BY DEF Reports
  <1>3. ReportInv(m) /\ Name[m] \in Names
    BY NameAssumption DEF Reports
  <1> QED
    BY <1>1, <1>2, <1>3
       DEF ReportInv, AttachInv, Claimed, IDInv, ReadyInv, objects, passes

LEMMA NextReports ==
    ASSUME UniqueNames, TypeOK, InductiveInv, Reports, [Next]_vars PROVE Reports'
  <1>1. ASSUME NEW m \in Machines, NEW r, RemoteCall(m, r) PROVE Reports'
    BY <1>1, RegisterReports, DNSReports, ReleaseReports, QuietReports, PatchReports
       DEF RemoteCall
  <1>2. ASSUME NEW m \in Machines, Controller(m) PROVE Reports'
    BY <1>1, <1>2, BeginReports, EvaluateReports, QuietReports, RestartReports
       DEF Controller, PanicAtLookup, PanicBeforeRegister
  <1>3. CASE Normal
    BY <1>2, <1>3, EnvironmentReports, WorldReports DEF Normal
  <1>4. CASE Disturbance
    BY <1>1, <1>4, QuietReports, RestartReports, WorldReports
       DEF Disturbance, LookupFails, PanicAfterRegister, Crash
  <1> QED
    BY <1>3, <1>4, WorldReports DEF Next

LEMMA ReportsInvariant == ASSUME UniqueNames PROVE Spec => []Reports
  <1>1. Init => Reports
    BY InitReports
  <1>2. TypeOK /\ InductiveInv /\ Reports /\ [Next]_vars => Reports'
    BY NextReports
  <1> QED
    BY <1>1, <1>2, TypeCorrect, Inductive, PTL DEF Spec
-----------------------------------------------------------------------------
\* Every step but a release leaves the registered jobs registered.
LEMMA OnlyReleaseUnregisters ==
    ASSUME TypeOK, [Next]_vars,
           ~ \E m \in Machines, r \in Outcomes \cup {"ok"} : ReleaseMachine(m, r)
    PROVE  \A n \in Names : jobs[n].registered => jobs'[n].registered
  <1>1. ASSUME NEW m \in Machines, NEW r, Register(m, r)
        PROVE  \A n \in Names : jobs[n].registered => jobs'[n].registered
    <2>1. Name[m] \in Names /\ jobs \in [Names -> Job]
      BY NameAssumption DEF TypeOK
    <2> QED
      BY <1>1, <2>1 DEF Register, Registered
  <1>2. ASSUME NEW n \in Names, DeploymentStep(n) \/ DeploymentStalls(n)
        PROVE  \A k \in Names : jobs[k].registered => jobs'[k].registered
    <2>1. PICK s \in Deployments : jobs' = [jobs EXCEPT ![n].status = s]
      BY <1>2 DEF DeploymentStep, DeploymentStalls, Deployments
    <2> QED
      BY <2>1 DEF TypeOK, Job
  <1>3. ASSUME NEW m \in Machines, NEW r \in Outcomes \cup {"ok"}, RemoteCall(m, r)
        PROVE  \A n \in Names : jobs[n].registered => jobs'[n].registered
    BY <1>1, <1>3
       DEF RemoteCall, DNS, SetNodeProviderID, PatchConds, PatchSpec, PatchStatus, Call,
           backends
  <1>4. ASSUME NEW m \in Machines, Controller(m)
        PROVE  \A n \in Names : jobs[n].registered => jobs'[n].registered
    BY <1>3, <1>4
       DEF Controller, Begin, Ignore, BeginDelete, AddFinalizer, Wait, BeginDeploy, Open,
           Dequeue, Evaluate, SkipDNS, NotOperational, PanicAtLookup, PanicBeforeRegister,
           Restart, Relist, backends
  <1>5. CASE Normal
    BY <1>2, <1>4, <1>5
       DEF Normal, Environment, Create, SetOwner, Delete, Write, CacheSync,
           BootstrapReady, SetFailureDomain, NodeJoins, Resync, ClusterStep, Unpause,
           ApiServerUp, backends
  <1>6. CASE Disturbance
    BY <1>2, <1>3, <1>6
       DEF Disturbance, LookupFails, vars, SecretFails,
           EvaluationFails, PanicAfterRegister, Crash, Restart, Relist, Pause,
           Removal, ApiServerDown, backends
  <1> QED
    BY <1>5, <1>6 DEF Next, vars, backends

\* A pass that releases a machine has seen its deletion.
LEMMA JobStep ==
    ASSUME UniqueNames, TypeOK, InductiveInv, [Next]_vars, NEW m \in Machines,
           api[m].phase = "live", jobs[Name[m]].registered
    PROVE  jobs'[Name[m]].registered
  <1>1. ASSUME NEW k \in Machines, NEW r, ReleaseMachine(k, r)
        PROVE  jobs'[Name[m]].registered
    <2>1. api[k].phase \in {"deleting", "gone"}
      BY <1>1 DEF InductiveInv, CacheInv, PassInv, ReleaseInv, ReleaseMachine
    <2>2. Name[k] # Name[m]
      BY <2>1 DEF UniqueNames
    <2> QED
      BY <1>1, <2>2, NameAssumption DEF ReleaseMachine, TypeOK
  <1> QED
    BY <1>1, OnlyReleaseUnregisters, NameAssumption

\* Only the calls of Consul change its catalogue.
LEMMA OnlyDNSPublishes ==
    ASSUME TypeOK, [Next]_vars, services' # services
    PROVE  \E m \in Machines, r \in Outcomes \cup {"ok"} : DNS(m, r)
  <1>1. ASSUME NEW m \in Machines, NEW r \in Outcomes \cup {"ok"}, RemoteCall(m, r)
        PROVE  DNS(m, r)
    BY <1>1
       DEF RemoteCall, Register, ReleaseMachine, SetNodeProviderID, PatchConds, PatchSpec,
           PatchStatus, Call, backends
  <1>2. ASSUME NEW m \in Machines, Controller(m)
        PROVE  DNS(m, "ok")
    BY <1>1, <1>2
       DEF Controller, Begin, Ignore, BeginDelete, AddFinalizer, Wait, BeginDeploy, Open,
           Dequeue, Evaluate, SkipDNS, NotOperational, PanicAtLookup, PanicBeforeRegister,
           Restart, Relist, backends
  <1>3. CASE Normal
    BY <1>2, <1>3
       DEF Normal, Environment, Create, SetOwner, Delete, Write, CacheSync, BootstrapReady,
           SetFailureDomain, DeploymentStep, NodeJoins, Resync, ClusterStep, Unpause,
           ApiServerUp, backends
  <1>4. CASE Disturbance
    BY <1>1, <1>4
       DEF Disturbance, LookupFails, vars, SecretFails,
           EvaluationFails, PanicAfterRegister, Crash, Restart, Relist, Pause,
           Removal, ApiServerDown, DeploymentStalls, backends
  <1> QED
    BY <1>3, <1>4 DEF Next, vars, backends

\* A pass that detaches a machine has seen its deletion, or has read of a status in
\* which it does not come to that.
LEMMA ServiceStep ==
    ASSUME UniqueNames, TypeOK, InductiveInv, Reports, [Next]_vars, NEW m \in Machines,
           api[m].phase = "live", Name[m] \in services
    PROVE  Name[m] \in services'
  <1>1. ASSUME NEW k \in Machines, NEW r, DNS(k, r) PROVE Name[m] \in services'
    <2>1. CASE k = m
      <3>1. before[m].phase = "live" /\ after[m].phase = "live"
        BY <1>1, <2>1 DEF InductiveInv, CacheInv, PassInv, DNS
      <3>2. after[m].deployment \in KnownStates
        BY <1>1, <2>1, <3>1 DEF Reports, ReportInv, AttachInv, DNS
      <3>3. ~Detaches(after[m])
        BY <3>1, <3>2 DEF Detaches, Deleting
      <3> QED
        BY <1>1, <2>1, <3>3 DEF DNS, Catalogue
    <2>2. CASE k # m
      BY <1>1, <2>2 DEF UniqueNames, DNS, Catalogue
    <2> QED
      BY <2>1, <2>2
  <1> QED
    BY <1>1, OnlyDNSPublishes

\* What a write by Cluster API leaves of the fields the reports are about.
LEMMA ForeignWrite ==
    ASSUME TypeOK, NEW m \in Machines, Create(m) \/ SetOwner(m) \/ Delete(m)
    PROVE  \/ api[m].phase = "none" /\ api'[m] = Blank("unowned")
           \/ api'[m] = Blank("gone")
           \/ api'[m].providerID = api[m].providerID /\ api'[m].ready = api[m].ready
  <1>1. api[m] \in Object
    BY DEF TypeOK
  <1>2. CASE Create(m)
    BY <1>2 DEF Create, Write, Stored, TypeOK
  <1>3. CASE SetOwner(m)
    BY <1>1, <1>3 DEF SetOwner, Write, Stored, TypeOK, Object
  <1>4. CASE Delete(m)
    BY <1>1, <1>4 DEF Delete, Write, Stored, TypeOK, Object
  <1> QED
    BY <1>2, <1>3, <1>4

-----------------------------------------------------------------------------
\* An object that is not being deleted never says it is attached to DNS when
\* Consul does not have its service.
THEOREM AttachmentHonest == ASSUME UniqueNames PROVE Spec => []DNSAttachedHonest
  <1>1. Reports => DNSAttachedHonest
    BY DEF Reports, ReportInv, AttachInv, Claimed, DNSAttachedHonest
  <1> QED
    BY <1>1, ReportsInvariant, PTL

\* The job of a machine that is not being deleted is never purged: a pass that
\* releases the machine has seen the deletion, and no other goes by its name.
THEOREM JobsKept == ASSUME UniqueNames PROVE Spec => MachineKeepsJob
  <1>1. ASSUME TypeOK, InductiveInv, [Next]_vars
        PROVE  \A m \in Machines : api[m].phase = "live" /\ jobs[Name[m]].registered =>
                  jobs'[Name[m]].registered
    BY <1>1, JobStep
  <1>2. TypeOK /\ InductiveInv /\ [Next]_vars
        => [\A m \in Machines : api[m].phase = "live" /\ jobs[Name[m]].registered =>
               jobs'[Name[m]].registered]_vars
    BY <1>1
  <1> QED
    BY <1>2, TypeCorrect, Inductive, PTL DEF Spec, MachineKeepsJob

\* The stored providerID only ever moves to a later deployment.
THEOREM ProviderIDMonotone == ASSUME UniqueNames PROVE Spec => ProviderIDNeverGoesBack
  <1>1. ASSUME TypeOK, Reports, [Next]_vars, NEW m \in Machines,
               api[m].providerID # NoID, Exists(api'[m])
        PROVE  /\ api'[m].providerID # NoID
               /\ api'[m].providerID[2] >= api[m].providerID[2]
    <2>1. api[m].providerID[2] \in Nat
      BY <1>1, BoundsAssumption DEF TypeOK, Object, ProviderIDs
    <2>2. api'[m] # Blank("gone")
      BY <1>1 DEF Exists, Blank
    <2>3. CASE api'[m] = api[m]
      BY <1>1, <2>1, <2>3
    <2>4. CASE Create(m) \/ SetOwner(m) \/ Delete(m)
      BY <1>1, <2>1, <2>2, <2>4, ForeignWrite DEF Reports, ReportInv, IDInv
    <2>5. ASSUME NEW r, PatchConds(m, r) \/ PatchSpec(m, r) \/ PatchStatus(m, r)
          PROVE  /\ api'[m].providerID # NoID
                 /\ api'[m].providerID[2] >= api[m].providerID[2]
      <3>1. api'[m].providerID = api[m].providerID \/
              /\ pc[m] = "spec"
              /\ api'[m].providerID =
                    Patched(api[m].providerID, before[m].providerID, after[m].providerID)
        BY <1>1, <2>2, <2>5, PatchWrites DEF Written
      <3> QED
        BY <1>1, <2>1, <3>1 DEF Reports, ReportInv, IDInv, Patched
    <2> QED
      BY <1>1, <2>3, <2>4, <2>5, OnlyWrites
  <1>2. TypeOK /\ Reports /\ [Next]_vars
        => [\A m \in Machines :
              api[m].providerID # NoID /\ Exists(api'[m]) =>
                /\ api'[m].providerID # NoID
                /\ api'[m].providerID[2] >= api[m].providerID[2]]_vars
    BY <1>1
  <1> QED
    BY <1>2, TypeCorrect, ReportsInvariant, PTL DEF Spec, ProviderIDNeverGoesBack

\* A machine is made ready only while Nomad has its deployment successful.
THEOREM ReadyAtSuccess == ASSUME UniqueNames PROVE Spec => ReadyOnlyOnSuccess
  <1>1. ASSUME TypeOK, Reports, [Next]_vars, NEW m \in Machines,
               ~api[m].ready, api'[m].ready
        PROVE  jobs[Name[m]].status = "successful"
    <2>1. api'[m] # Blank("gone") /\ api'[m] # Blank("unowned") /\ api'[m] # api[m]
      BY <1>1 DEF Blank
    <2>2. ~(Create(m) \/ SetOwner(m) \/ Delete(m))
      BY <1>1, <2>1, ForeignWrite
    <2>3. PICK r : PatchConds(m, r) \/ PatchSpec(m, r) \/ PatchStatus(m, r)
      BY <1>1, <2>1, <2>2, OnlyWrites
    <2>4. pc[m] = "status" /\ api'[m].ready = Patched(api[m].ready, before[m].ready, after[m].ready)
      BY <1>1, <2>1, <2>3, PatchWrites DEF Written
    <2>5. before[m].ready \in BOOLEAN /\ after[m].ready \in BOOLEAN
      BY <1>1 DEF TypeOK, Object
    <2> QED
      BY <1>1, <2>4, <2>5 DEF Reports, ReportInv, ReadyInv, Patched
  <1>2. TypeOK /\ Reports /\ [Next]_vars
        => [\A m \in Machines :
              ~api[m].ready /\ api'[m].ready => jobs[Name[m]].status = "successful"]_vars
    BY <1>1
  <1> QED
    BY <1>2, TypeCorrect, ReportsInvariant, PTL DEF Spec, ReadyOnlyOnSuccess
=============================================================================
