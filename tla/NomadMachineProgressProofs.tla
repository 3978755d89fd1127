---------------------- MODULE NomadMachineProgressProofs ----------------------
(***************************************************************************)
(* A machine is left to itself only when nothing is left to do for it:      *)
(* proofs of DeletionGoesOn and LeftAloneWhenDone of NomadMachine, the      *)
(* safety part of its liveness properties.                                  *)
(***************************************************************************)
EXTENDS NomadMachineReportProofs

Patching == {"conds", "spec", "status"}

\* A pass that has seen the deletion and asks for no other pass gives up the
\* finalizer, and with it goes the object.
GoingInv(m) ==
    /\ Deleting(api[m]) => api[m].finalizer
    /\ Deleting(cache[m]) => cache[m].finalizer
    /\ pc[m] # "idle" /\ Deleting(before[m]) =>
          /\ before[m].finalizer
          /\ pc[m] \in {"conds", "spec"} /\ ~requeue[m] => ~after[m].finalizer
          /\ pc[m] = "status" /\ ~requeue[m] => api[m].phase = "gone"

\* While no new version has queued it, a machine is as its pass has read it.
FreshInv(m) == pc[m] # "idle" /\ m \notin queue => cache[m] = before[m]

\* A pass over a live machine asks for the finalizer; when it goes on to DNS, and
\* to the Node, it has read the deployment.
ReadingInv(m) ==
    pc[m] # "idle" /\ before[m].phase = "live" =>
        /\ after[m].finalizer
        /\ pc[m] = "dns" => Reported(m, after[m])
        /\ pc[m] = "node" /\ after[m].deployment \in KnownStates =>
              Reported(m, after[m]) /\ Attached(m, after[m])

\* Nothing that a pass has to wait for is missing.
Ready(m) == cluster = "ready" /\ m \in bootstrap

\* A pass that asks for no other one, and has not been queued since, has done all
\* there is to do for a machine that is ready.
DoneInv(m) ==
    (/\ pc[m] \in Patching /\ before[m].phase = "live" /\ before[m].finalizer
     /\ ~requeue[m] /\ m \notin queue /\ Ready(m)) => Attended(m, after[m])

\* If it asks for no other one, its calls have stored what it has changed.
Sent(was, is, stored) == is # was => stored = is

SentInv(m) ==
    before[m].phase = "live" /\ ~requeue[m] =>
        /\ pc[m] \in {"spec", "status"} /\ api[m].phase # "gone" =>
              /\ Sent(before[m].deployedCond, after[m].deployedCond, api[m].deployedCond)
              /\ Sent(before[m].dnsCond, after[m].dnsCond, api[m].dnsCond)
        /\ pc[m] = "status" =>
              /\ api[m].finalizer
              /\ Sent(before[m].providerID, after[m].providerID, api[m].providerID)

\* Nothing keeps the controller from a pass over a machine.
Unheld == cluster \in {"provisioning", "ready"} /\ ~paused

RestInv(m) ==
    Resting(m) /\ Unheld =>
        /\ ~Deleting(api[m])
        /\ api[m].phase = "live" /\ Ready(m) => Attended(m, api[m])

ProgressInv(m) ==
    /\ GoingInv(m) /\ FreshInv(m) /\ ReadingInv(m)
    /\ DoneInv(m) /\ SentInv(m) /\ RestInv(m)

Progress == \A m \in Machines : ProgressInv(m)

-----------------------------------------------------------------------------
NodeSettled(m) == nodes[Name[m]] \notin {NoID, Absent}

\* A step of others: m, its pass and its job are as they were, it is not taken off
\* the queue, and what makes it ready has queued it.
Undisturbed(m) ==
    /\ Same(m) /\ requeue'[m] = requeue[m]
    /\ jobs'[Name[m]].deployment = jobs[Name[m]].deployment
    /\ NodeSettled(m) => NodeSettled(m)'
    /\ m \in queue => m \in queue'
    /\ \/ m \in queue' \/ ~Exists(cache[m])
       \/ (Ready(m)' => Ready(m)) /\ (Unheld' => Unheld)

LEMMA UndisturbedProgress ==
    ASSUME NEW m \in Machines, ProgressInv(m), Undisturbed(m) PROVE ProgressInv(m)'
  <1>1. GoingInv(m)' /\ FreshInv(m)' /\ SentInv(m)'
    BY DEF ProgressInv, Undisturbed, Same, SamePass, GoingInv, FreshInv, SentInv
  <1>2. ReadingInv(m)'
    BY DEF ProgressInv, Undisturbed, Same, SamePass, ReadingInv, Reported, Attached
  <1>3. ASSUME NEW o, Attended(m, o) PROVE Attended(m, o)'
    BY <1>3 DEF Undisturbed, Same, SameBackends, Attended, Reported, Attached, NodeSettled
  <1>4. DoneInv(m)'
    <2>1. SUFFICES ASSUME pc[m] \in Patching, before[m].phase = "live", before[m].finalizer,
                          ~requeue[m], m \notin queue', Ready(m)'
                   PROVE  Attended(m, after[m])'
      BY DEF DoneInv, Undisturbed, Same, SamePass
    <2>2. Exists(cache[m])
      BY <2>1 DEF ProgressInv, FreshInv, Undisturbed, Patching, Exists
    <2>3. Attended(m, after[m])
      BY <2>1, <2>2 DEF ProgressInv, DoneInv, Undisturbed
    <2> QED
      BY <2>3, <1>3 DEF Undisturbed, Same, SamePass
  <1>5. RestInv(m)'
    <2>1. SUFFICES ASSUME Resting(m), m \notin queue', Unheld'
                   PROVE  /\ ~Deleting(api[m])
                          /\ api[m].phase = "live" /\ Ready(m)' => Attended(m, api[m])'
      BY DEF RestInv, Resting, Undisturbed, Same, SamePass
    <2>2. CASE ~Exists(cache[m])
      BY <2>1, <2>2 DEF Resting, Exists, Deleting
    <2>3. CASE Exists(cache[m])
      BY <2>1, <2>3, <1>3 DEF ProgressInv, RestInv, Undisturbed, Same, SamePass
    <2> QED
      BY <2>2, <2>3
  <1> QED
    BY <1>1, <1>2, <1>4, <1>5 DEF ProgressInv

LEMMA ProgressOf ==
    ASSUME NEW m \in Machines, Progress, ProgressInv(m)',
           \A k \in Machines \ {m} : Undisturbed(k)
    PROVE  Progress'
  BY UndisturbedProgress DEF Progress

\* With names of their own, a step about m's job, service or Node is about no other's.
LEMMA OthersUndisturbed ==
    ASSUME UniqueNames, NEW m \in Machines, UNCHANGED world,
           \A k \in Machines \ {m} :
              /\ SamePass(k) /\ requeue'[k] = requeue[k]
              /\ api'[k] = api[k] /\ cache'[k] = cache[k]
              /\ k \in queue' <=> k \in queue,
           \A n \in Names \ {Name[m]} :
              /\ jobs'[n].registered = jobs[n].registered
              /\ jobs'[n].deployment = jobs[n].deployment
              /\ n \in services' <=> n \in services
              /\ nodes'[n] = nodes[n]
    PROVE  \A k \in Machines \ {m} : Undisturbed(k)
  <1> SUFFICES ASSUME NEW k \in Machines \ {m} PROVE Undisturbed(k)
    OBVIOUS
  <1>1. Name[k] \in Names \ {Name[m]}
    BY NameAssumption DEF UniqueNames
  <1>2. Same(k) /\ NodeSettled(k)' = NodeSettled(k)
    BY <1>1 DEF Same, SameBackends, NodeSettled
  <1>3. (Ready(k)' => Ready(k)) /\ (Unheld' => Unheld)
    BY DEF Ready, Unheld, world
  <1> QED
    BY <1>1, <1>2, <1>3 DEF Undisturbed

LEMMA InitProgress == Init => Progress
  <1> SUFFICES ASSUME Init, NEW m \in Machines PROVE ProgressInv(m)
    BY DEF Progress
  <1>1. pc[m] = "idle" /\ api[m].phase = "none" /\ cache[m].phase = "none"
        /\ before[m].phase = "none"
    BY DEF Init, Blank
  <1> QED
    BY <1>1 DEF ProgressInv, GoingInv, FreshInv, ReadingInv, DoneInv, SentInv, RestInv,
                Deleting, Patching

\* The objects are listed again, whatever has become of the world.
LEMMA RelistProgress == ASSUME TypeOK, Progress, Relist PROVE Progress'
  <1> SUFFICES ASSUME NEW m \in Machines PROVE ProgressInv(m)'
    BY DEF Progress
  <1>1. /\ cache'[m] = api[m] /\ api'[m] = api[m] /\ pc'[m] = "idle"
        /\ before'[m] = Blank("none") /\ queue' = Existing
    BY DEF Relist
  <1>2. GoingInv(m) /\ Blank("none").phase = "none"
    BY DEF Progress, ProgressInv, Blank
  <1>3. m \notin queue' => api'[m].phase \notin {"live", "deleting"}
    BY <1>1 DEF Existing, Exists
  <1> QED
    BY <1>1, <1>2, <1>3
       DEF ProgressInv, GoingInv, FreshInv, ReadingInv, DoneInv, SentInv, RestInv,
           Deleting, Patching, Resting

LEMMA BeginProgress ==
    ASSUME UniqueNames, NEW m \in Machines, TypeOK, Progress, Begin(m) PROVE Progress'
  <1>1. /\ ProgressInv(m) /\ UNCHANGED <<objects, world, backends>> /\ pc[m] = "idle"
        /\ queue' = queue \ {m} /\ UNCHANGED requeue
    BY DEF Progress, Begin, Ignore, BeginDelete, AddFinalizer, Wait, BeginDeploy, Open,
           Dequeue, Turn, passes
  <1>2. CASE Ignore(m)
    <2>1. cache[m].phase \in {"live", "deleting"} => ~Unheld
      BY <1>2 DEF Ignore, Reconcilable, Owned, Unheld
    <2>2. UNCHANGED passes /\ Unheld' = Unheld
      BY <1>1, <1>2 DEF Ignore, Unheld, world
    <2>3. RestInv(m)'
      BY <1>1, <2>1, <2>2 DEF RestInv, Resting, Deleting, objects
    <2>4. ProgressInv(m)'
      BY <1>1, <2>2, <2>3
         DEF ProgressInv, GoingInv, FreshInv, ReadingInv, DoneInv, SentInv, Patching,
             objects, passes
    <2>5. \A k \in Machines \ {m} : Undisturbed(k)
      BY <1>1, <2>2, OthersUndisturbed DEF SamePass, objects, backends, passes
    <2> QED
      BY <1>1, <2>4, <2>5, ProgressOf
  <1>3. CASE ~Ignore(m)
    <2>1. PICK to, obj :
             /\ Open(m, to, obj)
             /\ \/ Deleting(cache[m]) /\ to = "dns"
                \/ cache[m].phase = "live" /\ to \in {"conds", "register"} /\ obj.finalizer
             /\ cache[m].finalizer /\ Ready(m) => to # "conds"
      <3>1. cache[m] \in Object
        BY CachedType
      <3>2. CASE BeginDelete(m)
        BY <3>2 DEF BeginDelete
      <3>3. CASE AddFinalizer(m)
        BY <3>1, <3>3 DEF AddFinalizer, Object
      <3>4. CASE Wait(m)
        BY <3>1, <3>4 DEF Wait, Object, Ready
      <3>5. CASE BeginDeploy(m)
        BY <3>5 DEF BeginDeploy
      <3> QED
        BY <1>3, <3>2, <3>3, <3>4, <3>5 DEF Begin
    <2>2. /\ pc'[m] = to /\ before'[m] = cache[m] /\ after'[m] = obj
          /\ \A k \in Machines \ {m} : SamePass(k)
      BY <2>1 DEF Open, SamePass, TypeOK
    <2>3. Ready(m)' = Ready(m)
      BY <1>1 DEF Ready, world
    <2>4. ProgressInv(m)'
      BY <1>1, <2>1, <2>2, <2>3
         DEF ProgressInv, GoingInv, FreshInv, ReadingInv, DoneInv, SentInv, RestInv,
             Resting, Deleting, Patching, objects
    <2>5. \A k \in Machines \ {m} : Undisturbed(k)
      BY <1>1, <2>2, OthersUndisturbed DEF objects, backends
    <2> QED
      BY <1>1, <2>4, <2>5, ProgressOf
  <1> QED
    BY <1>2, <1>3

-----------------------------------------------------------------------------
\* A step of the pass over m, to `to` with `obj`, which leaves the objects alone.
Went(m, to, obj, again) ==
    /\ Moved(m, to, obj) /\ UNCHANGED <<objects, world, queue>>
    /\ requeue'[m] = again
    /\ \A k \in Machines \ {m} : requeue'[k] = requeue[k]

LEMMA ProceedWent ==
    ASSUME NEW m \in Machines, NEW to, NEW obj, TypeOK, Proceed(m, to, obj),
           UNCHANGED <<objects, world>>
    PROVE  Went(m, to, obj, requeue[m]) /\ requeue[m] \in BOOLEAN
  BY ProceedMoves DEF Went, Proceed, TypeOK

LEMMA ReturnWent ==
    ASSUME NEW m \in Machines, NEW obj, NEW again, TypeOK, Return(m, obj, again),
           UNCHANGED <<objects, world>>
    PROVE  Went(m, "conds", obj, again)
  BY ReturnMoves DEF Went, Return, TypeOK

\* What such a step has to show.
LEMMA WentProgress ==
    ASSUME NEW m \in Machines, NEW obj, NEW again,
           NEW to \in {"evaluate", "dns", "release", "node", "conds"},
           TypeOK, ProgressInv(m), Went(m, to, obj, again), pc[m] # "idle",
           Deleting(before[m]) => to \notin {"conds"} \/ again \/ ~obj.finalizer,
           before[m].phase = "live" =>
              /\ obj.finalizer
              /\ to = "dns" => Reported(m, obj)'
              /\ to = "node" /\ obj.deployment \in KnownStates =>
                    Reported(m, obj)' /\ Attached(m, obj)
              /\ to = "conds" /\ ~again => Attended(m, obj)'
    PROVE  ProgressInv(m)'
  <1>1. /\ pc'[m] = to /\ before'[m] = before[m] /\ after'[m] = obj /\ requeue'[m] = again
        /\ api'[m] = api[m] /\ cache'[m] = cache[m] /\ queue' = queue
    BY DEF Went, Moved, objects
  <1>2. GoingInv(m)' /\ FreshInv(m)' /\ SentInv(m)' /\ RestInv(m)'
    BY <1>1 DEF ProgressInv, GoingInv, FreshInv, SentInv, RestInv, Resting
  <1>3. ReadingInv(m)'
    BY <1>1 DEF ReadingInv, Reported, Attached
  <1>4. DoneInv(m)'
    BY <1>1 DEF DoneInv, Patching, Attended, Reported, Attached
  <1> QED
    BY <1>2, <1>3, <1>4 DEF ProgressInv

\* The others, in a step that is about m's job, service or Node.
LEMMA WentOthers ==
    ASSUME UniqueNames, NEW m \in Machines, NEW to, NEW obj, NEW again,
           Went(m, to, obj, again),
           \A n \in Names \ {Name[m]} :
              /\ jobs'[n].registered = jobs[n].registered
              /\ jobs'[n].deployment = jobs[n].deployment
              /\ n \in services' <=> n \in services
              /\ nodes'[n] = nodes[n]
    PROVE  \A k \in Machines \ {m} : Undisturbed(k)
  BY OthersUndisturbed DEF Went, Moved, objects

\* What is known of a pass that is past its start.
LEMMA PassFacts ==
    ASSUME NEW m \in Machines, TypeOK, InductiveInv, Progress, pc[m] # "idle"
    PROVE  /\ ProgressInv(m)
           /\ before[m].phase \in {"live", "deleting"} /\ after[m].phase = before[m].phase
           /\ before[m].phase = "live" => after[m].finalizer
           /\ pc[m] \in {"register", "evaluate", "node"} => before[m].phase = "live"
           /\ pc[m] \in {"evaluate", "dns", "node"} /\ before[m].phase = "live" =>
                 jobs[Name[m]].registered
           /\ after[m] \in Object /\ Name[m] \in Names /\ jobs[Name[m]] \in Job
  BY AfterType, NameAssumption
     DEF Progress, ProgressInv, ReadingInv, InductiveInv, PassInv, DeployInv, TypeOK

LEMMA RegisterProgress ==
    ASSUME UniqueNames, NEW m \in Machines, NEW r, TypeOK, InductiveInv, Progress,
           Register(m, r)
    PROVE  Progress'
  <1>1. pc[m] = "register" /\ UNCHANGED <<objects, world, services, nodes>>
    BY DEF Register
  <1>2. /\ ProgressInv(m) /\ before[m].phase = "live" /\ after[m].finalizer
        /\ after[m] \in Object /\ Name[m] \in Names
    BY <1>1, PassFacts
  <1>3. \A n \in Names \ {Name[m]} : jobs'[n] = jobs[n]
    BY DEF Register, TypeOK
  <1>4. PICK to \in {"evaluate", "conds"} :
           \E obj, again :
             /\ Went(m, to, obj, again) /\ obj.finalizer /\ again \in BOOLEAN
             /\ to = "conds" => again
    <2>1. CASE r = "ok"
      BY <1>1, <1>2, <2>1, ProceedWent DEF Register
    <2>2. CASE r # "ok"
      <3>1. Return(m, [after[m] EXCEPT !.deployedCond = "deployFailed"], TRUE)
        BY <2>2 DEF Register, DeployFailed
      <3>2. [after[m] EXCEPT !.deployedCond = "deployFailed"].finalizer
        BY <1>2 DEF Object
      <3> QED
        BY <1>1, <3>1, <3>2, ReturnWent
    <2> QED
      BY <2>1, <2>2
  <1>5. PICK obj, again :
             /\ Went(m, to, obj, again) /\ obj.finalizer /\ again \in BOOLEAN
             /\ to = "conds" => again
    BY <1>4
  <1>6. ProgressInv(m)'
    BY <1>1, <1>2, <1>5, WentProgress DEF Deleting
  <1>7. \A k \in Machines \ {m} : Undisturbed(k)
    BY <1>1, <1>3, <1>5, WentOthers
  <1> QED
    BY <1>6, <1>7, ProgressOf

LEMMA EvaluateProgress ==
    ASSUME UniqueNames, NEW m \in Machines, TypeOK, InductiveInv, Progress,
           Evaluate(m) \/ EvaluationFails(m) \/ SecretFails(m)
    PROVE  Progress'
  <1>1. pc[m] \in {"register", "evaluate"} /\ UNCHANGED <<objects, world, backends>>
    BY DEF Evaluate, EvaluationFails, SecretFails
  <1>2. /\ ProgressInv(m) /\ before[m].phase = "live" /\ after[m].finalizer
        /\ after[m] \in Object /\ Name[m] \in Names /\ jobs[Name[m]] \in Job
    BY <1>1, PassFacts
  <1>3. PICK to \in {"dns", "node", "conds"} :
           \E obj, again :
             /\ Went(m, to, obj, again) /\ obj.finalizer /\ again \in BOOLEAN
             /\ to = "dns" => Reported(m, obj)
             /\ to = "node" => obj.deployment \notin KnownStates
             /\ to = "conds" => again
    <2>1. CASE Evaluate(m)
      <3> DEFINE id == <<Name[m], jobs[Name[m]].deployment>>
                 status == jobs[Name[m]].status
                 obj == Observed(after[m], id, status)
                 to == IF status \in KnownStates THEN "dns" ELSE "node"
      <3>1. Proceed(m, to, obj)
        BY <2>1 DEF Evaluate
      <3>2. Went(m, to, obj, requeue[m]) /\ requeue[m] \in BOOLEAN
        <4> HIDE DEF obj, to
        <4> QED BY <1>1, <3>1, ProceedWent
      <3>3. /\ obj.finalizer /\ obj.providerID = id /\ obj.deployment = status
            /\ obj.ready = (status = "successful")
            /\ status = "running" => obj.deployedCond = "deploying"
            /\ status = "successful" => obj.deployedCond = "deployed"
        <4> HIDE DEF id, status
        <4> QED BY <1>2 DEF Observed, Object
      <3>4. to = "dns" => Reported(m, obj)
        <4> HIDE DEF obj
        <4> QED BY <3>3 DEF Reported, KnownStates
      <3>5. to = "node" => obj.deployment \notin KnownStates
        BY <3>3
      <3>6. to \in {"dns", "node"} /\ obj.finalizer
        BY <3>3
      <3> HIDE DEF obj, to
      <3> QED BY <3>2, <3>4, <3>5, <3>6
    <2>2. CASE EvaluationFails(m) \/ SecretFails(m)
      <3>1. Return(m, [after[m] EXCEPT !.deployedCond = "deployFailed"], TRUE)
        BY <2>2 DEF EvaluationFails, SecretFails, DeployFailed
      <3>2. [after[m] EXCEPT !.deployedCond = "deployFailed"].finalizer
        BY <1>2 DEF Object
      <3> QED
        BY <1>1, <3>1, <3>2, ReturnWent
    <2> QED
      BY <2>1, <2>2
  <1>4. PICK obj, again :
             /\ Went(m, to, obj, again) /\ obj.finalizer /\ again \in BOOLEAN
             /\ to = "dns" => Reported(m, obj)
             /\ to = "node" => obj.deployment \notin KnownStates
             /\ to = "conds" => again
    BY <1>3
  <1>5. to = "dns" => Reported(m, obj)'
    BY <1>1, <1>4 DEF Reported, backends
  <1>6. ProgressInv(m)'
    BY <1>1, <1>2, <1>4, <1>5, WentProgress DEF Deleting
  <1>7. \A k \in Machines \ {m} : Undisturbed(k)
    BY <1>1, <1>4, WentOthers DEF backends
  <1> QED
    BY <1>6, <1>7, ProgressOf

LEMMA DNSProgress ==
    ASSUME UniqueNames, NEW m \in Machines, NEW r, TypeOK, InductiveInv, Progress,
           DNS(m, r) \/ SkipDNS(m)
    PROVE  Progress'
  <1>1. /\ pc[m] = "dns" /\ UNCHANGED <<objects, world, jobs, nodes>>
        /\ \A n \in Names \ {Name[m]} : n \in services' <=> n \in services
    BY DEF DNS, SkipDNS, Catalogue, backends
  <1>2. /\ ProgressInv(m) /\ after[m] \in Object /\ after[m].phase = before[m].phase
        /\ before[m].phase \in {"live", "deleting"}
        /\ before[m].phase = "live" => after[m].finalizer /\ Reported(m, after[m])
    BY <1>1, PassFacts DEF ProgressInv, ReadingInv
  <1>3. PICK to \in {"release", "node", "conds"} :
           \E obj, again :
             /\ Went(m, to, obj, again) /\ again \in BOOLEAN
             /\ obj.finalizer = after[m].finalizer
             /\ before[m].phase = "live" => Reported(m, obj)
             /\ to = "node" => Attached(m, obj)
             /\ to = "conds" => again
    <2>1. CASE DNS(m, r) /\ r = "ok"
      <3> DEFINE to == AfterDNS(after[m])
                 obj == Attachment(after[m])
      <3>1. Went(m, to, obj, requeue[m]) /\ requeue[m] \in BOOLEAN
        <4>1. Proceed(m, to, obj)
          BY <2>1 DEF DNS
        <4> HIDE DEF to, obj
        <4> QED BY <1>1, <4>1, ProceedWent
      <3>2. /\ obj.finalizer = after[m].finalizer /\ obj.providerID = after[m].providerID
            /\ obj.deployment = after[m].deployment /\ obj.ready = after[m].ready
            /\ obj.deployedCond = after[m].deployedCond
            /\ ~Detaches(after[m]) => obj.dnsAttached /\ obj.dnsCond = "attached"
        BY <1>2 DEF Attachment, Object
      <3>3. to = IF before[m].phase = "deleting" THEN "release" ELSE "node"
        BY <1>2 DEF AfterDNS, Deleting
      <3> HIDE DEF to, obj
      <3>4. before[m].phase = "live" => Reported(m, obj)
        BY <1>2, <3>2 DEF Reported
      <3>5. to = "node" => Attached(m, obj)
        BY <1>2, <3>2, <3>3 DEF Attached, Reported, Detaches, Deleting, KnownStates
      <3> QED
        BY <3>1, <3>2, <3>3, <3>4, <3>5
    <2>2. CASE DNS(m, r) /\ r # "ok"
      <3>1. Went(m, "conds", after[m], TRUE)
        BY <1>1, <2>2, ReturnWent DEF DNS
      <3> QED
        BY <1>2, <3>1
    <2>3. CASE SkipDNS(m)
      <3> DEFINE to == AfterDNS(after[m])
      <3>1. Went(m, to, after[m], requeue[m]) /\ requeue[m] \in BOOLEAN /\ m \notin ControlPlane
        <4>1. Proceed(m, to, after[m]) /\ m \notin ControlPlane
          BY <2>3 DEF SkipDNS
        <4> HIDE DEF to
        <4> QED BY <1>1, <4>1, ProceedWent
      <3>2. to \in {"release", "node"}
        BY DEF AfterDNS
      <3> HIDE DEF to
      <3> QED
        BY <1>2, <3>1, <3>2 DEF Attached
    <2> QED
      BY <2>1, <2>2, <2>3
  <1>4. PICK obj, again :
             /\ Went(m, to, obj, again) /\ again \in BOOLEAN
             /\ obj.finalizer = after[m].finalizer
             /\ before[m].phase = "live" => Reported(m, obj)
             /\ to = "node" => Attached(m, obj)
             /\ to = "conds" => again
    BY <1>3
  <1>5. Reported(m, obj)' = Reported(m, obj)
    BY <1>1 DEF Reported
  <1>6. ProgressInv(m)'
    BY <1>1, <1>2, <1>4, <1>5, WentProgress DEF Deleting
  <1>7. \A k \in Machines \ {m} : Undisturbed(k)
    BY <1>1, <1>4, WentOthers
  <1> QED
    BY <1>6, <1>7, ProgressOf

LEMMA ReleaseProgress ==
    ASSUME UniqueNames, NEW m \in Machines, NEW r, TypeOK, InductiveInv, Progress,
           ReleaseMachine(m, r)
    PROVE  Progress'
  <1>1. /\ pc[m] = "release" /\ UNCHANGED <<objects, world, services, nodes>>
        /\ \A n \in Names \ {Name[m]} : jobs'[n] = jobs[n]
    BY DEF ReleaseMachine, TypeOK
  <1>2. ProgressInv(m) /\ after[m] \in Object /\ Deleting(before[m])
    BY <1>1, PassFacts DEF InductiveInv, ReleaseInv, Deleting
  <1>3. PICK obj, again : /\ Went(m, "conds", obj, again) /\ again \in BOOLEAN
                          /\ again \/ ~obj.finalizer
    <2>1. CASE r = "ok"
      <3>1. ~Released(after[m]).finalizer
        BY <1>2 DEF Released, Object
      <3>2. Return(m, Released(after[m]), FALSE)
        BY <2>1 DEF ReleaseMachine
      <3> QED
        BY <1>1, <3>1, <3>2, ReturnWent
    <2>2. CASE r # "ok"
      BY <1>1, <2>2, ReturnWent DEF ReleaseMachine
    <2> QED
      BY <2>1, <2>2
  <1>4. ProgressInv(m)'
    BY <1>1, <1>2, <1>3, WentProgress DEF Deleting
  <1>5. \A k \in Machines \ {m} : Undisturbed(k)
    BY <1>1, <1>3, WentOthers
  <1> QED
    BY <1>4, <1>5, ProgressOf

LEMMA NodeProgress ==
    ASSUME UniqueNames, NEW m \in Machines, NEW r, TypeOK, InductiveInv, Progress,
           SetNodeProviderID(m, r) \/ NotOperational(m)
    PROVE  Progress'
  <1>1. /\ pc[m] = "node" /\ UNCHANGED <<objects, world, jobs, services>>
        /\ \A n \in Names \ {Name[m]} : nodes'[n] = nodes[n]
    BY DEF SetNodeProviderID, NotOperational, backends, TypeOK
  <1>2. /\ ProgressInv(m) /\ before[m].phase = "live" /\ after[m].finalizer
        /\ jobs[Name[m]].registered /\ jobs[Name[m]] \in Job /\ Name[m] \in Names
    BY <1>1, PassFacts
  <1>3. PICK again \in BOOLEAN :
             /\ Went(m, "conds", after[m], again)
             /\ ~again => SetNodeProviderID(m, r) /\ Settable(m) /\ r = "ok"
    BY <1>1, ReturnWent DEF SetNodeProviderID, NotOperational
  <1>4. ~again => Attended(m, after[m])'
    <2> SUFFICES ASSUME ~again PROVE Attended(m, after[m])'
      OBVIOUS
    <2>1. after'[m] = after[m]
      BY <1>3 DEF Went, Moved
    <2>2. after[m].deployment \in KnownStates
      BY <1>3 DEF SetNodeProviderID, Operational
    <2>3. Reported(m, after[m]) /\ Attached(m, after[m])
      BY <1>1, <1>2, <2>2 DEF ProgressInv, ReadingInv
    <2>4. after[m].providerID \in ProviderIDs
      BY <1>2, <2>3, BoundsAssumption DEF Reported, ProviderIDs, Job, TypeOK
    <2>5. nodes'[Name[m]] = after[m].providerID
      BY <1>2, <1>3 DEF SetNodeProviderID, Happens, TypeOK
    <2>6. nodes'[Name[m]] \notin {NoID, Absent}
      BY <2>4, <2>5, NoIDAssumption, AbsentAssumption
    <2> QED
      BY <1>1, <1>2, <2>1, <2>3, <2>6 DEF Attended, Reported, Attached
  <1>5. PICK obj : obj = after[m]
    OBVIOUS
  <1>6. obj = after'[m]
    BY <1>3, <1>5 DEF Went, Moved
  <1>7. ProgressInv(m)'
    BY <1>1, <1>2, <1>3, <1>4, <1>5, <1>6, WentProgress DEF Deleting
  <1>8. \A k \in Machines \ {m} : Undisturbed(k)
    BY <1>1, <1>3, WentOthers
  <1> QED
    BY <1>7, <1>8, ProgressOf

-----------------------------------------------------------------------------
\* What is stored when an object that is being deleted has lost its finalizer.
LEMMA StoredCases ==
    ASSUME NEW obj \in Object
    PROVE  /\ ~(Deleting(obj) /\ ~obj.finalizer) => Stored(obj) = obj
           /\ Deleting(obj) /\ ~obj.finalizer => Stored(obj).phase = "gone"
           /\ Deleting(Stored(obj)) => Stored(obj).finalizer
           /\ Stored(obj).phase \in {obj.phase, "gone"}
           /\ obj.finalizer => Stored(obj) = obj
           /\ Stored(obj).phase # "gone" => Stored(obj) = obj
  BY DEF Stored, Deleting, Blank, Object

\* A call that makes no error has stored what it was to change, or had nothing to.
LEMMA CallStores ==
    ASSUME NEW m \in Machines, NEW r, NEW changes \in BOOLEAN, NEW refused \in BOOLEAN, NEW obj,
           TypeOK, Call(m, r, changes, refused, obj)
    PROVE  /\ UNCHANGED <<cache, world, backends>>
           /\ \A k \in Machines \ {m} : api'[k] = api[k]
           /\ api'[m] = api[m] \/ (api'[m] = Stored(obj) /\ Exists(api[m]))
           /\ ~Errs(m, r, changes, refused) =>
                 IF changes THEN api'[m] = Stored(obj) /\ Exists(api[m]) ELSE api'[m] = api[m]
  BY DEF Call, Errs, Happens, TypeOK

LEMMA PatchCondsProgress ==
    ASSUME UniqueNames, NEW m \in Machines, NEW r, TypeOK, InductiveInv, Progress,
           PatchConds(m, r)
    PROVE  Progress'
  <1> DEFINE obj == PatchCondsOf(m)
             err == Errs(m, r, CondsChange(m), Conflict(m))
  <1>1. /\ pc[m] = "conds" /\ pc'[m] = "spec" /\ UNCHANGED <<queue, before, after>>
        /\ requeue'[m] = (requeue[m] \/ err)
        /\ \A k \in Machines \ {m} : SamePass(k) /\ requeue'[k] = requeue[k]
    BY DEF PatchConds, SamePass, TypeOK
  <1>2. CondsChange(m) \in BOOLEAN /\ Conflict(m) \in BOOLEAN
    BY DEF CondsChange, Conflict
  <1>3. Call(m, r, CondsChange(m), Conflict(m), obj)
    BY DEF PatchConds
  <1>4. /\ UNCHANGED <<cache, world, backends>>
        /\ \A k \in Machines \ {m} : api'[k] = api[k]
        /\ api'[m] = api[m] \/ (api'[m] = Stored(obj) /\ Exists(api[m]))
        /\ ~err => IF CondsChange(m) THEN api'[m] = Stored(obj) ELSE api'[m] = api[m]
    <2> HIDE DEF obj
    <2> QED BY <1>2, <1>3, CallStores
  <1>5. /\ obj \in Object /\ obj.phase = api[m].phase /\ obj.finalizer = api[m].finalizer
        /\ obj.deployedCond =
              Patched(api[m].deployedCond, before[m].deployedCond, after[m].deployedCond)
        /\ obj.dnsCond = Patched(api[m].dnsCond, before[m].dnsCond, after[m].dnsCond)
    BY PatchedTypes DEF PatchCondsOf, TypeOK, Object
  <1>6. /\ Deleting(Stored(obj)) => Stored(obj).finalizer
        /\ Stored(obj).phase # "gone" => Stored(obj) = obj
    <2> HIDE DEF obj
    <2> QED BY <1>5, StoredCases
  <1> HIDE DEF obj, err
  <1>7. ProgressInv(m) /\ requeue[m] \in BOOLEAN
    BY <1>1 DEF Progress, TypeOK
  <1>8. GoingInv(m)' /\ FreshInv(m)' /\ ReadingInv(m)' /\ RestInv(m)'
    BY <1>1, <1>4, <1>6, <1>7
       DEF ProgressInv, GoingInv, FreshInv, ReadingInv, RestInv, Resting
  <1>9. DoneInv(m)'
    BY <1>1, <1>4, <1>7
       DEF ProgressInv, DoneInv, Patching, Attended, Reported, Attached, Ready, world, backends
  <1>10. SentInv(m)'
    BY <1>1, <1>4, <1>5, <1>6, <1>7 DEF SentInv, Sent, CondsChange, Patched
  <1>11. \A k \in Machines \ {m} : Undisturbed(k)
    BY <1>1, <1>4, OthersUndisturbed DEF backends
  <1> QED
    BY <1>8, <1>9, <1>10, <1>11, ProgressOf DEF ProgressInv

LEMMA PatchSpecProgress ==
    ASSUME UniqueNames, NEW m \in Machines, NEW r, TypeOK, InductiveInv, Progress,
           PatchSpec(m, r)
    PROVE  Progress'
  <1> DEFINE obj == PatchSpecOf(m)
             err == Errs(m, r, SpecChanges(m), FALSE)
  <1>1. /\ pc[m] = "spec" /\ pc'[m] = "status" /\ UNCHANGED <<queue, before, after>>
        /\ requeue'[m] = (requeue[m] \/ err)
        /\ \A k \in Machines \ {m} : SamePass(k) /\ requeue'[k] = requeue[k]
    BY DEF PatchSpec, SamePass, TypeOK
  <1>2. SpecChanges(m) \in BOOLEAN
    BY DEF SpecChanges
  <1>3. Call(m, r, SpecChanges(m), FALSE, obj)
    BY DEF PatchSpec
  <1>4. /\ UNCHANGED <<cache, world, backends>>
        /\ \A k \in Machines \ {m} : api'[k] = api[k]
        /\ api'[m] = api[m] \/ (api'[m] = Stored(obj) /\ Exists(api[m]))
        /\ ~err => IF SpecChanges(m) THEN api'[m] = Stored(obj) /\ Exists(api[m])
                                     ELSE api'[m] = api[m]
    <2> HIDE DEF obj
    <2> QED BY <1>2, <1>3, CallStores
  <1>5. /\ obj \in Object /\ obj.phase = api[m].phase
        /\ obj.finalizer = Patched(api[m].finalizer, before[m].finalizer, after[m].finalizer)
        /\ obj.providerID = Patched(api[m].providerID, before[m].providerID, after[m].providerID)
        /\ obj.deployedCond = api[m].deployedCond /\ obj.dnsCond = api[m].dnsCond
    BY PatchedTypes DEF PatchSpecOf, TypeOK, Object
  <1>6. /\ Deleting(obj) /\ ~obj.finalizer => Stored(obj).phase = "gone"
        /\ Deleting(Stored(obj)) => Stored(obj).finalizer
        /\ Stored(obj).phase # "gone" => Stored(obj) = obj
        /\ obj.finalizer => Stored(obj) = obj
    <2> HIDE DEF obj
    <2> QED BY <1>5, StoredCases
  <1> HIDE DEF obj, err
  <1>7. ProgressInv(m) /\ requeue[m] \in BOOLEAN /\ CacheInv(m) /\ PassInv(m)
    BY <1>1 DEF Progress, TypeOK, InductiveInv
  <1>8. FreshInv(m)' /\ ReadingInv(m)' /\ RestInv(m)'
    BY <1>1, <1>4, <1>7 DEF ProgressInv, FreshInv, ReadingInv, RestInv, Resting
  <1>9. DoneInv(m)'
    BY <1>1, <1>4, <1>7
       DEF ProgressInv, DoneInv, Patching, Attended, Reported, Attached, Ready, world, backends
  <1>10. GoingInv(m)'
    <2>1. Deleting(api'[m]) => api'[m].finalizer
      BY <1>4, <1>6, <1>7 DEF ProgressInv, GoingInv
    <2>2. ASSUME Deleting(before[m]), ~requeue'[m] PROVE api'[m].phase = "gone"
      <3>1. ~requeue[m] /\ ~err /\ before[m].finalizer /\ ~after[m].finalizer
        BY <1>1, <1>7, <2>2 DEF ProgressInv, GoingInv
      <3>2. api'[m] = Stored(obj) /\ Exists(api[m]) /\ ~obj.finalizer
        BY <1>4, <1>5, <3>1 DEF SpecChanges, Patched
      <3>3. api[m].phase = "deleting"
        BY <1>1, <1>7, <2>2, <3>2 DEF PassInv, CacheInv, Exists, Deleting
      <3> QED
        BY <1>5, <1>6, <3>2, <3>3 DEF Deleting
    <2> QED
      BY <1>1, <1>4, <1>7, <2>1, <2>2 DEF ProgressInv, GoingInv
  <1>11. SentInv(m)'
    <2> SUFFICES ASSUME before[m].phase = "live", ~requeue'[m]
                 PROVE  /\ api'[m].phase # "gone" =>
                             /\ Sent(before[m].deployedCond, after[m].deployedCond, api'[m].deployedCond)
                             /\ Sent(before[m].dnsCond, after[m].dnsCond, api'[m].dnsCond)
                        /\ api'[m].finalizer
                        /\ Sent(before[m].providerID, after[m].providerID, api'[m].providerID)
      BY <1>1 DEF SentInv
    <2>1. ~requeue[m] /\ ~err /\ after[m].finalizer
      BY <1>1, <1>7 DEF ProgressInv, ReadingInv
    <2>2. before[m].finalizer \in BOOLEAN
      BY DEF TypeOK, Object
    <2>3. before[m].finalizer => api[m].finalizer
      BY <1>1, <1>7 DEF PassInv
    <2>4. CASE SpecChanges(m)
      <3>1. obj.finalizer
        BY <1>5, <2>1, <2>2, <2>3 DEF Patched
      <3>2. api'[m] = obj /\ api[m].phase # "gone"
        BY <1>4, <1>6, <2>1, <2>4, <3>1 DEF Exists
      <3> QED
        BY <1>1, <1>5, <1>7, <2>1, <3>1, <3>2 DEF ProgressInv, SentInv, Sent, Patched
    <2>5. CASE ~SpecChanges(m)
      <3>1. api'[m] = api[m] /\ before[m].finalizer
        BY <1>4, <2>1, <2>2, <2>5 DEF SpecChanges
      <3> QED
        BY <1>1, <1>7, <2>1, <2>3, <2>5, <3>1 DEF ProgressInv, SentInv, Sent, SpecChanges
    <2> QED
      BY <2>4, <2>5
  <1>12. \A k \in Machines \ {m} : Undisturbed(k)
    BY <1>1, <1>4, OthersUndisturbed DEF backends
  <1> QED
    BY <1>8, <1>9, <1>10, <1>11, <1>12, ProgressOf DEF ProgressInv

\* The end of a pass that asks for no other one. When no new version has come while
\* it ran, it has changed nothing, and what it has found is what is stored.
LEMMA PassEnds ==
    ASSUME NEW m \in Machines, NEW r, TypeOK, InductiveInv, Progress, PatchStatus(m, r),
           m \notin queue', cache'[m] = api'[m]
    PROVE  /\ ~Deleting(api'[m])
           /\ api'[m].phase = "live" /\ Ready(m) => Attended(m, api'[m])
  <1> DEFINE obj == PatchStatusOf(m)
             err == Errs(m, r, StatusChanges(m), FALSE)
  <1>1. /\ pc[m] = "status" /\ m \notin queue /\ ~requeue[m] /\ ~err
    BY DEF PatchStatus
  <1>2. StatusChanges(m) \in BOOLEAN
    BY DEF StatusChanges
  <1>3. Call(m, r, StatusChanges(m), FALSE, obj)
    BY DEF PatchStatus
  <1>4. /\ UNCHANGED cache
        /\ IF StatusChanges(m) THEN api'[m] = Stored(obj) /\ Exists(api[m])
                               ELSE api'[m] = api[m]
    <2> HIDE DEF obj
    <2> QED BY <1>1, <1>2, <1>3, CallStores
  <1>5. /\ obj \in Object /\ obj.phase = api[m].phase /\ obj.finalizer = api[m].finalizer
        /\ obj.providerID = api[m].providerID
        /\ obj.deployedCond = api[m].deployedCond /\ obj.dnsCond = api[m].dnsCond
        /\ obj.ready = Patched(api[m].ready, before[m].ready, after[m].ready)
        /\ obj.deployment = Patched(api[m].deployment, before[m].deployment, after[m].deployment)
        /\ obj.dnsAttached =
              Patched(api[m].dnsAttached, before[m].dnsAttached, after[m].dnsAttached)
    <2>1. api[m] \in Object
      BY DEF TypeOK
    <2>2. obj \in Object
      BY PatchedTypes
    <2> QED
      BY <2>1, <2>2 DEF PatchStatusOf, Object
  <1>6. Stored(obj).phase # "gone" => Stored(obj) = obj
    <2> HIDE DEF obj
    <2> QED BY <1>5, StoredCases
  <1> HIDE DEF obj, err
  <1>7. /\ ProgressInv(m) /\ before[m].phase \in {"live", "deleting"}
        /\ before[m].finalizer \in BOOLEAN /\ after[m] \in Object
    BY <1>1, PassFacts DEF TypeOK, Object
  <1>8. api'[m] = before[m]
    BY <1>1, <1>4, <1>7 DEF ProgressInv, FreshInv
  <1>9. ~Deleting(before[m])
    <2> SUFFICES ASSUME Deleting(before[m]) PROVE FALSE
      OBVIOUS
    <2>1. api[m].phase = "gone"
      BY <1>1, <1>7 DEF ProgressInv, GoingInv
    <2> QED
      BY <1>4, <1>8, <2>1 DEF Exists, Deleting
  <1>10. /\ before[m].phase = "live"
         /\ IF StatusChanges(m) THEN api'[m] = obj ELSE api'[m] = api[m]
    BY <1>4, <1>6, <1>7, <1>8, <1>9 DEF Deleting
  <1>11. /\ api[m].phase # "gone"
         /\ api[m].finalizer
         /\ Sent(before[m].providerID, after[m].providerID, api[m].providerID)
         /\ Sent(before[m].deployedCond, after[m].deployedCond, api[m].deployedCond)
         /\ Sent(before[m].dnsCond, after[m].dnsCond, api[m].dnsCond)
    BY <1>1, <1>5, <1>7, <1>8, <1>10 DEF ProgressInv, SentInv
  <1>12. /\ before[m].finalizer
         /\ after[m].providerID = api'[m].providerID
         /\ after[m].deployedCond = api'[m].deployedCond
         /\ after[m].dnsCond = api'[m].dnsCond
    BY <1>5, <1>8, <1>10, <1>11 DEF Sent
  <1>13. /\ after[m].ready = api'[m].ready
         /\ after[m].deployment = api'[m].deployment
         /\ after[m].dnsAttached = api'[m].dnsAttached
    BY <1>5, <1>8, <1>10 DEF StatusChanges, Patched
  <1>14. ASSUME Ready(m) PROVE Attended(m, api'[m])
    <2>1. Attended(m, after[m])
      BY <1>1, <1>7, <1>10, <1>12, <1>14 DEF ProgressInv, DoneInv, Patching
    <2> QED
      BY <1>12, <1>13, <2>1 DEF Attended, Reported, Attached
  <1> QED
    BY <1>8, <1>9, <1>14

LEMMA PatchStatusProgress ==
    ASSUME UniqueNames, NEW m \in Machines, NEW r, TypeOK, InductiveInv, Progress,
           PatchStatus(m, r)
    PROVE  Progress'
  <1> DEFINE obj == PatchStatusOf(m)
  <1>1. /\ pc'[m] = "idle" /\ before'[m] = Blank("none")
        /\ \A k \in Machines \ {m} :
              SamePass(k) /\ requeue'[k] = requeue[k] /\ (k \in queue' <=> k \in queue)
    BY DEF PatchStatus, SamePass, TypeOK
  <1>2. StatusChanges(m) \in BOOLEAN
    BY DEF StatusChanges
  <1>3. Call(m, r, StatusChanges(m), FALSE, obj)
    BY DEF PatchStatus
  <1>4. /\ UNCHANGED <<cache, world, backends>>
        /\ \A k \in Machines \ {m} : api'[k] = api[k]
        /\ api'[m] = api[m] \/ (api'[m] = Stored(obj) /\ Exists(api[m]))
    <2> HIDE DEF obj
    <2> QED BY <1>2, <1>3, CallStores
  <1>5. obj \in Object
    BY PatchedTypes
  <1>6. Deleting(Stored(obj)) => Stored(obj).finalizer
    <2> HIDE DEF obj
    <2> QED BY <1>5, StoredCases
  <1> HIDE DEF obj
  <1>7. ProgressInv(m) /\ Blank("none").phase = "none"
    BY DEF Progress, Blank
  <1>8. GoingInv(m)' /\ FreshInv(m)' /\ ReadingInv(m)' /\ DoneInv(m)' /\ SentInv(m)'
    BY <1>1, <1>4, <1>6, <1>7
       DEF ProgressInv, GoingInv, FreshInv, ReadingInv, DoneInv, SentInv, Patching, Deleting
  <1>9. RestInv(m)'
    <2> SUFFICES ASSUME m \notin queue', cache'[m] = api'[m]
                 PROVE  /\ ~Deleting(api'[m])
                        /\ api'[m].phase = "live" /\ Ready(m)' => Attended(m, api[m])'
      BY DEF RestInv, Resting
    <2>1. /\ ~Deleting(api'[m])
          /\ api'[m].phase = "live" /\ Ready(m) => Attended(m, api'[m])
      BY PassEnds
    <2> QED
      BY <1>4, <2>1 DEF Ready, Attended, Reported, Attached, world, backends
  <1>10. \A k \in Machines \ {m} : Undisturbed(k)
    BY <1>1, <1>4, OthersUndisturbed DEF backends
  <1> QED
    BY <1>8, <1>9, <1>10, ProgressOf DEF ProgressInv

-----------------------------------------------------------------------------
LEMMA WriteProgress ==
    ASSUME UniqueNames, NEW m \in Machines, TypeOK, InductiveInv, Progress,
           Create(m) \/ SetOwner(m) \/ Delete(m)
    PROVE  Progress'
  <1>1. UNCHANGED <<cache, world, backends, queue, passes>> /\ api[m] \in Object
    BY DEF Create, SetOwner, Delete, Write, TypeOK
  <1>2. /\ ProgressInv(m) /\ CacheInv(m)
        /\ pc[m] # "idle" => api[m].phase \in {"live", "deleting", "gone"}
    BY DEF Progress, InductiveInv, PassInv
  <1>3. PICK obj \in Object :
             /\ api' = [api EXCEPT ![m] = Stored(obj)]
             /\ \/ api[m].phase = "none" /\ obj.phase = "unowned"
                \/ /\ \/ api[m].phase = "unowned" /\ obj.phase = "live"
                      \/ api[m].phase \in {"unowned", "live"} /\ obj.phase = "deleting"
                   /\ obj.finalizer = api[m].finalizer
                   /\ obj.providerID = api[m].providerID
                   /\ obj.deployedCond = api[m].deployedCond
                   /\ obj.dnsCond = api[m].dnsCond
    <2>1. CASE Create(m)
      <3>1. Blank("unowned") \in Object /\ Blank("unowned").phase = "unowned"
        BY BlankType DEF Blank, Phases
      <3> QED
        BY <2>1, <3>1 DEF Create, Write
    <2>2. CASE SetOwner(m)
      <3> DEFINE obj == [api[m] EXCEPT !.phase = "live"]
      <3>1. /\ obj \in Object /\ obj.phase = "live" /\ obj.finalizer = api[m].finalizer
            /\ obj.providerID = api[m].providerID
            /\ obj.deployedCond = api[m].deployedCond /\ obj.dnsCond = api[m].dnsCond
        BY <1>1 DEF Object, Phases
      <3>2. api[m].phase = "unowned" /\ api' = [api EXCEPT ![m] = Stored(obj)]
        BY <2>2 DEF SetOwner, Write
      <3> HIDE DEF obj
      <3> QED
        BY <3>1, <3>2
    <2>3. CASE Delete(m)
      <3> DEFINE obj == [api[m] EXCEPT !.phase = "deleting"]
      <3>1. /\ obj \in Object /\ obj.phase = "deleting" /\ obj.finalizer = api[m].finalizer
            /\ obj.providerID = api[m].providerID
            /\ obj.deployedCond = api[m].deployedCond /\ obj.dnsCond = api[m].dnsCond
        BY <1>1 DEF Object, Phases
      <3>2. api[m].phase \in {"unowned", "live"} /\ api' = [api EXCEPT ![m] = Stored(obj)]
        BY <2>3 DEF Delete, Write
      <3> HIDE DEF obj
      <3> QED
        BY <3>1, <3>2
    <2> QED
      BY <2>1, <2>2, <2>3
  <1>4. /\ api'[m] = Stored(obj)
        /\ \A k \in Machines \ {m} : api'[k] = api[k]
    BY <1>3 DEF TypeOK
  <1>5. /\ Deleting(Stored(obj)) => Stored(obj).finalizer
        /\ Stored(obj).phase \in {obj.phase, "gone"}
        /\ obj.finalizer => Stored(obj) = obj
        /\ Stored(obj).phase # "gone" => Stored(obj) = obj
    BY StoredCases
  <1>6. FreshInv(m)' /\ ReadingInv(m)' /\ DoneInv(m)'
    BY <1>1, <1>2
       DEF ProgressInv, FreshInv, ReadingInv, DoneInv, Attended, Reported, Attached, Ready,
           world, backends, passes
  <1>7. GoingInv(m)'
    BY <1>1, <1>2, <1>3, <1>4, <1>5 DEF ProgressInv, GoingInv, passes
  <1>8. SentInv(m)'
    BY <1>1, <1>2, <1>3, <1>4, <1>5 DEF ProgressInv, SentInv, Sent, passes
  <1>9. RestInv(m)'
    <2>1. cache[m] = api'[m] => api'[m].phase \notin {"live", "deleting"}
      BY <1>2, <1>3, <1>4, <1>5 DEF CacheInv
    <2> QED
      BY <1>1, <2>1 DEF RestInv, Resting, Deleting
  <1>10. \A k \in Machines \ {m} : Undisturbed(k)
    BY <1>1, <1>4, OthersUndisturbed DEF SamePass, backends, passes
  <1> QED
    BY <1>6, <1>7, <1>8, <1>9, <1>10, ProgressOf DEF ProgressInv

LEMMA SyncProgress ==
    ASSUME UniqueNames, NEW m \in Machines, TypeOK, Progress, CacheSync(m)
    PROVE  Progress'
  <1>1. /\ UNCHANGED <<api, world, backends, passes>> /\ cache'[m] = api[m]
        /\ \A k \in Machines \ {m} : cache'[k] = cache[k]
        /\ queue' = queue \cup {m}
    BY DEF CacheSync, TypeOK
  <1>2. ProgressInv(m)
    BY DEF Progress
  <1>3. ProgressInv(m)'
    BY <1>1, <1>2
       DEF ProgressInv, GoingInv, FreshInv, ReadingInv, DoneInv, SentInv, RestInv, Resting,
           Reported, Attached, backends, passes
  <1>4. \A k \in Machines \ {m} : Undisturbed(k)
    BY <1>1, OthersUndisturbed DEF SamePass, backends, passes
  <1> QED
    BY <1>3, <1>4, ProgressOf
-----------------------------------------------------------------------------
\* What makes a machine ready, or frees the controller, queues every machine.
LEMMA WorldProgress ==
    ASSUME TypeOK, Progress,
           \/ UNCHANGED vars
           \/ Resync \/ ClusterStep \/ Unpause \/ ApiServerUp
           \/ Pause \/ Removal \/ ApiServerDown
           \/ \E m \in Machines : BootstrapReady(m) \/ SetFailureDomain(m)
           \/ \E n \in Names : DeploymentStep(n) \/ NodeJoins(n) \/ DeploymentStalls(n)
    PROVE  Progress'
  <1> SUFFICES ASSUME NEW k \in Machines PROVE Undisturbed(k)
    BY UndisturbedProgress DEF Progress
  <1>1. Name[k] \in Names /\ jobs \in [Names -> Job]
    BY NameAssumption DEF TypeOK
  <1>2. /\ UNCHANGED <<objects, passes, services>>
        /\ jobs'[Name[k]].registered = jobs[Name[k]].registered
        /\ jobs'[Name[k]].deployment = jobs[Name[k]].deployment
        /\ NodeSettled(k) => NodeSettled(k)'
        /\ queue \subseteq queue'
    <2>1. ASSUME NEW n \in Names, DeploymentStep(n) \/ DeploymentStalls(n)
          PROVE  /\ jobs'[Name[k]].registered = jobs[Name[k]].registered
                 /\ jobs'[Name[k]].deployment = jobs[Name[k]].deployment
      <3>1. PICK s : jobs' = [jobs EXCEPT ![n].status = s]
        BY <2>1 DEF DeploymentStep, DeploymentStalls
      <3> QED
        BY <1>1, <3>1 DEF Job
    <2>2. ASSUME NEW n \in Names, NodeJoins(n)
          PROVE  NodeSettled(k) => NodeSettled(k)'
      BY <1>1, <2>2 DEF NodeJoins, NodeSettled, TypeOK
    <2> QED
      BY <2>1, <2>2
         DEF vars, Resync, ClusterStep, Unpause, ApiServerUp, Pause, Removal, ApiServerDown,
             BootstrapReady, SetFailureDomain, DeploymentStep, DeploymentStalls, NodeJoins,
             NodeSettled, objects, passes, backends
  <1>3. \/ k \in queue' \/ ~Exists(cache[k])
        \/ (Ready(k)' => Ready(k)) /\ (Unheld' => Unheld)
    BY DEF vars, world, Resync, ClusterStep, Unpause, ApiServerUp, Pause, Removal,
           ApiServerDown, BootstrapReady, SetFailureDomain, DeploymentStep, DeploymentStalls,
           NodeJoins, Ready, Unheld
  <1> QED
    BY <1>2, <1>3 DEF Undisturbed, Same, SamePass, SameBackends, objects, passes

LEMMA NobodyPauses ==
    ASSUME "pause" \notin Disturbances, ~paused, [Next]_vars PROVE ~paused'
  <1>1. ASSUME NEW m \in Machines, NEW r, RemoteCall(m, r) PROVE paused' = paused
    BY <1>1 DEF RemoteCall, Register, DNS, ReleaseMachine, SetNodeProviderID, PatchConds,
                PatchSpec, PatchStatus, Call, world
  <1>2. ASSUME NEW m \in Machines, Controller(m) \/ Environment(m) PROVE paused' = paused
    BY <1>1, <1>2
       DEF Controller, Begin, Ignore, BeginDelete, AddFinalizer, Wait, BeginDeploy, Open,
           Dequeue, Evaluate, SkipDNS, NotOperational, PanicAtLookup, PanicBeforeRegister, Restart,
           Environment, Create, SetOwner, Delete, Write, CacheSync, BootstrapReady,
           SetFailureDomain, world
  <1>3. CASE Normal
    BY <1>2, <1>3
       DEF Normal, DeploymentStep, NodeJoins, Resync, ClusterStep, Unpause, ApiServerUp, world
  <1>4. CASE Disturbance
    BY <1>1, <1>4
       DEF Disturbance, LookupFails, vars, SecretFails, EvaluationFails, PanicAfterRegister,
           Crash, Restart, Pause, Removal,
           ApiServerDown, DeploymentStalls, world
  <1> QED
    BY <1>3, <1>4 DEF Next, vars, world

LEMMA NextProgress ==
    ASSUME UniqueNames, TypeOK, InductiveInv, Progress, [Next]_vars PROVE Progress'
  <1>1. ASSUME NEW m \in Machines, NEW r \in Outcomes \cup {"ok"}, RemoteCall(m, r)
        PROVE  Progress'
    BY <1>1, RegisterProgress, DNSProgress, ReleaseProgress, NodeProgress,
       PatchCondsProgress, PatchSpecProgress, PatchStatusProgress
       DEF RemoteCall
  <1>2. ASSUME NEW m \in Machines, Controller(m) \/ Environment(m) PROVE Progress'
    BY <1>1, <1>2, BeginProgress, EvaluateProgress, DNSProgress, NodeProgress,
       RelistProgress, WriteProgress, SyncProgress, WorldProgress
       DEF Controller, PanicAtLookup, PanicBeforeRegister, Restart, Environment
  <1>3. CASE Normal
    BY <1>2, <1>3, WorldProgress DEF Normal
  <1>4. CASE Disturbance
    BY <1>1, <1>4, EvaluateProgress, RelistProgress, WorldProgress
       DEF Disturbance, LookupFails, PanicAfterRegister, Crash, Restart
  <1> QED
    BY <1>3, <1>4, WorldProgress DEF Next

LEMMA ProgressInvariant == ASSUME UniqueNames PROVE Spec => []Progress
  <1>1. Init => Progress
    BY InitProgress
  <1>2. TypeOK /\ InductiveInv /\ Progress /\ [Next]_vars => Progress'
    BY NextProgress
  <1> QED
    BY <1>1, <1>2, TypeCorrect, Inductive, PTL DEF Spec

-----------------------------------------------------------------------------
\* A machine that is being deleted, in a cluster that is there and not paused, is
\* never left without a pass that runs or is asked for, or an event on its way.
THEOREM DeletionNeverRests == ASSUME UniqueNames PROVE Spec => []DeletionGoesOn
  <1>1. Progress => DeletionGoesOn
    BY DEF Progress, ProgressInv, RestInv, Unheld, DeletionGoesOn
  <1> QED
    BY <1>1, ProgressInvariant, PTL

\* A machine of a cluster that is ready is left alone only when it has its job, its
\* service and its Node, and says so.
THEOREM RestIsEarned == ASSUME UniqueNames PROVE Spec => []LeftAloneWhenDone
  <1>1. Progress /\ DNSAttachedHonest => LeftAloneWhenDone
    BY DEF Progress, ProgressInv, RestInv, Unheld, Ready, Attended, Attached,
           DNSAttachedHonest, LeftAloneWhenDone
  <1> QED
    BY <1>1, ProgressInvariant, AttachmentHonest, PTL
=============================================================================
