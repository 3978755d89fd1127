------------------------- MODULE NomadClusterProofs -------------------------
(***************************************************************************)
(* Proofs about NomadCluster: it is well typed; a Cluster has at most one   *)
(* goroutine that polls it, and has one exactly if it is in                 *)
(* apiServerTriggers; nothing is written of a NomadCluster before its       *)
(* finalizer is; at rest, the failure domains of its status are as listed.  *)
(***************************************************************************)
EXTENDS NomadCluster, TLAPS

-----------------------------------------------------------------------------
(* Well-typedness *)

LEMMA BlankType == \A p \in Phases : Blank(p) \in Object
  BY DEF Blank, Object, Availabilities

LEMMA StoredType == \A o \in Object : Stored(o) \in Object
  BY BlankType DEF Stored, Phases

LEMMA NewOwnerType == NewOwner \in Owner
  BY DEF NewOwner, Owner

LEMMA InitType == Init => TypeOK
  <1>1. Blank("none") \in Object
    BY BlankType DEF Phases
  <1> QED
    BY <1>1, NewOwnerType DEF Init, TypeOK, PCs

LEMMA ObjectTypes ==
    ASSUME NEW c \in Clusters, TypeOK
    PROVE  api[c] \in Object /\ cache[c] \in Object /\ before[c] \in Object
           /\ after[c] \in Object /\ owner[c] \in Owner
  BY DEF TypeOK

\* Its failure domains are all that a pass changes of what it has read, at first.
LEMMA ReadType ==
    ASSUME NEW c \in Clusters, TypeOK
    PROVE  /\ Read(c) \in Object
           /\ Read(c).phase = cache[c].phase
           /\ Read(c).finalizer = cache[c].finalizer
  BY ObjectTypes DEF Read, Object

LEMMA BeginType == ASSUME NEW c \in Clusters, TypeOK, Begin(c) PROVE TypeOK'
  <1> USE ObjectTypes DEF Dequeue, objects, world, passes, pollers
  <1>1. CASE Ignore(c)
    BY <1>1 DEF Ignore, TypeOK
  <1>2. ASSUME NEW to \in PCs, NEW obj \in Object, Open(c, to, obj) PROVE TypeOK'
    <2>1. (IF to = "trigger" THEN owner[c] ELSE NewOwner) \in Owner
      BY NewOwnerType
    <2> QED
      BY <1>2, <2>1 DEF Open, TypeOK
  <1>3. CASE Delete(c)
    <2>1. [Read(c) EXCEPT !.finalizer = FALSE] \in Object
      BY ReadType DEF Object
    <2> QED
      BY <1>2, <1>3, <2>1 DEF Delete, PCs
  <1>4. CASE AddFinalizer(c)
    <2>1. [Read(c) EXCEPT !.finalizer = TRUE] \in Object
      BY ReadType DEF Object
    <2> QED
      BY <1>2, <1>4, <2>1 DEF AddFinalizer, PCs
  <1>5. CASE SetEndpoint(c)
    <2>1. [Read(c) EXCEPT !.endpoint = TRUE, !.ready = TRUE] \in Object
      BY ReadType DEF Object
    <2> QED
      BY <1>2, <1>5, <2>1 DEF SetEndpoint, PCs
  <1> QED
    BY <1>1, <1>3, <1>4, <1>5 DEF Begin

LEMMA ProceedType ==
    ASSUME NEW c \in Clusters, NEW to \in PCs, NEW obj \in Object, TypeOK,
           Proceed(c, to, obj),
           UNCHANGED pollers \/ \E g \in Goroutines : StartPolling(c, g)
    PROVE  TypeOK'
  BY NewOwnerType DEF Proceed, TypeOK, StartPolling, pollers, objects, world

LEMMA TriggerType == ASSUME NEW c \in Clusters, TypeOK, Trigger(c) PROVE TypeOK'
  <1>1. Proceed(c, "check", after[c])
        /\ (UNCHANGED pollers \/ \E g \in Goroutines : StartPolling(c, g))
    BY DEF Trigger, SkipTrigger, SkipPolled, StartPolling
  <1> QED
    BY <1>1, ObjectTypes, ProceedType DEF PCs

LEMMA CheckType == ASSUME NEW c \in Clusters, TypeOK, Check(c) PROVE TypeOK'
  <1>1. [after[c] EXCEPT !.available = IF Reachable(c) THEN "True" ELSE "False"] \in Object
    BY ObjectTypes DEF Object, Availabilities
  <1> QED
    BY <1>1, ProceedType DEF Check, PCs

LEMMA GoroutineType == ASSUME NEW g \in Goroutines, TypeOK, Goroutine(g) PROVE TypeOK'
  BY DEF Goroutine, EndPolling, Send, Forget, TypeOK, objects, world, passes

\* Each call of a patch writes a well typed object.
LEMMA PatchedObjectTypes ==
    ASSUME NEW c \in Clusters, TypeOK
    PROVE  PatchCondsOf(c) \in Object /\ PatchSpecOf(c) \in Object
           /\ PatchStatusOf(c) \in Object
  <1>1. PatchCondsOf(c) \in Object
    BY ObjectTypes DEF PatchCondsOf, Patched, Object
  <1>2. PatchSpecOf(c) \in Object
    BY ObjectTypes DEF PatchSpecOf, Patched, Object
  <1>3. PatchStatusOf(c) \in Object
    BY ObjectTypes DEF PatchStatusOf, Patched, PatchedKeys, Object
  <1> QED
    BY <1>1, <1>2, <1>3

LEMMA CallType ==
    ASSUME NEW c \in Clusters, NEW r, NEW changes \in BOOLEAN, NEW obj \in Object,
           TypeOK, Call(c, r, changes, obj)
    PROVE  api' \in [Clusters -> Object]
  BY StoredType DEF Call, TypeOK

LEMMA PatchType == ASSUME NEW c \in Clusters, NEW r, TypeOK, Patch(c, r) PROVE TypeOK'
  <1> DEFINE Conds == CondsChange(c)
             Specs == SpecChanges(c)
             Statuses == StatusChanges(c)
  <1>1. /\ Conds \in BOOLEAN /\ Specs \in BOOLEAN /\ Statuses \in BOOLEAN
        /\ Errs(c, r, Conds) \in BOOLEAN /\ Errs(c, r, Specs) \in BOOLEAN
    BY DEF CondsChange, SpecChanges, StatusChanges, Errs
  <1>2. requeue[c] \in BOOLEAN
    BY DEF TypeOK
  <1>3. CASE PatchConds(c, r)
    <2>1. api' \in [Clusters -> Object]
      BY <1>1, <1>3, CallType, PatchedObjectTypes DEF PatchConds
    <2> QED
      BY <1>1, <1>2, <1>3, <2>1 DEF PatchConds, Call, TypeOK, PCs, world, pollers
  <1>4. CASE PatchSpec(c, r)
    <2>1. api' \in [Clusters -> Object]
      BY <1>1, <1>4, CallType, PatchedObjectTypes DEF PatchSpec
    <2> QED
      BY <1>1, <1>2, <1>4, <2>1 DEF PatchSpec, Call, TypeOK, PCs, world, pollers
  <1>5. CASE PatchStatus(c, r)
    <2>1. api' \in [Clusters -> Object]
      BY <1>1, <1>5, CallType, PatchedObjectTypes DEF PatchStatus
    <2>2. Blank("none") \in Object /\ NewOwner \in Owner
      BY BlankType DEF Phases, NewOwner, Owner
    <2> QED
      BY <1>5, <2>1, <2>2 DEF PatchStatus, Call, TypeOK, PCs, world, pollers
  <1> QED
    BY <1>3, <1>4, <1>5 DEF Patch

\* A call of the patch may end a deletion, and moves no phase otherwise.
LEMMA PatchPhase ==
    ASSUME NEW c \in Clusters, NEW r, TypeOK, Patch(c, r), NEW d \in Clusters
    PROVE  \/ api'[d].phase = api[d].phase
           \/ api[d].phase = "deleting" /\ api'[d].phase = "gone"
  <1>1. PICK obj \in {PatchCondsOf(c), PatchSpecOf(c), PatchStatusOf(c)} :
           api' = api \/ api' = [api EXCEPT ![c] = Stored(obj)]
    BY DEF Patch, PatchConds, PatchSpec, PatchStatus, Call
  <1>2. obj.phase = api[c].phase
    BY ObjectTypes DEF PatchCondsOf, PatchSpecOf, PatchStatusOf, Object
  <1> QED
    BY <1>1, <1>2 DEF Stored, Deleting, Blank, TypeOK

LEMMA WriteType ==
    ASSUME NEW c \in Clusters, NEW obj \in Object, TypeOK, Write(c, obj)
    PROVE  TypeOK'
  BY StoredType DEF Write, TypeOK, world, passes, pollers

LEMMA EnvironmentType ==
    ASSUME NEW c \in Clusters, TypeOK,
           Environment(c) \/ Deliver(c) \/ ApiServerDown(c) \/ EditDomains(c)
    PROVE  TypeOK'
  <1> USE DEF objects, world, passes, pollers
  <1>1. CASE Create(c) \/ SetOwner(c) \/ DeleteObject(c) \/ EditDomains(c)
    <2>1. /\ \A D \in SUBSET Domains :
                /\ [Blank("unowned") EXCEPT !.listed = D] \in Object
                /\ [api[c] EXCEPT !.listed = D] \in Object
          /\ [api[c] EXCEPT !.phase = "live"] \in Object
          /\ [api[c] EXCEPT !.phase = "deleting"] \in Object
      BY BlankType, ObjectTypes DEF Object, Phases
    <2> QED
      BY <1>1, <2>1, WriteType DEF Create, SetOwner, DeleteObject, EditDomains
  <1>2. CASE CacheSync(c)
    BY <1>2 DEF CacheSync, TypeOK
  <1>3. CASE Event(c) \/ Deliver(c) \/ ApiServerUp(c) \/ ApiServerDown(c)
    BY <1>3 DEF Event, Deliver, ApiServerUp, ApiServerDown, TypeOK
  <1>4. CASE DeleteCluster(c)
    BY <1>4, ObjectTypes DEF DeleteCluster, TypeOK, Owner
  <1>5. CASE Initialize(c)
    BY <1>5, ObjectTypes DEF Initialize, TypeOK, Owner
  <1> QED
    BY <1>1, <1>2, <1>3, <1>4, <1>5 DEF Environment

LEMMA CrashType == TypeOK /\ Crash => TypeOK'
  <1>1. Blank("none") \in Object /\ NewOwner \in Owner
    BY BlankType DEF Phases, NewOwner, Owner
  <1> QED
    BY <1>1 DEF Crash, Restart, TypeOK, PCs, world

\* The actions of a step, one by one.
LEMMA Steps ==
    ASSUME Next
    PROVE  \/ \E c \in Clusters :
                \/ Begin(c) \/ Trigger(c) \/ Check(c)
                \/ \E r \in Outcomes : Patch(c, r)
                \/ Environment(c) \/ Deliver(c) \/ ApiServerDown(c) \/ EditDomains(c)
           \/ \E g \in Goroutines : Goroutine(g)
           \/ Crash
           \/ UNCHANGED vars
  BY DEF Next, Normal, Disturbance, Pass, Outcomes, LookupFails

LEMMA NextType == TypeOK /\ [Next]_vars => TypeOK'
  <1> SUFFICES ASSUME TypeOK, [Next]_vars PROVE TypeOK'
    OBVIOUS
  <1>1. CASE UNCHANGED vars
    BY <1>1 DEF vars, TypeOK, objects, world, passes, pollers
  <1>2. CASE Next
    BY <1>1, <1>2, Steps, BeginType, TriggerType, CheckType, PatchType, EnvironmentType,
       GoroutineType, CrashType
  <1> QED
    BY <1>1, <1>2

\* Every variable keeps its type, for any clusters and any disturbances.
THEOREM TypeCorrect == Spec => []TypeOK
  <1> QED
    BY InitType, NextType, PTL DEF Spec

-----------------------------------------------------------------------------
(* The goroutines. A new one starts only for a Cluster that is not in       *)
(* triggers, so none runs for it, and the entry goes with the goroutine that *)
(* it was made with: there is no other.                                      *)

PollerInv == OnePoller /\ TriggersHavePollers

\* A goroutine that goes on or stops, with or without its map entry.
LEMMA SamePollers ==
    ASSUME PollerInv, UNCHANGED <<triggers, polled>>,
           \A g \in Goroutines : gpc'[g] = "free" <=> gpc[g] = "free"
    PROVE  PollerInv'
  BY DEF PollerInv, OnePoller, TriggersHavePollers, Running

LEMMA StartPollingInv ==
    ASSUME TypeOK, PollerInv, NEW c \in Clusters, NEW g \in Goroutines,
           StartPolling(c, g)
    PROVE  PollerInv'
  <1>1. /\ \A h \in Goroutines \ {g} : gpc'[h] = gpc[h] /\ polled'[h] = polled[h]
        /\ gpc'[g] = "polling" /\ polled'[g] = c
    BY DEF StartPolling, TypeOK
  <1>2. Running' = Running \cup {g} /\ g \notin Running
    BY <1>1 DEF Running, StartPolling
  <1>3. \A h \in Running : polled[h] # c
    BY DEF StartPolling, PollerInv, TriggersHavePollers
  <1>4. \A h \in Running : polled'[h] = polled[h]
    BY <1>1, <1>2 DEF Running
  <1>5. OnePoller'
    BY <1>1, <1>2, <1>3, <1>4 DEF PollerInv, OnePoller
  <1>6. TriggersHavePollers'
    BY <1>1, <1>2, <1>4 DEF PollerInv, TriggersHavePollers, StartPolling
  <1> QED
    BY <1>5, <1>6 DEF PollerInv

LEMMA ForgetInv ==
    ASSUME TypeOK, PollerInv, NEW g \in Goroutines, Forget(g) PROVE PollerInv'
  <1>1. Running' = Running \ {g} /\ g \in Running /\ polled' = polled
    BY DEF Running, Forget, TypeOK
  <1>2. OnePoller'
    BY <1>1 DEF PollerInv, OnePoller
  <1>3. triggers' = triggers \ {polled[g]}
    BY DEF Forget
  <1>4. \A h \in Running \ {g} : polled[h] # polled[g]
    BY <1>1 DEF PollerInv, OnePoller
  <1>5. TriggersHavePollers'
    BY <1>1, <1>3, <1>4 DEF PollerInv, TriggersHavePollers
  <1> QED
    BY <1>2, <1>5 DEF PollerInv

LEMMA GoroutineInv ==
    ASSUME TypeOK, PollerInv, NEW g \in Goroutines, Goroutine(g) PROVE PollerInv'
  <1>1. CASE EndPolling(g)
    BY <1>1, SamePollers DEF EndPolling, TypeOK
  <1>2. CASE Send(g)
    BY <1>2, SamePollers DEF Send, TypeOK
  <1>3. CASE Forget(g)
    BY <1>3, ForgetInv
  <1> QED
    BY <1>1, <1>2, <1>3 DEF Goroutine

LEMMA PollerInit == Init => PollerInv
  BY DEF Init, PollerInv, OnePoller, TriggersHavePollers, Running

\* Who touches the goroutines, their map and the channel.
LEMMA PollerSteps ==
    ASSUME Next
    PROVE  \/ UNCHANGED <<pollers, inbox>>
           \/ \E c \in Clusters : Deliver(c)
           \/ \E c \in Clusters, g \in Goroutines : StartPolling(c, g)
           \/ \E g \in Goroutines : Goroutine(g)
           \/ Crash
  <1>1. ASSUME NEW c \in Clusters, Begin(c) PROVE UNCHANGED <<pollers, inbox>>
    BY <1>1 DEF Begin, Ignore, Delete, AddFinalizer, SetEndpoint, Open, Dequeue, pollers
  <1>2. ASSUME NEW c \in Clusters, NEW r, Patch(c, r) PROVE UNCHANGED <<pollers, inbox>>
    BY <1>2 DEF Patch, PatchConds, PatchSpec, PatchStatus, Call, pollers
  <1>3. ASSUME NEW c \in Clusters, Environment(c) \/ ApiServerDown(c) \/ EditDomains(c)
        PROVE  UNCHANGED <<pollers, inbox>>
    BY <1>3 DEF Environment, EditDomains, Create, SetOwner, DeleteObject, Write, CacheSync,
                Event, DeleteCluster, Initialize, ApiServerUp, ApiServerDown, pollers
  <1>4. ASSUME NEW c \in Clusters, Trigger(c) \/ Check(c)
        PROVE  UNCHANGED <<pollers, inbox>> \/ \E g \in Goroutines : StartPolling(c, g)
    BY <1>4 DEF Trigger, SkipTrigger, SkipPolled, Check, Proceed, pollers
  <1> QED
    BY <1>1, <1>2, <1>3, <1>4, Steps DEF vars

LEMMA PollerNext == TypeOK /\ PollerInv /\ [Next]_vars => PollerInv'
  <1> SUFFICES ASSUME TypeOK, PollerInv, [Next]_vars PROVE PollerInv'
    OBVIOUS
  <1>1. CASE UNCHANGED pollers
    BY <1>1, SamePollers DEF pollers
  <1>2. ASSUME NEW c \in Clusters, Deliver(c) PROVE PollerInv'
    BY <1>1, <1>2 DEF Deliver
  <1>3. CASE Crash
    BY <1>3 DEF Crash, Restart, PollerInv, OnePoller, TriggersHavePollers, Running
  <1>4. CASE UNCHANGED vars
    BY <1>1, <1>4 DEF vars
  <1> QED
    BY <1>1, <1>2, <1>3, <1>4, PollerSteps, StartPollingInv, GoroutineInv

\* No two goroutines ever poll for the same Cluster.
THEOREM AtMostOnePoller == Spec => []OnePoller
  <1>1. Spec => []PollerInv
    BY PollerInit, PollerNext, TypeCorrect, PTL DEF Spec
  <1>2. PollerInv => OnePoller
    BY DEF PollerInv
  <1> QED
    BY <1>1, <1>2, PTL

\* No entry of apiServerTriggers outlives its goroutine or is missing for one.
THEOREM NoLeakedTrigger == Spec => []TriggersHavePollers
  <1>1. Spec => []PollerInv
    BY PollerInit, PollerNext, TypeCorrect, PTL DEF Spec
  <1>2. PollerInv => TriggersHavePollers
    BY DEF PollerInv
  <1> QED
    BY <1>1, <1>2, PTL

\* No two goroutines poll for one cluster, so what one does to its cluster's entry,
\* no other sees.
LEMMA OwnPolled ==
    ASSUME TypeOK, PollerInv, NEW g \in Goroutines, gpc[g] # "free",
           NEW step \in {"polling", "sending", "forgetting"},
           UNCHANGED polled, gpc' = [gpc EXCEPT ![g] = step]
    PROVE  /\ PolledAt(step)' = PolledAt(step) \cup {polled[g]}
           /\ \A s \in {"polling", "sending", "forgetting"} \ {step} :
                 PolledAt(s)' = PolledAt(s) \ {polled[g]}
  <1>1. \A h \in Goroutines \ {g} :
           gpc'[h] = gpc[h] /\ (gpc[h] # "free" => polled[h] # polled[g])
    BY DEF TypeOK, PollerInv, OnePoller, Running
  <1>2. gpc'[g] = step
    BY DEF TypeOK
  <1> QED
    BY <1>1, <1>2 DEF PolledAt

LEMMA GoroutineStep ==
    ASSUME TypeOK, PollerInv, NEW g \in Goroutines, Goroutine(g) PROVE Polling!Next
  <1>1. polled[g] \in Clusters
    BY DEF TypeOK
  <1>2. CASE EndPolling(g)
    <2>1. /\ gpc[g] = "polling" /\ polled' = polled
          /\ gpc' = [gpc EXCEPT ![g] = "sending"]
      BY <1>2 DEF EndPolling
    <2>2. /\ PolledAt("sending")' = PolledAt("sending") \cup {polled[g]}
          /\ PolledAt("polling")' = PolledAt("polling") \ {polled[g]}
      BY <2>1, OwnPolled
    <2>3. polled[g] \in PolledAt("polling")
      BY <2>1 DEF PolledAt
    <2> QED
      BY <1>1, <1>2, <2>2, <2>3 DEF EndPolling, Polling!Next, Polling!EndPolling
  <1>3. CASE Send(g)
    <2>1. /\ gpc[g] = "sending" /\ polled' = polled
          /\ gpc' = [gpc EXCEPT ![g] = "forgetting"]
      BY <1>3 DEF Send
    <2>2. /\ PolledAt("sending")' = PolledAt("sending") \ {polled[g]}
          /\ PolledAt("polling")' = PolledAt("polling") \ {polled[g]}
      BY <2>1, OwnPolled
    <2>3. polled[g] \in PolledAt("sending") \ PolledAt("polling")
      BY <2>1 DEF PolledAt, PollerInv, OnePoller, Running
    <2> QED
      BY <1>1, <1>3, <2>2, <2>3 DEF Send, Polling!Next, Polling!Send
  <1>4. CASE Forget(g)
    <2>1. /\ PolledAt("polling")' = PolledAt("polling")
          /\ PolledAt("sending")' = PolledAt("sending")
      BY <1>4 DEF Forget, PolledAt, TypeOK
    <2>2. polled[g] \in triggers \ (PolledAt("polling") \cup PolledAt("sending"))
      BY <1>4 DEF Forget, PolledAt, PollerInv, OnePoller, TriggersHavePollers, Running
    <2> QED
      BY <1>1, <1>4, <2>1, <2>2 DEF Forget, Polling!Next, Polling!Forget
  <1> QED
    BY <1>2, <1>3, <1>4 DEF Goroutine

LEMMA StartStep ==
    ASSUME TypeOK, NEW c \in Clusters, NEW g \in Goroutines, StartPolling(c, g)
    PROVE  Polling!Start(c)
  <1>1. /\ \A h \in Goroutines \ {g} : gpc'[h] = gpc[h] /\ polled'[h] = polled[h]
        /\ gpc[g] = "free" /\ gpc'[g] = "polling" /\ polled'[g] = c
    BY DEF StartPolling, TypeOK
  <1>2. /\ PolledAt("polling")' = PolledAt("polling") \cup {c}
        /\ PolledAt("sending")' = PolledAt("sending")
    BY <1>1 DEF PolledAt
  <1> QED
    BY <1>2 DEF StartPolling, Proceed, Polling!Start

LEMMA PollingStep ==
    ASSUME TypeOK, PollerInv, [Next]_vars PROVE [Polling!Next]_(Polling!vars)
  <1>1. CASE UNCHANGED <<pollers, inbox>>
    BY <1>1 DEF pollers, Polling!vars, PolledAt
  <1>2. ASSUME NEW c \in Clusters, Deliver(c) PROVE Polling!Next
    BY <1>2 DEF Deliver, pollers, PolledAt, Polling!Next, Polling!Receive
  <1>3. CASE Crash
    BY <1>3 DEF Crash, Restart, PolledAt, Polling!Next, Polling!Restart
  <1>4. ASSUME NEW c \in Clusters, NEW g \in Goroutines, StartPolling(c, g)
        PROVE  Polling!Next
    BY <1>4, StartStep DEF Polling!Next
  <1> QED
    BY <1>1, <1>2, <1>3, <1>4, PollerSteps, GoroutineStep DEF vars

\* The passes and the goroutines start, notify and end the polling as
\* ApiServerPolling says.
THEOREM PollingRefinement == Spec => RefinesApiServerPolling
  <1>1. Init => Polling!Init
    BY DEF Init, Polling!Init, PolledAt
  <1>2. Spec => []PollerInv
    BY PollerInit, PollerNext, TypeCorrect, PTL DEF Spec
  <1> QED
    BY <1>1, <1>2, PollingStep, TypeCorrect, PTL
       DEF Spec, RefinesApiServerPolling, Polling!Spec

-----------------------------------------------------------------------------
(* The finalizer. Everything is about one cluster; a step of another leaves  *)
(* what the invariant is about alone (Same).                                 *)

FinalizerInv(c) ==
    /\ CacheInv(c)
    /\ PassInv(c)
    /\ api[c].endpoint \/ api[c].ready \/ api[c].available # "none" => api[c].finalizer

SamePass(c) ==
    /\ pc'[c] = pc[c]
    /\ before'[c] = before[c]
    /\ after'[c] = after[c]

Same(c) == api'[c] = api[c] /\ cache'[c] = cache[c] /\ SamePass(c)

LEMMA SameInv == ASSUME NEW c \in Clusters, FinalizerInv(c), Same(c) PROVE FinalizerInv(c)'
  BY DEF FinalizerInv, CacheInv, PassInv, Same, SamePass

LEMMA FinalizerInit == Init => \A c \in Clusters : FinalizerInv(c)
  BY DEF Init, FinalizerInv, CacheInv, PassInv, Blank

LEMMA OpenInv ==
    ASSUME NEW c \in Clusters, NEW to, NEW obj, TypeOK, Open(c, to, obj)
    PROVE  /\ pc'[c] = to /\ before'[c] = cache[c] /\ after'[c] = obj
           /\ api' = api /\ cache' = cache /\ pc[c] = "idle"
           /\ \A d \in Clusters \ {c} : Same(d)
  BY DEF Open, Dequeue, Idle, TypeOK, Same, SamePass, objects

LEMMA BeginInv ==
    ASSUME NEW c \in Clusters, TypeOK, FinalizerInv(c), Begin(c)
    PROVE  FinalizerInv(c)' /\ \A d \in Clusters \ {c} : Same(d)
  <1>1. CASE Ignore(c)
    BY <1>1, SameInv DEF Ignore, Dequeue, Same, SamePass, objects, passes
  <1>2. CASE ~Ignore(c)
    <2> DEFINE given == [Read(c) EXCEPT !.finalizer = FALSE]
               taken == [Read(c) EXCEPT !.finalizer = TRUE]
               ended == [Read(c) EXCEPT !.endpoint = TRUE, !.ready = TRUE]
    <2>1. /\ before'[c] = cache[c]
          /\ api' = api /\ cache' = cache
          /\ \A d \in Clusters \ {c} : Same(d)
          /\ \/ pc'[c] = "conds" /\ cache[c].phase = "deleting" /\ after'[c] = given
             \/ /\ pc'[c] = "conds" /\ after'[c] = taken
                /\ cache[c].phase = "live" /\ ~cache[c].finalizer
             \/ /\ pc'[c] = "trigger" /\ after'[c] = ended
                /\ cache[c].phase = "live" /\ cache[c].finalizer
      BY <1>2, OpenInv DEF Begin, Delete, Deleting, AddFinalizer, SetEndpoint
    <2>2. taken.finalizer /\ ended.finalizer = cache[c].finalizer
      BY ReadType DEF Object
    <2>3. CacheInv(c)' /\ (api[c].endpoint \/ api[c].ready \/ api[c].available # "none"
                              => api[c].finalizer)'
      BY <2>1 DEF FinalizerInv, CacheInv
    <2>4. PassInv(c)'
      <3> HIDE DEF given, taken, ended
      <3>1. CASE after'[c] = given /\ cache[c].phase = "deleting" /\ pc'[c] = "conds"
        <4>1. given = [cache[c] EXCEPT !.finalizer = FALSE, !.domains = cache[c].listed]
          BY ObjectTypes DEF given, Read, Object
        <4> QED
          BY <2>1, <3>1, <4>1 DEF FinalizerInv, CacheInv, PassInv
      <3>2. CASE after'[c] = taken /\ cache[c].phase = "live" /\ ~cache[c].finalizer
                 /\ pc'[c] = "conds"
        <4>1. taken = [cache[c] EXCEPT !.finalizer = TRUE, !.domains = cache[c].listed]
          BY ObjectTypes DEF taken, Read, Object
        <4> QED
          BY <2>1, <2>2, <3>2, <4>1 DEF FinalizerInv, CacheInv, PassInv
      <3>3. CASE after'[c] = ended /\ cache[c].phase = "live" /\ cache[c].finalizer
        BY <2>1, <2>2, <3>3 DEF FinalizerInv, CacheInv, PassInv
      <3> QED
        BY <2>1, <3>1, <3>2, <3>3
    <2> QED
      BY <2>1, <2>3, <2>4 DEF FinalizerInv
  <1> QED
    BY <1>1, <1>2

\* Past the start, "trigger" and "check" only come for a live cluster.
LEMMA ProceedInv ==
    ASSUME NEW c \in Clusters, TypeOK, FinalizerInv(c), Trigger(c) \/ Check(c)
    PROVE  FinalizerInv(c)' /\ \A d \in Clusters \ {c} : Same(d)
  <1> DEFINE looked == [after[c] EXCEPT !.available = IF Reachable(c) THEN "True" ELSE "False"]
  <1>1. /\ pc[c] \in {"trigger", "check"}
        /\ Proceed(c, "check", after[c]) \/ Proceed(c, "conds", looked)
    BY DEF Trigger, Check, SkipTrigger, SkipPolled, StartPolling
  <1>2. /\ pc'[c] \in {"check", "conds"}
        /\ after'[c] = after[c] \/ after'[c] = looked
        /\ UNCHANGED <<api, cache, before>>
        /\ \A d \in Clusters \ {c} : Same(d)
    BY <1>1 DEF Proceed, TypeOK, objects, Same, SamePass
  <1>3. after'[c].finalizer = after[c].finalizer
    BY <1>2, ObjectTypes DEF Object
  <1>4. before[c].phase = "live" /\ before[c].finalizer
    BY <1>1 DEF FinalizerInv, PassInv
  <1> QED
    BY <1>1, <1>2, <1>3, <1>4 DEF FinalizerInv, CacheInv, PassInv

\* What a pass has to send beyond its finalizer and the failure domains, it has
\* only with the finalizer seen.
LEMMA Sends ==
    ASSUME NEW c \in Clusters, TypeOK, PassInv(c), pc[c] # "idle",
           \/ CondsChange(c) \/ before[c].ready # after[c].ready
           \/ before[c].endpoint # after[c].endpoint
    PROVE  before[c].phase = "live" /\ before[c].finalizer /\ api[c].finalizer
  <1>1. before[c] \in Object
    BY ObjectTypes
  <1>2. before[c].phase \in {"live", "deleting"}
    BY DEF PassInv
  <1>3. CASE after[c] = [before[c] EXCEPT !.finalizer = FALSE, !.domains = before[c].listed]
    BY <1>1, <1>3 DEF CondsChange, Object
  <1>4. CASE after[c] = [before[c] EXCEPT !.finalizer = TRUE, !.domains = before[c].listed]
    BY <1>1, <1>4 DEF CondsChange, Object
  <1> QED
    BY <1>2, <1>3, <1>4 DEF PassInv

\* A call of the patch changes no more than failure domains, ends a deletion, or
\* comes of a pass over a live cluster and leaves the object with our finalizer.
Patches(c) ==
    \/ SameButDomains(api'[c], api[c])
    \/ api'[c] = Blank("gone") /\ before[c].phase = "deleting"
    \/ /\ before[c].phase = "live"
       /\ api'[c].phase = api[c].phase
       /\ api[c].phase \in {"live", "deleting"}
       /\ api'[c].finalizer

LEMMA CallPatches ==
    ASSUME NEW c \in Clusters, NEW r, NEW changes, NEW obj \in Object, TypeOK,
           FinalizerInv(c), pc[c] # "idle", Call(c, r, changes, obj),
           obj.phase = api[c].phase,
           changes => \/ before[c].phase = "live" /\ obj.finalizer
                      \/ before[c].phase = "deleting" /\ ~obj.finalizer
                      \/ SameButDomains(obj, api[c])
    PROVE  Patches(c)
  <1>1. CASE ~changes \/ ~Exists(api[c])
    BY <1>1 DEF Call, Patches, SameButDomains
  <1>2. CASE changes /\ Exists(api[c])
    <2>1. api[c].phase \in {"live", "deleting"}
      BY <1>2 DEF FinalizerInv, PassInv, Exists
    <2>2. api'[c] = api[c] \/ api'[c] = Stored(obj)
      BY DEF Call, TypeOK
    <2>3. before[c].phase = "deleting" => api[c].phase = "deleting"
      BY <2>1 DEF FinalizerInv, PassInv, CacheInv
    <2>4. CASE SameButDomains(obj, api[c])
      <3>1. Stored(obj) = obj
        BY <2>4 DEF FinalizerInv, CacheInv, Stored, Deleting, SameButDomains
      <3> QED
        BY <2>2, <2>4, <3>1 DEF Patches, SameButDomains
    <2>5. CASE api'[c] = Stored(obj) /\ ~SameButDomains(obj, api[c])
      BY <1>2, <2>1, <2>3, <2>5 DEF Stored, Deleting, Patches
    <2> QED
      BY <2>2, <2>4, <2>5 DEF Patches, SameButDomains
  <1> QED
    BY <1>1, <1>2

LEMMA PatchPatches ==
    ASSUME NEW c \in Clusters, NEW r, TypeOK, FinalizerInv(c), Patch(c, r)
    PROVE  Patches(c)
  <1>1. pc[c] # "idle"
    BY DEF Patch, PatchConds, PatchSpec, PatchStatus
  <1>2. api[c] \in Object /\ PassInv(c)
    BY ObjectTypes DEF FinalizerInv
  <1>3. CASE PatchConds(c, r)
    <2>1. PatchCondsOf(c).phase = api[c].phase
          /\ PatchCondsOf(c).finalizer = api[c].finalizer
      BY <1>2 DEF PatchCondsOf, Object
    <2> QED
      BY <1>1, <1>2, <1>3, <2>1, Sends, CallPatches, PatchedObjectTypes DEF PatchConds
  <1>4. CASE PatchSpec(c, r)
    <2>1. /\ PatchSpecOf(c).phase = api[c].phase
          /\ PatchSpecOf(c).finalizer =
                Patched(api[c].finalizer, before[c].finalizer, after[c].finalizer)
      BY <1>2 DEF PatchSpecOf, Object
    <2>2. CASE before[c].phase = "live"
      <3>1. PatchSpecOf(c).finalizer
        BY <1>1, <1>2, <2>1, <2>2 DEF PassInv, Patched
      <3> QED
        BY <1>1, <1>4, <2>1, <2>2, <3>1, CallPatches, PatchedObjectTypes DEF PatchSpec
    <2>3. CASE before[c].phase = "deleting"
      <3>1. /\ after[c] = [before[c] EXCEPT !.finalizer = FALSE, !.domains = before[c].listed]
            /\ before[c] \in Object
        BY <1>1, <1>2, <2>3, ObjectTypes DEF PassInv
      <3>2. SpecChanges(c) => ~PatchSpecOf(c).finalizer
        BY <2>1, <3>1 DEF SpecChanges, Patched, Object
      <3> QED
        BY <1>1, <1>4, <2>1, <2>3, <3>2, CallPatches, PatchedObjectTypes DEF PatchSpec
    <2> QED
      BY <1>1, <1>2, <2>2, <2>3 DEF PassInv
  <1>5. CASE PatchStatus(c, r)
    <2>1. PatchStatusOf(c).phase = api[c].phase
          /\ PatchStatusOf(c).finalizer = api[c].finalizer
      BY <1>2 DEF PatchStatusOf, Object
    <2>2. before[c].ready = after[c].ready => SameButDomains(PatchStatusOf(c), api[c])
      BY <1>2 DEF PatchStatusOf, SameButDomains, Patched, Object
    <2> QED
      BY <1>1, <1>2, <1>5, <2>1, <2>2, Sends, CallPatches, PatchedObjectTypes DEF PatchStatus
  <1> QED
    BY <1>3, <1>4, <1>5 DEF Patch

LEMMA PatchInv ==
    ASSUME NEW c \in Clusters, NEW r, TypeOK, FinalizerInv(c), Patch(c, r)
    PROVE  FinalizerInv(c)' /\ \A d \in Clusters \ {c} : Same(d)
  <1>1. Patches(c)
    BY PatchPatches
  <1>2. pc[c] \in {"conds", "spec", "status"}
    BY DEF Patch, PatchConds, PatchSpec, PatchStatus
  <1>3. /\ cache' = cache
        /\ \/ pc'[c] = "idle"
           \/ pc'[c] \in {"spec", "status"} /\ UNCHANGED <<before, after>>
        /\ \A d \in Clusters \ {c} : Same(d)
    BY DEF Patch, PatchConds, PatchSpec, PatchStatus, Call, TypeOK, Same, SamePass
  <1>4. CacheInv(c)'
    BY <1>1, <1>2, <1>3 DEF FinalizerInv, CacheInv, PassInv, Patches, SameButDomains, Blank
  <1>5. PassInv(c)'
    <2>1. CASE pc'[c] = "idle"
      BY <2>1 DEF PassInv
    <2>2. CASE pc'[c] \in {"spec", "status"} /\ UNCHANGED <<before, after>>
      <3>1. /\ api'[c].phase \in {"live", "deleting", "gone"}
            /\ before[c].phase = "live" /\ before[c].finalizer => api'[c].finalizer
        BY <1>1, <1>2 DEF FinalizerInv, PassInv, Patches, SameButDomains, Blank
      <3> QED
        BY <1>2, <1>3, <2>2, <3>1 DEF FinalizerInv, PassInv
    <2> QED
      BY <1>3, <2>1, <2>2
  <1>6. (api[c].endpoint \/ api[c].ready \/ api[c].available # "none" => api[c].finalizer)'
    BY <1>1 DEF FinalizerInv, Patches, SameButDomains, Blank
  <1> QED
    BY <1>3, <1>4, <1>5, <1>6 DEF FinalizerInv

\* Others write only the phase and the listed failure domains of the object.
LEMMA WriteInv ==
    ASSUME NEW c \in Clusters, NEW obj, TypeOK, FinalizerInv(c), Write(c, obj),
           obj.finalizer = api[c].finalizer,
           obj.endpoint = api[c].endpoint,
           obj.ready = api[c].ready,
           obj.available = api[c].available,
           \/ api[c].phase = "none" /\ obj.phase = "unowned"
           \/ api[c].phase = "unowned" /\ obj.phase \in {"live", "deleting"}
           \/ api[c].phase = "live" /\ obj.phase = "deleting"
           \/ obj.phase = api[c].phase
    PROVE  FinalizerInv(c)' /\ \A d \in Clusters \ {c} : Same(d)
  <1>1. UNCHANGED <<cache, pc, before, after>> /\ \A d \in Clusters \ {c} : Same(d)
    BY DEF Write, TypeOK, passes, Same, SamePass
  <1>2. CASE Deleting(obj) /\ ~obj.finalizer
    <2>1. api'[c] = Blank("gone")
      BY <1>2 DEF Write, TypeOK, Stored
    <2> QED
      BY <1>1, <1>2, <2>1 DEF FinalizerInv, CacheInv, PassInv, Blank, Deleting
  <1>3. CASE ~(Deleting(obj) /\ ~obj.finalizer)
    <2>1. api'[c] = obj
      BY <1>3 DEF Write, TypeOK, Stored
    <2> QED
      BY <1>1, <1>3, <2>1 DEF FinalizerInv, CacheInv, PassInv, Deleting
  <1> QED
    BY <1>2, <1>3

LEMMA EnvironmentInv ==
    ASSUME NEW c \in Clusters, TypeOK, FinalizerInv(c),
           Environment(c) \/ Deliver(c) \/ ApiServerDown(c) \/ EditDomains(c)
    PROVE  FinalizerInv(c)' /\ \A d \in Clusters \ {c} : Same(d)
  <1>1. CASE Create(c) \/ SetOwner(c) \/ DeleteObject(c) \/ EditDomains(c)
    <2> DEFINE made(D) == [Blank("unowned") EXCEPT !.listed = D]
               edited(D) == [api[c] EXCEPT !.listed = D]
               owned == [api[c] EXCEPT !.phase = "live"]
               deleted == [api[c] EXCEPT !.phase = "deleting"]
    <2>1. CASE Create(c)
      <3>1. PICK D \in SUBSET Domains : Write(c, made(D)) /\ api[c].phase = "none"
        BY <2>1 DEF Create
      <3>2. /\ made(D).phase = "unowned" /\ ~made(D).finalizer /\ ~made(D).endpoint
            /\ ~made(D).ready /\ made(D).available = "none"
        BY DEF Blank
      <3>3. /\ ~api[c].finalizer /\ ~api[c].endpoint
            /\ ~api[c].ready /\ api[c].available = "none"
        BY <2>1, ObjectTypes DEF Create, FinalizerInv, CacheInv, Object
      <3>4. /\ made(D).finalizer = api[c].finalizer /\ made(D).endpoint = api[c].endpoint
            /\ made(D).ready = api[c].ready
        BY <3>3, ObjectTypes DEF Object, Blank
      <3> HIDE DEF made
      <3> QED
        BY <3>1, <3>2, <3>3, <3>4, WriteInv
    <2>2. /\ owned.phase = "live" /\ deleted.phase = "deleting"
          /\ \A o \in {owned, deleted} :
                /\ o.finalizer = api[c].finalizer /\ o.endpoint = api[c].endpoint
                /\ o.ready = api[c].ready /\ o.available = api[c].available
      BY ObjectTypes DEF Object
    <2>5. CASE EditDomains(c)
      <3>1. PICK D \in SUBSET Domains : Write(c, edited(D))
        BY <2>5 DEF EditDomains
      <3>2. SameButDomains(edited(D), api[c])
        BY ObjectTypes DEF SameButDomains, Object
      <3> HIDE DEF edited
      <3> QED
        BY <3>1, <3>2, WriteInv DEF SameButDomains
    <2> HIDE DEF owned, deleted
    <2>3. CASE SetOwner(c)
      <3>1. Write(c, owned) /\ api[c].phase = "unowned"
        BY <2>3 DEF SetOwner, owned
      <3> QED
        BY <2>2, <3>1, WriteInv
    <2>4. CASE DeleteObject(c)
      <3>1. Write(c, deleted) /\ api[c].phase \in {"unowned", "live"}
        BY <2>4 DEF DeleteObject, deleted
      <3> QED
        BY <2>2, <3>1, WriteInv
    <2> QED
      BY <1>1, <2>1, <2>3, <2>4, <2>5
  <1>2. CASE CacheSync(c)
    <2>1. /\ cache'[c] = api[c] /\ UNCHANGED <<api, pc, before, after>>
          /\ \A d \in Clusters \ {c} : Same(d)
      BY <1>2 DEF CacheSync, TypeOK, passes, Same, SamePass
    <2> QED
      BY <2>1 DEF FinalizerInv, CacheInv, PassInv
  <1>3. CASE UNCHANGED <<objects, passes>>
    BY <1>3, SameInv DEF objects, passes, Same, SamePass
  <1>4. Event(c) \/ DeleteCluster(c) \/ Initialize(c) \/ ApiServerUp(c) \/ Deliver(c)
           \/ ApiServerDown(c) => UNCHANGED <<objects, passes>>
    BY DEF Event, DeleteCluster, Initialize, ApiServerUp, Deliver, ApiServerDown,
           objects, passes
  <1> QED
    BY <1>1, <1>2, <1>3, <1>4 DEF Environment

AllFinalizerInv == \A c \in Clusters : FinalizerInv(c)

LEMMA FinalizerNext == TypeOK /\ AllFinalizerInv /\ [Next]_vars => AllFinalizerInv'
  <1> SUFFICES ASSUME TypeOK, AllFinalizerInv, [Next]_vars PROVE AllFinalizerInv'
    OBVIOUS
  <1>1. ASSUME NEW c \in Clusters, FinalizerInv(c)', \A d \in Clusters \ {c} : Same(d)
        PROVE  AllFinalizerInv'
    BY <1>1, SameInv DEF AllFinalizerInv
  <1>2. ASSUME NEW g \in Goroutines, Goroutine(g) PROVE AllFinalizerInv'
    BY <1>2, SameInv DEF AllFinalizerInv, Goroutine, EndPolling, Send, Forget,
                         objects, passes, Same, SamePass
  <1>3. CASE Crash
    BY <1>3 DEF AllFinalizerInv, FinalizerInv, CacheInv, PassInv, Crash, Restart
  <1>4. CASE UNCHANGED vars
    BY <1>4, SameInv DEF AllFinalizerInv, vars, objects, passes, Same, SamePass
  <1>5. \A c \in Clusters : FinalizerInv(c)
    BY DEF AllFinalizerInv
  <1> QED
    BY <1>1, <1>2, <1>3, <1>4, <1>5, Steps, BeginInv, ProceedInv, PatchInv, EnvironmentInv

\* Whatever a pass has read, nothing is stored of a NomadCluster that does not
\* have the provider's finalizer.
THEOREM FinalizerIsFirst == Spec => []FinalizerFirst
  <1>1. Init => AllFinalizerInv
    BY FinalizerInit DEF AllFinalizerInv
  <1>2. AllFinalizerInv => FinalizerFirst
    BY DEF AllFinalizerInv, FinalizerInv, FinalizerFirst
  <1> QED
    BY <1>1, <1>2, FinalizerNext, TypeCorrect, PTL DEF Spec

-----------------------------------------------------------------------------
(* The failure domains. A pass that nothing has queued again works with what *)
(* the cache still shows. So if the stored domains then are what it has read, *)
(* it has changed none, and had none to change.                              *)

AllDomainsInv == \A c \in Clusters : DomainsInv(c)

Keeps(c) == Same(c) /\ (c \in queue => c \in queue')

LEMMA KeepsDomains ==
    ASSUME NEW c \in Clusters, DomainsInv(c), Keeps(c) PROVE DomainsInv(c)'
  BY DEF DomainsInv, Keeps, Same, SamePass

LEMMA DomainsInit == Init => AllDomainsInv
  BY DEF Init, AllDomainsInv, DomainsInv, Blank

\* Nothing but the start of its own pass takes a cluster out of the queue.
LEMMA QueueKept ==
    ASSUME NEW c \in Clusters,
           \/ Begin(c) \/ Trigger(c) \/ Check(c)
           \/ \E r \in Outcomes : Patch(c, r)
           \/ Environment(c) \/ Deliver(c) \/ ApiServerDown(c) \/ EditDomains(c)
    PROVE  queue \ {c} \subseteq queue'
  <1>1. Begin(c) => queue \ {c} \subseteq queue'
    BY DEF Begin, Ignore, Delete, AddFinalizer, SetEndpoint, Open, Dequeue
  <1>2. Trigger(c) \/ Check(c) => queue \ {c} \subseteq queue'
    BY DEF Trigger, SkipTrigger, SkipPolled, StartPolling, Check, Proceed
  <1>3. (\E r \in Outcomes : Patch(c, r)) => queue \ {c} \subseteq queue'
    BY DEF Patch, PatchConds, PatchSpec, PatchStatus
  <1>4. Environment(c) \/ Deliver(c) \/ ApiServerDown(c) \/ EditDomains(c)
           => queue \ {c} \subseteq queue'
    BY DEF Environment, Create, SetOwner, DeleteObject, EditDomains, Write, CacheSync, Event,
           DeleteCluster, Initialize, ApiServerUp, Deliver, ApiServerDown
  <1> QED
    BY <1>1, <1>2, <1>3, <1>4

LEMMA BeginDomains ==
    ASSUME NEW c \in Clusters, TypeOK, DomainsInv(c), Begin(c) PROVE DomainsInv(c)'
  <1>1. CASE Ignore(c)
    BY <1>1 DEF Ignore, Dequeue, Idle, passes, objects, DomainsInv
  <1>2. CASE ~Ignore(c)
    <2>1. /\ Read(c).domains = cache[c].listed
          /\ Read(c) \in Object
      BY ReadType, ObjectTypes DEF Read, Object
    <2>2. PICK to \in PCs \ {"idle"}, obj \in Object :
              Open(c, to, obj) /\ obj.domains = cache[c].listed
      <3>1. \A o \in {[Read(c) EXCEPT !.finalizer = FALSE], [Read(c) EXCEPT !.finalizer = TRUE],
                       [Read(c) EXCEPT !.endpoint = TRUE, !.ready = TRUE]} :
                o \in Object /\ o.domains = cache[c].listed
        BY <2>1 DEF Object
      <3> QED
        BY <1>2, <3>1 DEF Begin, Delete, AddFinalizer, SetEndpoint, PCs
    <2> QED
      BY <2>2, OpenInv DEF DomainsInv
  <1> QED
    BY <1>1, <1>2

LEMMA ProceedDomains ==
    ASSUME NEW c \in Clusters, TypeOK, DomainsInv(c), Trigger(c) \/ Check(c)
    PROVE  DomainsInv(c)'
  <1> DEFINE looked == [after[c] EXCEPT !.available = IF Reachable(c) THEN "True" ELSE "False"]
  <1>1. /\ pc[c] \in {"trigger", "check"}
        /\ Proceed(c, "check", after[c]) \/ Proceed(c, "conds", looked)
    BY DEF Trigger, Check, SkipTrigger, SkipPolled, StartPolling
  <1>2. looked.domains = after[c].domains
    BY ObjectTypes DEF Object
  <1>3. /\ pc'[c] \in {"check", "conds"} /\ after'[c].domains = after[c].domains
        /\ UNCHANGED <<queue, cache, before>>
    BY <1>1, <1>2 DEF Proceed, TypeOK, objects
  <1> QED
    BY <1>1, <1>3 DEF DomainsInv

LEMMA PatchDomains ==
    ASSUME NEW c \in Clusters, NEW r, TypeOK, DomainsInv(c), Patch(c, r)
    PROVE  DomainsInv(c)'
  <1>1. CASE PatchConds(c, r) \/ PatchSpec(c, r)
    <2>1. /\ pc[c] # "idle" /\ pc'[c] # "idle"
          /\ UNCHANGED <<queue, cache, before, after>>
      BY <1>1 DEF PatchConds, PatchSpec, Call, TypeOK
    <2> QED
      BY <2>1 DEF DomainsInv
  <1>2. CASE PatchStatus(c, r)
    <2>1. pc[c] = "status" /\ pc'[c] = "idle" /\ cache' = cache
      BY <1>2 DEF PatchStatus, Call, TypeOK
    <2>2. SUFFICES ASSUME c \notin queue', api'[c].phase = "live",
                          api'[c].domains = cache[c].domains
                   PROVE  cache[c].domains = cache[c].listed
      BY <2>1 DEF DomainsInv
    <2>3. c \notin queue /\ ~Errs(c, r, StatusChanges(c))
      BY <1>2, <2>2 DEF PatchStatus
    <2>4. cache[c] = before[c] /\ after[c].domains = before[c].listed
      BY <2>1, <2>3 DEF DomainsInv
    <2>5. CASE ~StatusChanges(c)
      BY <2>4, <2>5 DEF StatusChanges
    <2>6. CASE StatusChanges(c)
      <3>1. api'[c] = Stored(PatchStatusOf(c))
        BY <1>2, <2>3, <2>6 DEF PatchStatus, Call, Errs, Happens, TypeOK
      <3>2. Stored(PatchStatusOf(c)) = PatchStatusOf(c)
        BY <2>2, <3>1 DEF Stored, Blank
      <3>3. before[c].domains = PatchedKeys(api[c].domains, before[c].domains, after[c].domains)
        BY <2>2, <2>4, <3>1, <3>2, ObjectTypes DEF PatchStatusOf, Object
      <3>4. before[c].domains = after[c].domains
        BY <3>3 DEF PatchedKeys
      <3> QED
        BY <2>4, <3>4
    <2> QED
      BY <2>5, <2>6
  <1> QED
    BY <1>1, <1>2 DEF Patch

LEMMA EnvironmentDomains ==
    ASSUME NEW c \in Clusters, TypeOK, CacheInv(c), DomainsInv(c),
           Environment(c) \/ Deliver(c) \/ ApiServerDown(c) \/ EditDomains(c)
    PROVE  DomainsInv(c)'
  <1>1. ASSUME NEW obj \in Object, Write(c, obj),
               \/ obj.phase # "live" \/ cache[c].phase # "live"
               \/ obj.phase = api[c].phase /\ obj.domains = api[c].domains
        PROVE  DomainsInv(c)'
    <2>1. UNCHANGED <<cache, queue, pc, before, after>>
      BY <1>1 DEF Write, passes
    <2>2. api'[c] = obj \/ api'[c].phase = "gone"
      BY <1>1 DEF Write, Stored, Blank, TypeOK
    <2> QED
      BY <1>1, <2>1, <2>2 DEF DomainsInv
  <1>2. CASE Create(c)
    <2>1. PICK D \in SUBSET Domains : Write(c, [Blank("unowned") EXCEPT !.listed = D])
      BY <1>2 DEF Create
    <2>2. /\ [Blank("unowned") EXCEPT !.listed = D] \in Object
          /\ [Blank("unowned") EXCEPT !.listed = D].phase = "unowned"
      BY BlankType DEF Blank, Object, Phases
    <2> QED
      BY <1>1, <2>1, <2>2
  <1>3. CASE SetOwner(c)
    <2>1. [api[c] EXCEPT !.phase = "live"] \in Object
      BY ObjectTypes DEF Object, Phases
    <2>2. cache[c].phase # "live"
      BY <1>3 DEF SetOwner, CacheInv
    <2> QED
      BY <1>1, <1>3, <2>1, <2>2 DEF SetOwner
  <1>4. CASE DeleteObject(c)
    <2>1. /\ [api[c] EXCEPT !.phase = "deleting"] \in Object
          /\ [api[c] EXCEPT !.phase = "deleting"].phase = "deleting"
      BY ObjectTypes DEF Object, Phases
    <2> QED
      BY <1>1, <1>4, <2>1 DEF DeleteObject
  <1>5. CASE EditDomains(c)
    <2>1. PICK D \in SUBSET Domains : Write(c, [api[c] EXCEPT !.listed = D])
      BY <1>5 DEF EditDomains
    <2>2. /\ [api[c] EXCEPT !.listed = D] \in Object
          /\ [api[c] EXCEPT !.listed = D].phase = api[c].phase
          /\ [api[c] EXCEPT !.listed = D].domains = api[c].domains
      BY ObjectTypes DEF Object
    <2> QED
      BY <1>1, <2>1, <2>2
  <1>6. CASE CacheSync(c)
    BY <1>6 DEF CacheSync, DomainsInv, passes
  <1>7. CASE Event(c) \/ DeleteCluster(c) \/ Initialize(c) \/ ApiServerUp(c) \/ Deliver(c)
             \/ ApiServerDown(c)
    BY <1>7, KeepsDomains DEF Event, DeleteCluster, Initialize, ApiServerUp, Deliver,
       ApiServerDown, objects, passes, Keeps, Same, SamePass
  <1> QED
    BY <1>2, <1>3, <1>4, <1>5, <1>6, <1>7 DEF Environment

LEMMA DomainsNext ==
    TypeOK /\ AllFinalizerInv /\ AllDomainsInv /\ [Next]_vars => AllDomainsInv'
  <1> SUFFICES ASSUME TypeOK, AllFinalizerInv, AllDomainsInv, [Next]_vars
               PROVE  AllDomainsInv'
    OBVIOUS
  <1>1. ASSUME NEW c \in Clusters, DomainsInv(c)', queue \ {c} \subseteq queue',
               \A d \in Clusters \ {c} : Same(d)
        PROVE  AllDomainsInv'
    <2>1. \A d \in Clusters \ {c} : Keeps(d)
      BY <1>1 DEF Keeps
    <2> QED
      BY <1>1, <2>1, KeepsDomains DEF AllDomainsInv
  <1>2. ASSUME NEW g \in Goroutines, Goroutine(g) PROVE AllDomainsInv'
    BY <1>2, KeepsDomains DEF AllDomainsInv, Goroutine, EndPolling, Send, Forget,
                              objects, passes, Keeps, Same, SamePass
  <1>3. CASE Crash
    BY <1>3 DEF AllDomainsInv, DomainsInv, Crash, Restart, Exists
  <1>4. CASE UNCHANGED vars
    BY <1>4, KeepsDomains DEF AllDomainsInv, vars, objects, passes, Keeps, Same, SamePass
  <1>5. \A c \in Clusters : FinalizerInv(c) /\ CacheInv(c) /\ DomainsInv(c)
    BY DEF AllFinalizerInv, AllDomainsInv, FinalizerInv
  <1>6. ASSUME NEW c \in Clusters, Begin(c) PROVE AllDomainsInv'
    BY <1>1, <1>5, <1>6, BeginInv, BeginDomains, QueueKept
  <1>7. ASSUME NEW c \in Clusters, Trigger(c) \/ Check(c) PROVE AllDomainsInv'
    BY <1>1, <1>5, <1>7, ProceedInv, ProceedDomains, QueueKept
  <1>8. ASSUME NEW c \in Clusters, NEW r \in Outcomes, Patch(c, r) PROVE AllDomainsInv'
    BY <1>1, <1>5, <1>8, PatchInv, PatchDomains, QueueKept
  <1>9. ASSUME NEW c \in Clusters,
               Environment(c) \/ Deliver(c) \/ ApiServerDown(c) \/ EditDomains(c)
        PROVE  AllDomainsInv'
    BY <1>1, <1>5, <1>9, EnvironmentInv, EnvironmentDomains, QueueKept
  <1> QED
    BY <1>2, <1>3, <1>4, <1>6, <1>7, <1>8, <1>9, Steps

\* Whatever old copies the passes have worked with, at rest the status lists the
\* failure domains that the user has listed.
THEOREM DomainsSettle == Spec => []DomainsCurrent
  <1>1. Init => AllFinalizerInv
    BY FinalizerInit DEF AllFinalizerInv
  <1>2. AllDomainsInv => DomainsCurrent
    BY DEF AllDomainsInv, DomainsInv, DomainsCurrent, Resting
  <1> QED
    BY <1>1, <1>2, FinalizerNext, DomainsInit, DomainsNext, TypeCorrect, PTL DEF Spec

-----------------------------------------------------------------------------
(* The deletion. A pass that nothing has queued again has read what the cache *)
(* shows, so if that is being deleted it gives the finalizer up, with success *)
(* or with an error that asks for another pass.                               *)

LEMMA StoredCases ==
    ASSUME NEW o \in Object
    PROVE  /\ Deleting(o) /\ ~o.finalizer => Stored(o).phase = "gone"
           /\ ~(Deleting(o) /\ ~o.finalizer) => Stored(o) = o
           /\ Stored(o).phase # "gone" => Stored(o) = o
  BY DEF Stored, Blank

\* What a call of the patch leaves, and what it has stored when it has no error.
LEMMA CallStores ==
    ASSUME NEW c \in Clusters, NEW r, NEW changes \in BOOLEAN, NEW obj, TypeOK,
           Call(c, r, changes, obj)
    PROVE  /\ UNCHANGED <<cache, world, inbox, pollers>>
           /\ \A d \in Clusters \ {c} : api'[d] = api[d]
           /\ api'[c] = api[c] \/ (api'[c] = Stored(obj) /\ Exists(api[c]))
           /\ ~Errs(c, r, changes) =>
                 IF changes THEN api'[c] = Stored(obj) /\ Exists(api[c]) ELSE api'[c] = api[c]
  BY DEF Call, Errs, Happens, TypeOK

\* Nothing happens to c or its pass, and it is not taken out of the queue.
Stays(c) == Keeps(c) /\ requeue'[c] = requeue[c] /\ seen'[c] = seen[c]

LEMMA StaysGoing ==
    ASSUME NEW c \in Clusters, GoingInv(c), Stays(c) PROVE GoingInv(c)'
  BY DEF GoingInv, Stays, Keeps, Same, SamePass

LEMMA GoingInit == Init => \A c \in Clusters : GoingInv(c)
  BY DEF Init, GoingInv, Blank, Deleting

LEMMA BeginStays ==
    ASSUME NEW c \in Clusters, TypeOK, Begin(c) PROVE \A d \in Clusters \ {c} : Stays(d)
  BY DEF Begin, Ignore, Delete, AddFinalizer, SetEndpoint, Open, Dequeue, TypeOK,
         Stays, Keeps, Same, SamePass, objects, passes

LEMMA ProceedStays ==
    ASSUME NEW c \in Clusters, TypeOK, Trigger(c) \/ Check(c)
    PROVE  \A d \in Clusters \ {c} : Stays(d)
  <1>1. PICK to, obj : Proceed(c, to, obj)
    BY DEF Trigger, SkipTrigger, SkipPolled, StartPolling, Check
  <1> QED
    BY <1>1 DEF Proceed, TypeOK, Stays, Keeps, Same, SamePass, objects

LEMMA PatchStays ==
    ASSUME NEW c \in Clusters, NEW r, TypeOK, Patch(c, r)
    PROVE  \A d \in Clusters \ {c} : Stays(d)
  BY DEF Patch, PatchConds, PatchSpec, PatchStatus, Call, TypeOK, Stays, Keeps, Same, SamePass

\* A step of the environment leaves every pass alone, and is about one cluster.
LEMMA EnvironmentStays ==
    ASSUME NEW c \in Clusters, TypeOK,
           Environment(c) \/ Deliver(c) \/ ApiServerDown(c) \/ EditDomains(c)
    PROVE  /\ UNCHANGED passes /\ queue \subseteq queue'
           /\ \A d \in Clusters \ {c} : Stays(d)
  <1>1. CASE \E obj : Write(c, obj)
    BY <1>1 DEF Write, TypeOK, Stays, Keeps, Same, SamePass, passes
  <1>2. CASE CacheSync(c)
    BY <1>2 DEF CacheSync, TypeOK, Stays, Keeps, Same, SamePass, passes
  <1>3. CASE UNCHANGED <<objects, passes>> /\ queue \subseteq queue'
    BY <1>3 DEF Stays, Keeps, Same, SamePass, objects, passes
  <1> QED
    BY <1>1, <1>2, <1>3
       DEF Environment, Create, SetOwner, DeleteObject, EditDomains, Event, DeleteCluster,
           Initialize, ApiServerUp, ApiServerDown, Deliver, objects, passes

\* What others write of a NomadCluster: not the fields of the patches.
LEMMA WriteCases ==
    ASSUME NEW c \in Clusters, TypeOK,
           Environment(c) \/ Deliver(c) \/ ApiServerDown(c) \/ EditDomains(c)
    PROVE  \/ api'[c] = api[c]
           \/ api'[c].phase = "gone" /\ api[c].phase # "gone"
           \/ api[c].phase = "none" /\ api'[c].phase = "unowned"
           \/ /\ \/ api'[c].phase = api[c].phase
                 \/ api[c].phase = "unowned" /\ api'[c].phase = "live"
                 \/ api[c].phase \in {"unowned", "live"} /\ api'[c].phase = "deleting"
              /\ Exists(api[c]) /\ SameButDomains([api'[c] EXCEPT !.phase = api[c].phase], api[c])
              /\ cache' = cache
  <1>1. api[c] \in Object /\ api' \in [Clusters -> Object]
    BY EnvironmentType DEF TypeOK
  <1>2. CASE Create(c)
    <2>1. PICK D \in SUBSET Domains : Write(c, [Blank("unowned") EXCEPT !.listed = D])
      BY <1>2 DEF Create
    <2>2. [Blank("unowned") EXCEPT !.listed = D].phase = "unowned"
      BY DEF Blank
    <2> QED
      BY <1>2, <2>1, <2>2 DEF Create, Write, Stored, Deleting, TypeOK
  <1>3. ASSUME NEW obj \in Object, Write(c, obj),
               SameButDomains([obj EXCEPT !.phase = api[c].phase], api[c]),
               Exists(api[c]),
               \/ obj.phase = api[c].phase
               \/ api[c].phase = "unowned" /\ obj.phase = "live"
               \/ api[c].phase \in {"unowned", "live"} /\ obj.phase = "deleting"
        PROVE  \/ api'[c].phase = "gone" /\ api[c].phase # "gone"
               \/ /\ \/ api'[c].phase = api[c].phase
                     \/ api[c].phase = "unowned" /\ api'[c].phase = "live"
                     \/ api[c].phase \in {"unowned", "live"} /\ api'[c].phase = "deleting"
                  /\ SameButDomains([api'[c] EXCEPT !.phase = api[c].phase], api[c])
                  /\ cache' = cache
    BY <1>3 DEF Write, Stored, Blank, Exists, TypeOK
  <1>4. CASE SetOwner(c)
    <2>1. /\ [api[c] EXCEPT !.phase = "live"] \in Object
          /\ [api[c] EXCEPT !.phase = "live"].phase = "live"
          /\ SameButDomains([[api[c] EXCEPT !.phase = "live"] EXCEPT !.phase = api[c].phase], api[c])
      BY <1>1 DEF Object, Phases, SameButDomains
    <2> QED
      BY <1>3, <1>4, <2>1 DEF SetOwner, Exists
  <1>5. CASE DeleteObject(c)
    <2>1. /\ [api[c] EXCEPT !.phase = "deleting"] \in Object
          /\ [api[c] EXCEPT !.phase = "deleting"].phase = "deleting"
          /\ SameButDomains([[api[c] EXCEPT !.phase = "deleting"] EXCEPT !.phase = api[c].phase],
                            api[c])
      BY <1>1 DEF Object, Phases, SameButDomains
    <2> QED
      BY <1>3, <1>5, <2>1 DEF DeleteObject, Exists
  <1>6. CASE EditDomains(c)
    <2>1. PICK D \in SUBSET Domains : Write(c, [api[c] EXCEPT !.listed = D]) /\ Exists(api[c])
      BY <1>6 DEF EditDomains
    <2>2. /\ [api[c] EXCEPT !.listed = D] \in Object
          /\ [api[c] EXCEPT !.listed = D].phase = api[c].phase
          /\ SameButDomains([[api[c] EXCEPT !.listed = D] EXCEPT !.phase = api[c].phase], api[c])
      BY <1>1 DEF Object, SameButDomains
    <2> QED
      BY <1>3, <2>1, <2>2
  <1>7. CASE UNCHANGED api
    BY <1>7
  <1> QED
    BY <1>2, <1>4, <1>5, <1>6, <1>7
       DEF Environment, CacheSync, Event, DeleteCluster, Initialize, ApiServerUp,
           ApiServerDown, Deliver, objects

LEMMA BeginGoing ==
    ASSUME NEW c \in Clusters, TypeOK, GoingInv(c), Begin(c) PROVE GoingInv(c)'
  <1>1. CASE Ignore(c)
    BY <1>1 DEF Ignore, Dequeue, objects, passes, GoingInv, Deleting
  <1>2. CASE ~Ignore(c)
    <2>1. PICK to \in PCs \ {"idle", "status"} : \E obj : Open(c, to, obj)
      BY <1>2 DEF Begin, Delete, AddFinalizer, SetEndpoint, PCs
    <2> QED
      BY <2>1, OpenInv DEF GoingInv
  <1> QED
    BY <1>1, <1>2

LEMMA ProceedGoing ==
    ASSUME NEW c \in Clusters, TypeOK, GoingInv(c), Trigger(c) \/ Check(c)
    PROVE  GoingInv(c)'
  <1>1. PICK to \in {"check", "conds"} : pc[c] # "idle" /\ \E obj : Proceed(c, to, obj)
    BY DEF Trigger, SkipTrigger, SkipPolled, StartPolling, Check
  <1> QED
    BY <1>1 DEF Proceed, TypeOK, GoingInv, objects

LEMMA PatchGoing ==
    ASSUME NEW c \in Clusters, NEW r, TypeOK, CacheInv(c), PassInv(c), DomainsInv(c),
           GoingInv(c), Patch(c, r)
    PROVE  GoingInv(c)'
  <1>1. CASE PatchConds(c, r)
    BY <1>1 DEF PatchConds, Call, TypeOK, GoingInv
  <1>2. CASE PatchSpec(c, r)
    <2> DEFINE obj == PatchSpecOf(c)
    <2>1. /\ pc[c] = "spec" /\ pc'[c] = "status" /\ UNCHANGED <<cache, before>>
          /\ requeue'[c] = (requeue[c] \/ Errs(c, r, SpecChanges(c)))
      BY <1>2 DEF PatchSpec, Call, TypeOK
    <2>2. /\ obj \in Object /\ obj.phase = api[c].phase
          /\ obj.finalizer = Patched(api[c].finalizer, before[c].finalizer, after[c].finalizer)
      <3>1. api[c] \in Object /\ obj \in Object
        BY PatchedObjectTypes DEF TypeOK
      <3> QED
        BY <3>1 DEF PatchSpecOf, Object
    <2>3. SpecChanges(c) \in BOOLEAN /\ Call(c, r, SpecChanges(c), obj)
      BY <1>2 DEF PatchSpec, SpecChanges
    <2> HIDE DEF obj
    <2>4. ASSUME Deleting(before[c]), ~requeue'[c] PROVE api'[c].phase = "gone"
      <3>1. before[c].finalizer /\ ~after[c].finalizer
        BY <2>1, <2>4, ObjectTypes DEF GoingInv, PassInv, Deleting, Object
      <3>2. SpecChanges(c) /\ ~obj.finalizer /\ ~Errs(c, r, SpecChanges(c))
        BY <2>1, <2>2, <2>4, <3>1 DEF SpecChanges, Patched
      <3>3. api'[c] = Stored(obj) /\ Exists(api[c])
        BY <2>3, <3>2, CallStores
      <3>4. api[c].phase = "deleting"
        BY <2>1, <2>4, <3>3 DEF PassInv, CacheInv, Exists, Deleting
      <3> QED
        BY <2>2, <3>2, <3>3, <3>4, StoredCases DEF Deleting
    <2> QED
      BY <2>1, <2>4 DEF GoingInv
  <1>3. CASE PatchStatus(c, r)
    <2>1. /\ pc[c] = "status" /\ pc'[c] = "idle" /\ UNCHANGED cache
          /\ StatusChanges(c) \in BOOLEAN
          /\ Call(c, r, StatusChanges(c), PatchStatusOf(c))
      BY <1>3 DEF PatchStatus, Call, StatusChanges, TypeOK
    <2>2. SUFFICES ASSUME Deleting(cache[c]), Deleting(api'[c]), c \notin queue' PROVE FALSE
      BY <2>1 DEF GoingInv
    <2>3. c \notin queue /\ ~requeue[c]
      BY <1>3, <2>2 DEF PatchStatus
    <2>4. api[c].phase = "gone"
      BY <2>1, <2>2, <2>3 DEF DomainsInv, GoingInv
    <2>5. api'[c] = api[c]
      BY <2>1, <2>4, CallStores DEF Exists
    <2> QED
      BY <2>2, <2>4, <2>5 DEF Deleting
  <1> QED
    BY <1>1, <1>2, <1>3 DEF Patch

LEMMA EnvironmentGoing ==
    ASSUME NEW c \in Clusters, TypeOK, CacheInv(c), PassInv(c), GoingInv(c),
           Environment(c) \/ Deliver(c) \/ ApiServerDown(c) \/ EditDomains(c)
    PROVE  GoingInv(c)'
  <1>1. UNCHANGED passes /\ queue \subseteq queue'
    BY EnvironmentStays
  <1>2. CASE CacheSync(c)
    <2>1. cache'[c] = api[c] /\ api' = api /\ c \in queue'
      BY <1>2 DEF CacheSync, TypeOK
    <2> QED
      BY <1>1, <2>1 DEF GoingInv, CacheInv, Deleting, passes
  <1>3. CASE cache' = cache
    <2>1. api[c].phase = "gone" => api'[c] = api[c]
      BY WriteCases DEF Exists
    <2>2. Deleting(cache[c]) /\ Deleting(api'[c]) => Deleting(api[c])
      BY WriteCases DEF CacheInv, Deleting
    <2> QED
      BY <1>1, <1>3, <2>1, <2>2 DEF GoingInv, passes
  <1>4. CacheSync(c) \/ cache' = cache
    BY DEF Environment, Create, SetOwner, DeleteObject, EditDomains, Write, Event,
           DeleteCluster, Initialize, ApiServerUp, ApiServerDown, Deliver, objects
  <1> QED
    BY <1>2, <1>3, <1>4

AllGoingInv == \A c \in Clusters : GoingInv(c)

LEMMA GoingNext ==
    TypeOK /\ AllFinalizerInv /\ AllDomainsInv /\ AllGoingInv /\ [Next]_vars => AllGoingInv'
  <1> SUFFICES ASSUME TypeOK, AllFinalizerInv, AllDomainsInv, AllGoingInv, [Next]_vars
               PROVE  AllGoingInv'
    OBVIOUS
  <1>1. ASSUME NEW c \in Clusters, GoingInv(c)', \A d \in Clusters \ {c} : Stays(d)
        PROVE  AllGoingInv'
    BY <1>1, StaysGoing DEF AllGoingInv
  <1>2. \A c \in Clusters : CacheInv(c) /\ PassInv(c) /\ DomainsInv(c) /\ GoingInv(c)
    BY DEF AllFinalizerInv, AllDomainsInv, AllGoingInv, FinalizerInv
  <1>3. CASE UNCHANGED <<objects, passes, queue>>
    BY <1>3, StaysGoing DEF AllGoingInv, Stays, Keeps, Same, SamePass, objects, passes
  <1>4. ASSUME NEW g \in Goroutines, Goroutine(g) PROVE AllGoingInv'
    BY <1>3, <1>4 DEF Goroutine, EndPolling, Send, Forget
  <1>5. CASE Crash
    <2>1. \A c \in Clusters : /\ cache'[c] = api[c] /\ api'[c] = api[c] /\ pc'[c] = "idle"
                              /\ Deleting(api[c]) => c \in queue' /\ api[c].finalizer
      BY <1>2, <1>5 DEF Crash, Restart, Exists, Deleting, CacheInv
    <2> QED
      BY <2>1 DEF AllGoingInv, GoingInv
  <1>6. ASSUME NEW c \in Clusters, Begin(c) PROVE AllGoingInv'
    BY <1>1, <1>2, <1>6, BeginGoing, BeginStays
  <1>7. ASSUME NEW c \in Clusters, Trigger(c) \/ Check(c) PROVE AllGoingInv'
    BY <1>1, <1>2, <1>7, ProceedGoing, ProceedStays
  <1>8. ASSUME NEW c \in Clusters, NEW r \in Outcomes, Patch(c, r) PROVE AllGoingInv'
    BY <1>1, <1>2, <1>8, PatchGoing, PatchStays
  <1>9. ASSUME NEW c \in Clusters,
               Environment(c) \/ Deliver(c) \/ ApiServerDown(c) \/ EditDomains(c)
        PROVE  AllGoingInv'
    BY <1>1, <1>2, <1>9, EnvironmentGoing, EnvironmentStays
  <1> QED
    BY <1>3, <1>4, <1>5, <1>6, <1>7, <1>8, <1>9, Steps DEF vars

LEMMA InductiveNext ==
    ASSUME TypeOK, InductiveInv, [Next]_vars PROVE InductiveInv'
  <1>1. PollerInv /\ AllFinalizerInv /\ AllDomainsInv /\ AllGoingInv
    BY DEF InductiveInv, PollerInv, AllFinalizerInv, AllDomainsInv, AllGoingInv,
           FinalizerInv, FinalizerFirst
  <1>2. PollerInv' /\ AllFinalizerInv' /\ AllDomainsInv' /\ AllGoingInv'
    BY <1>1, PollerNext, FinalizerNext, DomainsNext, GoingNext
  <1>3. FinalizerFirst' /\ \A c \in Clusters : CacheInv(c)' /\ PassInv(c)'
    BY <1>2 DEF AllFinalizerInv, FinalizerInv, FinalizerFirst
  <1> QED
    BY <1>2, <1>3 DEF InductiveInv, PollerInv, AllDomainsInv, AllGoingInv

\* Nothing in it is about the Clusters, their API servers or the events.
LEMMA WorldInv ==
    ASSUME InductiveInv, UNCHANGED <<objects, passes, queue, pollers>> PROVE InductiveInv'
  <1>1. OnePoller' /\ TriggersHavePollers'
    BY DEF InductiveInv, OnePoller, TriggersHavePollers, Running, pollers
  <1>2. FinalizerFirst'
    BY DEF InductiveInv, FinalizerFirst, objects
  <1>3. ASSUME NEW c \in Clusters PROVE Same(c) /\ Stays(c)
    BY DEF Same, SamePass, Stays, Keeps, objects, passes
  <1>4. ASSUME NEW c \in Clusters
        PROVE  CacheInv(c)' /\ PassInv(c)' /\ DomainsInv(c)' /\ GoingInv(c)'
    <2>1. CacheInv(c)' /\ PassInv(c)'
      BY <1>3 DEF InductiveInv, CacheInv, PassInv, Same, SamePass
    <2> QED
      BY <1>3, <2>1, StaysGoing, KeepsDomains DEF InductiveInv, Stays
  <1> QED
    BY <1>1, <1>2, <1>4 DEF InductiveInv

\* The whole inductive invariant that the runs check.
THEOREM Inductive == Spec => []InductiveInv
  <1>1. Init => InductiveInv
    BY PollerInit, FinalizerInit, DomainsInit, GoingInit
       DEF InductiveInv, PollerInv, FinalizerFirst, FinalizerInv, AllDomainsInv
  <1>2. TypeOK /\ InductiveInv /\ [Next]_vars => InductiveInv'
    BY InductiveNext
  <1> QED
    BY <1>1, <1>2, TypeCorrect, PTL DEF Spec

\* A NomadCluster that is being deleted is never left without a pass that runs or is
\* asked for, or a version of it on the way.
THEOREM DeletionNeverRests == Spec => []DeletionGoesOn
  <1>1. InductiveInv => DeletionGoesOn
    BY DEF InductiveInv, GoingInv, DeletionGoesOn, Resting
  <1> QED
    BY <1>1, Inductive, PTL

-----------------------------------------------------------------------------
(* The wakeup. As long as no API server goes offline, what a pass has found   *)
(* offline is polled, and the goroutine's event comes after that pass has     *)
(* looked: it is then queued again, or reads what the goroutine has seen.     *)

\* A goroutine of c that is past its polling has its event on the way or sent.
\* What is on the way stays, or comes to the queue; online stays.
Goes(c) ==
    /\ c \in online => c \in online'
    /\ owner[c].deleting => owner'[c].deleting
    /\ owner[c].initialized => owner'[c].initialized
    /\ owner'[c].initialized => c \in online'
    /\ c \in (PolledAt("sending") \cup PolledAt("forgetting"))' =>
          \/ c \in PolledAt("sending") \cup PolledAt("forgetting")
          \/ c \in online' \/ owner'[c].deleting
    /\ c \in PolledAt("polling") =>
          c \in PolledAt("polling")' \/ c \in online' \/ owner'[c].deleting
    /\ Coming(c) => Coming(c)' \/ c \in queue'

LEMMA SeenStep ==
    ASSUME NEW c \in Clusters, SeenInv(c), Goes(c),
           pc'[c] = "trigger" => seen'[c] = owner[c] \/ (pc[c] = "trigger" /\ seen'[c] = seen[c])
    PROVE  SeenInv(c)'
  BY DEF SeenInv, Goes

LEMMA StaysWaking ==
    ASSUME NEW c \in Clusters, WakeInv(c), Goes(c), Stays(c) PROVE WakeInv(c)'
  <1>1. ASSUME NEW o, Served(c, o) PROVE Served(c, o)' \/ c \in queue'
    BY <1>1 DEF Served, Goes
  <1> QED
    BY <1>1 DEF WakeInv, Goes, Stays, Keeps, Same, SamePass

\* The goroutines, seen from the clusters.
LEMMA QuietGoes ==
    ASSUME NEW c \in Clusters, SeenInv(c), UNCHANGED <<world, pollers, inbox>> PROVE Goes(c)
  BY DEF Goes, SeenInv, Coming, PolledAt, world, pollers

LEMMA StartGoes ==
    ASSUME NEW c \in Clusters, NEW d \in Clusters, NEW g \in Goroutines, TypeOK, SeenInv(c),
           StartPolling(d, g)
    PROVE  Goes(c)
  <1>1. /\ gpc[g] = "free" /\ gpc'[g] = "polling"
        /\ \A h \in Goroutines \ {g} : gpc'[h] = gpc[h] /\ polled'[h] = polled[h]
        /\ UNCHANGED <<world, inbox>>
    BY DEF StartPolling, Proceed, TypeOK
  <1>2. /\ PolledAt("polling") \subseteq PolledAt("polling")'
        /\ PolledAt("sending")' = PolledAt("sending")
        /\ PolledAt("forgetting")' = PolledAt("forgetting")
    BY <1>1 DEF PolledAt
  <1> QED
    BY <1>1, <1>2 DEF Goes, SeenInv, Coming, world

LEMMA GoroutineGoes ==
    ASSUME NEW c \in Clusters, NEW g \in Goroutines, TypeOK, PollerInv, SeenInv(c), Goroutine(g)
    PROVE  Goes(c)
  <1>1. UNCHANGED <<world, polled>> /\ polled[g] \in Clusters
    BY DEF Goroutine, EndPolling, Send, Forget, TypeOK
  <1>2. CASE EndPolling(g)
    <2>1. /\ gpc[g] = "polling" /\ gpc' = [gpc EXCEPT ![g] = "sending"]
          /\ polled[g] \in online \/ owner[polled[g]].deleting
          /\ UNCHANGED inbox
      BY <1>2 DEF EndPolling
    <2>2. /\ PolledAt("sending")' = PolledAt("sending") \cup {polled[g]}
          /\ PolledAt("polling")' = PolledAt("polling") \ {polled[g]}
          /\ PolledAt("forgetting")' = PolledAt("forgetting") \ {polled[g]}
      BY <1>1, <2>1, OwnPolled
    <2> QED
      BY <1>1, <2>1, <2>2 DEF Goes, SeenInv, Coming, world
  <1>3. CASE Send(g)
    <2>1. /\ gpc[g] = "sending" /\ gpc' = [gpc EXCEPT ![g] = "forgetting"]
          /\ inbox' = inbox \cup {polled[g]}
      BY <1>3 DEF Send
    <2>2. /\ PolledAt("sending")' = PolledAt("sending") \ {polled[g]}
          /\ PolledAt("polling")' = PolledAt("polling") \ {polled[g]}
          /\ PolledAt("forgetting")' = PolledAt("forgetting") \cup {polled[g]}
      BY <1>1, <2>1, OwnPolled
    <2>3. polled[g] \in PolledAt("sending") \ PolledAt("polling")
      BY <2>1 DEF PolledAt, PollerInv, OnePoller, Running
    <2> QED
      BY <1>1, <2>1, <2>2, <2>3 DEF Goes, SeenInv, Coming, world
  <1>4. CASE Forget(g)
    <2>1. /\ PolledAt("polling")' = PolledAt("polling")
          /\ PolledAt("sending")' = PolledAt("sending")
          /\ PolledAt("forgetting")' \subseteq PolledAt("forgetting")
          /\ UNCHANGED inbox
      BY <1>4 DEF Forget, PolledAt, TypeOK
    <2> QED
      BY <1>1, <2>1 DEF Goes, SeenInv, Coming, world
  <1> QED
    BY <1>2, <1>3, <1>4 DEF Goroutine

LEMMA EnvironmentGoes ==
    ASSUME "offline" \notin Disturbances, NEW c \in Clusters, NEW d \in Clusters, TypeOK,
           SeenInv(c), Environment(d) \/ Deliver(d) \/ ApiServerDown(d) \/ EditDomains(d)
    PROVE  Goes(c)
  <1>1. CASE UNCHANGED <<world, pollers, inbox>>
    BY <1>1, QuietGoes
  <1>2. CASE Deliver(d)
    BY <1>2 DEF Deliver, Goes, SeenInv, Coming, PolledAt, world, pollers
  <1>3. CASE DeleteCluster(d) \/ Initialize(d) \/ ApiServerUp(d)
    <2>1. /\ owner[c].deleting => owner'[c].deleting
          /\ owner[c].initialized => owner'[c].initialized
          /\ owner'[c].initialized => owner[c].initialized \/ c \in online
          /\ online \subseteq online' /\ UNCHANGED <<pollers, inbox>>
      <3>1. owner \in [Clusters -> Owner]
        BY DEF TypeOK
      <3>2. CASE DeleteCluster(d)
        <4>1. /\ owner' = [owner EXCEPT ![d].deleting = TRUE]
              /\ UNCHANGED <<online, inbox, pollers>>
          BY <3>2 DEF DeleteCluster
        <4> QED
          BY <3>1, <4>1 DEF Owner
      <3>3. CASE Initialize(d)
        <4>1. /\ owner' = [owner EXCEPT ![d].initialized = TRUE] /\ d \in online
              /\ UNCHANGED <<online, inbox, pollers>>
          BY <3>3 DEF Initialize
        <4> QED
          BY <3>1, <4>1 DEF Owner
      <3>4. CASE ApiServerUp(d)
        BY <3>4 DEF ApiServerUp
      <3> QED
        BY <1>3, <3>2, <3>3, <3>4
    <2> QED
      BY <2>1 DEF Goes, SeenInv, Coming, PolledAt, pollers
  <1>4. ~ApiServerDown(d)
    BY DEF ApiServerDown
  <1> QED
    BY <1>1, <1>2, <1>3, <1>4
       DEF Environment, Create, SetOwner, DeleteObject, EditDomains, Write, CacheSync, Event,
           world, pollers

-----------------------------------------------------------------------------
LEMMA BeginWaking ==
    ASSUME NEW c \in Clusters, TypeOK, SeenInv(c), WakeInv(c), Begin(c)
    PROVE  SeenInv(c)' /\ WakeInv(c)' /\ UNCHANGED <<world, pollers, inbox>>
  <1>1. UNCHANGED <<world, pollers, inbox>>
    BY DEF Begin, Ignore, Delete, AddFinalizer, SetEndpoint, Open, Dequeue
  <1>2. Goes(c)
    BY <1>1, QuietGoes
  <1>3. CASE Ignore(c)
    <2>1. UNCHANGED <<objects, passes>> /\ pc[c] = "idle" /\ cache[c].phase # "live"
      BY <1>3 DEF Ignore, Dequeue, Idle
    <2>2. SeenInv(c)'
      BY <1>2, <2>1, SeenStep DEF passes
    <2>3. WakeInv(c)'
      BY <2>1 DEF WakeInv, SameButDomains, objects, passes
    <2> QED
      BY <1>1, <2>2, <2>3
  <1>4. CASE ~Ignore(c)
    <2>1. PICK to \in {"conds", "trigger"} :
             \E obj : /\ Open(c, to, obj)
                      /\ cache[c].phase = "live" /\ cache[c].finalizer =>
                            to = "trigger" /\ obj.ready /\ obj.endpoint
      <3>1. Read(c) \in Object
        BY ReadType
      <3>2. [Read(c) EXCEPT !.endpoint = TRUE, !.ready = TRUE].endpoint
            /\ [Read(c) EXCEPT !.endpoint = TRUE, !.ready = TRUE].ready
        BY <3>1 DEF Object
      <3> QED
        BY <1>4, <3>2 DEF Begin, Delete, Deleting, AddFinalizer, SetEndpoint
    <2>2. PICK obj : /\ Open(c, to, obj)
                     /\ cache[c].phase = "live" /\ cache[c].finalizer =>
                           to = "trigger" /\ obj.ready /\ obj.endpoint
      BY <2>1
    <2>3. /\ pc'[c] = to /\ before'[c] = cache[c] /\ after'[c] = obj
          /\ to = "trigger" => seen'[c] = owner[c]
      BY <2>2 DEF Open, TypeOK
    <2>4. SeenInv(c)'
      BY <1>2, <2>3, SeenStep
    <2>5. WakeInv(c)'
      BY <2>2, <2>3 DEF WakeInv
    <2> QED
      BY <1>1, <2>4, <2>5
  <1> QED
    BY <1>3, <1>4

LEMMA TriggerWaking ==
    ASSUME NEW c \in Clusters, TypeOK, PollerInv, PassInv(c), SeenInv(c), WakeInv(c), Trigger(c)
    PROVE  WakeInv(c)' /\ \A d \in Clusters : SeenInv(d) => Goes(d)
  <1>1. /\ pc[c] = "trigger" /\ Proceed(c, "check", after[c])
        /\ UNCHANGED <<world, inbox>>
    BY DEF Trigger, SkipTrigger, SkipPolled, StartPolling, Proceed
  <1>2. /\ pc'[c] = "check" /\ UNCHANGED <<api, cache, before, queue, requeue>>
        /\ after'[c] = after[c]
    BY <1>1 DEF Proceed, TypeOK, objects
  <1>3. \A d \in Clusters : SeenInv(d) => Goes(d)
    <2>1. UNCHANGED pollers \/ \E g \in Goroutines : StartPolling(c, g)
      BY DEF Trigger, SkipTrigger, SkipPolled
    <2> QED
      BY <1>1, <2>1, QuietGoes, StartGoes
  <1>4. (c \in online \/ owner[c].deleting \/ c \in PolledAt("polling"))'
    <2>1. CASE SkipTrigger(c)
      BY <1>1, <2>1 DEF SkipTrigger, SeenInv, world
    <2>2. CASE SkipPolled(c)
      <3>1. PICK g \in Running : polled[g] = c
        BY <2>2 DEF SkipPolled, PollerInv, TriggersHavePollers
      <3>2. gpc[g] \in {"polling", "sending", "forgetting"}
        BY <3>1 DEF Running, TypeOK
      <3>3. c \in PolledAt(gpc[g])
        BY <3>1 DEF PolledAt, Running
      <3>4. c \in online \/ owner[c].deleting \/ c \in PolledAt("polling")
        BY <3>2, <3>3 DEF SeenInv
      <3> QED
        BY <1>1, <2>2, <3>4 DEF SkipPolled, PolledAt, pollers, world
    <2>3. ASSUME NEW g \in Goroutines, StartPolling(c, g) PROVE c \in PolledAt("polling")'
      <3>1. gpc'[g] = "polling" /\ polled'[g] = c
        BY <2>3 DEF StartPolling, TypeOK
      <3> QED
        BY <3>1 DEF PolledAt
    <2> QED
      BY <2>1, <2>2, <2>3 DEF Trigger
  <1>5. WakeInv(c)'
    BY <1>1, <1>2, <1>4 DEF WakeInv
  <1> QED
    BY <1>3, <1>5

LEMMA CheckWaking ==
    ASSUME NEW c \in Clusters, TypeOK, SeenInv(c), WakeInv(c), Check(c)
    PROVE  WakeInv(c)' /\ UNCHANGED <<world, pollers, inbox>>
  <1> DEFINE looked == [after[c] EXCEPT !.available = IF Reachable(c) THEN "True" ELSE "False"]
  <1>1. /\ pc[c] = "check" /\ Proceed(c, "conds", looked)
        /\ UNCHANGED <<world, pollers, inbox>>
    BY DEF Check, Proceed
  <1>2. /\ looked.available = (IF Reachable(c) THEN "True" ELSE "False")
        /\ looked.ready = after[c].ready /\ looked.endpoint = after[c].endpoint
    BY ObjectTypes DEF Object
  <1> HIDE DEF looked
  <1>3. /\ pc'[c] = "conds" /\ UNCHANGED <<before, queue>> /\ after'[c] = looked
    BY <1>1 DEF Proceed, TypeOK
  <1>4. c \in PolledAt("polling")' <=> c \in PolledAt("polling")
    BY <1>1 DEF PolledAt, pollers
  <1>5. before[c].phase = "live" /\ before[c].finalizer => Served(c, after[c])'
    BY <1>1, <1>2, <1>3, <1>4 DEF WakeInv, Served, Coming, Reachable, world
  <1> QED
    BY <1>1, <1>2, <1>3, <1>5 DEF WakeInv

LEMMA PatchCondsWaking ==
    ASSUME NEW c \in Clusters, NEW r, TypeOK, WakeInv(c), PatchConds(c, r)
    PROVE  WakeInv(c)'
  <1> DEFINE obj == PatchCondsOf(c)
             err == Errs(c, r, CondsChange(c))
  <1>1. /\ pc[c] = "conds" /\ pc'[c] = "spec" /\ UNCHANGED <<queue, before, after>>
        /\ requeue'[c] = (requeue[c] \/ err)
    BY DEF PatchConds, TypeOK
  <1>2. CondsChange(c) \in BOOLEAN /\ Call(c, r, CondsChange(c), obj)
    BY DEF PatchConds, CondsChange
  <1>3. obj \in Object /\ (before[c].available # after[c].available =>
                              obj.available = after[c].available)
    BY PatchedObjectTypes, ObjectTypes DEF PatchCondsOf, Patched, Object
  <1> HIDE DEF obj
  <1>4. /\ UNCHANGED <<world, pollers, inbox>>
        /\ ~err /\ CondsChange(c) => api'[c] = Stored(obj)
    BY <1>2, CallStores
  <1>5. before[c].phase = "live" /\ before[c].finalizer => (Served(c, after[c]) \/ c \in queue)'
    BY <1>1, <1>4 DEF WakeInv, Served, Coming, PolledAt, world, pollers
  <1>6. ASSUME ~requeue'[c], api'[c].phase # "gone", before[c].available # after[c].available
        PROVE  api'[c].available = after[c].available
    <2>1. api'[c] = Stored(obj)
      BY <1>1, <1>4, <1>6 DEF CondsChange
    <2> QED
      BY <1>3, <1>6, <2>1, StoredCases
  <1> QED
    BY <1>1, <1>5, <1>6 DEF WakeInv

LEMMA PatchSpecWaking ==
    ASSUME NEW c \in Clusters, NEW r, TypeOK, PassInv(c), WakeInv(c), PatchSpec(c, r)
    PROVE  WakeInv(c)'
  <1> DEFINE obj == PatchSpecOf(c)
             err == Errs(c, r, SpecChanges(c))
  <1>1. /\ pc[c] = "spec" /\ pc'[c] = "status" /\ UNCHANGED <<queue, before, after>>
        /\ requeue'[c] = (requeue[c] \/ err)
    BY DEF PatchSpec, TypeOK
  <1>2. SpecChanges(c) \in BOOLEAN /\ Call(c, r, SpecChanges(c), obj)
    BY DEF PatchSpec, SpecChanges
  <1>3. obj \in Object /\ obj.phase = api[c].phase /\ obj.available = api[c].available
        /\ obj.finalizer = Patched(api[c].finalizer, before[c].finalizer, after[c].finalizer)
        /\ obj.endpoint = Patched(api[c].endpoint, before[c].endpoint, after[c].endpoint)
    <2>1. api[c] \in Object /\ obj \in Object
      BY PatchedObjectTypes, ObjectTypes
    <2> QED
      BY <2>1 DEF PatchSpecOf, Object
  <1> HIDE DEF obj
  <1>4. /\ UNCHANGED <<world, pollers, inbox>>
        /\ ~err => IF SpecChanges(c) THEN api'[c] = Stored(obj) /\ Exists(api[c])
                                     ELSE api'[c] = api[c]
    BY <1>2, CallStores
  <1>5. before[c].phase = "live" /\ before[c].finalizer => (Served(c, after[c]) \/ c \in queue)'
    BY <1>1, <1>4 DEF WakeInv, Served, Coming, PolledAt, world, pollers
  <1>6. ASSUME before[c].phase = "live", ~requeue'[c], api'[c].phase # "gone"
        PROVE  /\ before[c].available # after[c].available => api'[c].available = after[c].available
               /\ api'[c].finalizer
               /\ before[c].endpoint # after[c].endpoint => api'[c].endpoint = after[c].endpoint
    <2>1. ~requeue[c] /\ ~err /\ after[c].finalizer
      BY <1>1, <1>6 DEF PassInv
    <2>2. before[c].finalizer \in BOOLEAN /\ (before[c].finalizer => api[c].finalizer)
      BY <1>1, <1>6, ObjectTypes DEF PassInv, Object
    <2>3. CASE SpecChanges(c)
      <3>1. api'[c] = obj /\ api[c].phase # "gone"
        BY <1>3, <1>4, <1>6, <2>1, <2>3, StoredCases DEF Exists
      <3> QED
        BY <1>1, <1>3, <1>6, <2>1, <2>2, <3>1 DEF WakeInv, Patched
    <2>4. CASE ~SpecChanges(c)
      <3>1. api'[c] = api[c] /\ before[c].finalizer
        BY <1>4, <2>1, <2>2, <2>4 DEF SpecChanges
      <3> QED
        BY <1>1, <1>6, <2>1, <2>2, <2>4, <3>1 DEF WakeInv, SpecChanges
    <2> QED
      BY <2>3, <2>4
  <1> QED
    BY <1>1, <1>5, <1>6 DEF WakeInv

\* The end of a pass that asks for no other one and has not been queued: it has
\* changed nothing of what the wakeup is about, so what it has found is stored.
LEMMA PatchStatusWaking ==
    ASSUME NEW c \in Clusters, NEW r, TypeOK, PassInv(c), DomainsInv(c), WakeInv(c),
           PatchStatus(c, r)
    PROVE  WakeInv(c)'
  <1> DEFINE obj == PatchStatusOf(c)
             err == Errs(c, r, StatusChanges(c))
  <1>1. pc[c] = "status" /\ pc'[c] = "idle" /\ UNCHANGED cache
    BY DEF PatchStatus, Call, TypeOK
  <1>2. StatusChanges(c) \in BOOLEAN /\ Call(c, r, StatusChanges(c), obj)
    BY DEF PatchStatus, StatusChanges
  <1>3. obj \in Object /\ obj.phase = api[c].phase /\ obj.finalizer = api[c].finalizer
        /\ obj.available = api[c].available /\ obj.endpoint = api[c].endpoint
        /\ obj.ready = Patched(api[c].ready, before[c].ready, after[c].ready)
    <2>1. api[c] \in Object /\ obj \in Object
      BY PatchedObjectTypes, ObjectTypes
    <2> QED
      BY <2>1 DEF PatchStatusOf, Object
  <1> HIDE DEF obj
  <1>4. /\ UNCHANGED <<world, pollers, inbox>>
        /\ ~err => IF StatusChanges(c) THEN api'[c] = Stored(obj) ELSE api'[c] = api[c]
    BY <1>2, CallStores
  <1>5. SUFFICES ASSUME c \notin queue', api'[c].phase = "live",
                        SameButDomains(cache[c], api'[c])
                 PROVE  Served(c, api[c])' /\ api'[c].ready /\ api'[c].endpoint
    BY <1>1 DEF WakeInv
  <1>6. c \notin queue /\ ~requeue[c] /\ ~err
    BY <1>5 DEF PatchStatus
  <1>7. SameButDomains(before[c], api'[c]) /\ before[c].phase = "live"
    BY <1>1, <1>5, <1>6 DEF DomainsInv, SameButDomains
  <1>8. /\ api'[c].phase = api[c].phase /\ api'[c].finalizer = api[c].finalizer
        /\ api'[c].available = api[c].available /\ api'[c].endpoint = api[c].endpoint
        /\ StatusChanges(c) => api'[c].ready = Patched(api[c].ready, before[c].ready, after[c].ready)
    BY <1>3, <1>4, <1>5, <1>6, StoredCases
  <1>9. before[c].finalizer
    BY <1>1, <1>5, <1>6, <1>7, <1>8 DEF WakeInv, SameButDomains
  <1>10. /\ after[c].ready /\ after[c].endpoint
         /\ Served(c, after[c])
    BY <1>1, <1>6, <1>7, <1>9 DEF WakeInv
  <1>11. /\ api'[c].available = after[c].available
         /\ api'[c].endpoint = after[c].endpoint
         /\ api'[c].ready = after[c].ready
    BY <1>1, <1>5, <1>6, <1>7, <1>8 DEF WakeInv, SameButDomains, StatusChanges, Patched
  <1>12. Served(c, api[c])'
    BY <1>4, <1>10, <1>11 DEF Served, Coming, PolledAt, world, pollers
  <1> QED
    BY <1>10, <1>11, <1>12

LEMMA PatchWaking ==
    ASSUME NEW c \in Clusters, NEW r, TypeOK, PassInv(c), DomainsInv(c), WakeInv(c),
           Patch(c, r)
    PROVE  /\ WakeInv(c)' /\ UNCHANGED <<world, pollers, inbox>>
           /\ pc'[c] # "trigger"
  <1>1. UNCHANGED <<world, pollers, inbox>>
    BY DEF Patch, PatchConds, PatchSpec, PatchStatus, Call
  <1>2. pc'[c] # "trigger"
    BY DEF Patch, PatchConds, PatchSpec, PatchStatus, TypeOK
  <1> QED
    BY <1>1, <1>2, PatchCondsWaking, PatchSpecWaking, PatchStatusWaking DEF Patch

LEMMA EnvironmentWaking ==
    ASSUME NEW c \in Clusters, TypeOK, CacheInv(c), PassInv(c), WakeInv(c), Goes(c),
           Environment(c) \/ Deliver(c) \/ ApiServerDown(c) \/ EditDomains(c)
    PROVE  WakeInv(c)'
  <1>1. UNCHANGED passes /\ queue \subseteq queue'
    BY EnvironmentStays
  <1>2. ASSUME NEW o, Served(c, o) PROVE Served(c, o)' \/ c \in queue'
    BY <1>2 DEF Served, Goes
  <1>3. CASE CacheSync(c)
    <2>1. api' = api /\ c \in queue'
      BY <1>3 DEF CacheSync
    <2> QED
      BY <1>1, <1>2, <2>1 DEF WakeInv, Goes, passes
  <1>4. CASE cache' = cache
    <2> DEFINE was == [api'[c] EXCEPT !.phase = api[c].phase]
    <2>1. api' \in [Clusters -> Object] /\ api[c] \in Object
      BY EnvironmentType, ObjectTypes DEF TypeOK
    <2>2. /\ was.finalizer = api'[c].finalizer /\ was.endpoint = api'[c].endpoint
          /\ was.ready = api'[c].ready /\ was.available = api'[c].available
      BY <2>1 DEF Object
    <2>3. \/ api'[c].phase \in {"gone", "unowned"} /\ api[c].phase \in {"none", "unowned"}
          \/ api'[c].phase = "gone"
          \/ /\ api'[c].finalizer = api[c].finalizer /\ api'[c].endpoint = api[c].endpoint
             /\ api'[c].ready = api[c].ready /\ api'[c].available = api[c].available
             /\ api'[c].phase = "live" => api[c].phase \in {"unowned", "live"}
             /\ api[c].phase = "gone" => api'[c].phase = "gone"
      <3> HIDE DEF was
      <3>1. \/ api'[c] = api[c]
            \/ api'[c].phase = "gone"
            \/ api[c].phase = "none" /\ api'[c].phase = "unowned"
            \/ /\ api'[c].phase = "live" => api[c].phase \in {"unowned", "live"}
               /\ Exists(api[c]) /\ SameButDomains(was, api[c])
        BY WriteCases DEF was
      <3> QED
        BY <2>2, <3>1 DEF SameButDomains, Exists
    <2>4. /\ pc[c] # "idle" => api[c].phase \notin {"none", "unowned"}
          /\ cache[c].phase = "live" => api[c].phase # "unowned"
      BY DEF PassInv, CacheInv
    <2>5. pc[c] # "idle" => WakeInv(c)'
      BY <1>1, <1>2, <2>3, <2>4 DEF WakeInv, Goes, passes
    <2>6. ASSUME pc[c] = "idle", c \notin queue', api'[c].phase = "live",
                 SameButDomains(cache[c], api'[c])
          PROVE  Served(c, api[c])' /\ api'[c].ready /\ api'[c].endpoint
      <3>1. api[c].phase = "live" /\ SameButDomains(cache[c], api[c])
        BY <2>3, <2>4, <2>6 DEF SameButDomains
      <3>2. Served(c, api[c]) /\ api[c].ready /\ api[c].endpoint
        BY <1>1, <2>6, <3>1 DEF WakeInv
      <3>3. Served(c, api'[c])
        BY <2>6, <3>1, <3>2 DEF Served, SameButDomains
      <3>4. (owner[c].deleting \/ Coming(c))' \/ api'[c].available = "True"
        BY <2>6, <3>3 DEF Served, Goes
      <3> QED
        BY <2>6, <3>1, <3>2, <3>4 DEF Served, SameButDomains
    <2>7. pc[c] = "idle" => WakeInv(c)'
      BY <1>1, <1>4, <2>6 DEF WakeInv, passes
    <2> QED
      BY <2>5, <2>7
  <1>5. CacheSync(c) \/ cache' = cache
    BY DEF Environment, Create, SetOwner, DeleteObject, EditDomains, Write, Event,
           DeleteCluster, Initialize, ApiServerUp, ApiServerDown, Deliver, objects
  <1> QED
    BY <1>3, <1>4, <1>5

LEMMA WakingInit == Init => WakingInv
  BY DEF Init, WakingInv, SeenInv, WakeInv, NewOwner, Blank, PolledAt

LEMMA WakingNext ==
    ASSUME "offline" \notin Disturbances, TypeOK, InductiveInv, WakingInv, [Next]_vars
    PROVE  WakingInv'
  <1>1. \A c \in Clusters : /\ CacheInv(c) /\ PassInv(c) /\ DomainsInv(c)
                            /\ SeenInv(c) /\ WakeInv(c)
    BY DEF InductiveInv, WakingInv
  <1>2. ASSUME NEW c \in Clusters, SeenInv(c)', WakeInv(c)',
               \A d \in Clusters \ {c} : Stays(d) /\ Goes(d)
        PROVE  WakingInv'
    <2>1. \A d \in Clusters \ {c} : SeenInv(d)' /\ WakeInv(d)'
      BY <1>1, <1>2, SeenStep, StaysWaking DEF Stays, Keeps, Same, SamePass
    <2> QED
      BY <1>2, <2>1 DEF WakingInv
  <1>3. ASSUME UNCHANGED <<objects, passes, queue>>, \A c \in Clusters : Goes(c)
        PROVE  WakingInv'
    <2>1. \A c \in Clusters : Stays(c) /\ Goes(c)
      BY <1>3 DEF Stays, Keeps, Same, SamePass, objects, passes
    <2>2. \A c \in Clusters : SeenInv(c)' /\ WakeInv(c)'
      BY <1>1, <2>1, SeenStep, StaysWaking DEF Stays, Keeps, Same, SamePass
    <2> QED
      BY <2>2 DEF WakingInv
  <1>4. UNCHANGED <<world, pollers, inbox>> => \A c \in Clusters : Goes(c)
    BY <1>1, QuietGoes
  <1>5. PollerInv
    BY DEF InductiveInv, PollerInv
  <1>6. ASSUME NEW c \in Clusters, Begin(c) PROVE WakingInv'
    BY <1>1, <1>2, <1>4, <1>6, BeginWaking, BeginStays
  <1>7. ASSUME NEW c \in Clusters, Trigger(c) PROVE WakingInv'
    <2>1. WakeInv(c)' /\ \A d \in Clusters : Goes(d)
      BY <1>1, <1>5, <1>7, TriggerWaking
    <2>2. pc'[c] # "trigger"
      BY <1>7 DEF Trigger, SkipTrigger, SkipPolled, StartPolling, Proceed, TypeOK
    <2>3. SeenInv(c)'
      BY <1>1, <2>1, <2>2, SeenStep
    <2> QED
      BY <1>2, <1>7, <2>1, <2>3, ProceedStays
  <1>8. ASSUME NEW c \in Clusters, Check(c) PROVE WakingInv'
    <2>1. WakeInv(c)' /\ \A d \in Clusters : Goes(d)
      BY <1>1, <1>4, <1>8, CheckWaking
    <2>2. pc'[c] # "trigger"
      BY <1>8 DEF Check, Proceed, TypeOK
    <2>3. SeenInv(c)'
      BY <1>1, <2>1, <2>2, SeenStep
    <2> QED
      BY <1>2, <1>8, <2>1, <2>3, ProceedStays
  <1>9. ASSUME NEW c \in Clusters, NEW r \in Outcomes, Patch(c, r) PROVE WakingInv'
    <2>1. WakeInv(c)' /\ (\A d \in Clusters : Goes(d)) /\ pc'[c] # "trigger"
      BY <1>1, <1>4, <1>9, PatchWaking
    <2>2. SeenInv(c)'
      BY <1>1, <2>1, SeenStep
    <2> QED
      BY <1>2, <1>9, <2>1, <2>2, PatchStays
  <1>10. ASSUME NEW c \in Clusters,
                Environment(c) \/ Deliver(c) \/ ApiServerDown(c) \/ EditDomains(c)
         PROVE  WakingInv'
    <2>1. \A d \in Clusters : Goes(d)
      BY <1>1, <1>10, EnvironmentGoes
    <2>2. WakeInv(c)'
      BY <1>1, <1>10, <2>1, EnvironmentWaking
    <2>3. SeenInv(c)'
      <3>1. UNCHANGED passes
        BY <1>10, EnvironmentStays
      <3> QED
        BY <1>1, <2>1, <3>1, SeenStep DEF passes
    <2> QED
      BY <1>2, <1>10, <2>1, <2>2, <2>3, EnvironmentStays
  <1>11. ASSUME NEW g \in Goroutines, Goroutine(g) PROVE WakingInv'
    <2>1. \A c \in Clusters : Goes(c)
      BY <1>1, <1>5, <1>11, GoroutineGoes
    <2>2. UNCHANGED <<objects, passes, queue>>
      BY <1>11 DEF Goroutine, EndPolling, Send, Forget
    <2> QED
      BY <1>3, <2>1, <2>2
  <1>12. CASE Crash
    <2> SUFFICES ASSUME NEW c \in Clusters PROVE SeenInv(c)' /\ WakeInv(c)'
      BY DEF WakingInv
    <2>1. /\ pc'[c] = "idle" /\ UNCHANGED <<api, owner, online>>
          /\ \A g \in Goroutines : gpc'[g] = "free"
          /\ api[c].phase = "live" => c \in queue'
      BY <1>12 DEF Crash, Restart, Exists, world
    <2> QED
      BY <1>1, <2>1 DEF SeenInv, WakeInv, PolledAt
  <1>13. CASE UNCHANGED vars
    BY <1>3, <1>4, <1>13 DEF vars
  <1> QED
    BY <1>6, <1>7, <1>8, <1>9, <1>10, <1>11, <1>12, <1>13, Steps

\* What passes, goroutines and events owe each other while no API server goes
\* offline: the invariant behind the next theorem.
THEOREM Waking == ASSUME "offline" \notin Disturbances PROVE Spec => []WakingInv
  <1>1. TypeOK /\ InductiveInv /\ WakingInv /\ [Next]_vars => WakingInv'
    BY WakingNext
  <1> QED
    BY <1>1, WakingInit, TypeCorrect, Inductive, PTL DEF Spec

\* As long as no API server goes offline, its coming up is never missed: a
\* NomadCluster at rest, whose API server is up, says so, or is about to be woken.
THEOREM WakeupNotLost ==
    ASSUME "offline" \notin Disturbances PROVE Spec => []NoLostWakeup
  <1>1. WakingInv => NoLostWakeup
    BY DEF WakingInv, WakeInv, NoLostWakeup, Resting, Up, Served, Noticed, SameButDomains
  <1> QED
    BY <1>1, Waking, PTL
=============================================================================
