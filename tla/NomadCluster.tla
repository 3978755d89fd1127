---------------------------- MODULE NomadCluster ----------------------------
(***************************************************************************)
(* The NomadCluster controller and the goroutines that poll the API server  *)
(* of a workload cluster. A pass of Reconcile over cluster c walks           *)
(*   idle -> conds -> spec -> status -> idle               (delete)          *)
(*   idle -> trigger -> check -> conds -> spec -> status -> idle             *)
(* There is one worker. A goroutine that "trigger" starts walks              *)
(*   free -> polling -> sending -> forgetting -> free                        *)
(* and shares with the passes the map of the clusters that are polled and    *)
(* the channel of the events that queue a cluster.                           *)
(***************************************************************************)
EXTENDS Naturals, KubeObject

CONSTANTS
    Clusters,      \* the NomadClusters, each with its owner Cluster
    Domains,       \* the failure domains that a NomadCluster may list
    Goroutines,    \* enough of them: one more than can ever run
    Disturbances   \* what may go wrong, see Possible

\* A call to the API server fails, or only its answer is lost; the process is
\* killed; the API server of a workload cluster goes offline. An "edit" of the
\* failure domains is counted with them.
Possible == {"failed", "lost", "crash", "offline", "edit"}
ASSUME DisturbancesAssumption == Disturbances \subseteq Possible

Availabilities == {"none", "False", "True"}
PCs == {"idle", "trigger", "check", "conds", "spec", "status"}

\* A NomadCluster. Status.Network.DNSName is set and patched with `ready`, the
\* DNSReady condition with the first `available`.
Object == [phase     : Phases,
           finalizer : BOOLEAN,
           listed    : SUBSET Domains,   \* Spec.FailureDomains, the user's
           domains   : SUBSET Domains,   \* Status.FailureDomains
           endpoint  : BOOLEAN,          \* Spec.ControlPlaneEndpoint is set
           ready     : BOOLEAN,
           available : Availabilities]   \* the APIServerAvailable condition

Blank(phase) == [phase |-> phase, finalizer |-> FALSE, listed |-> {}, domains |-> {},
                 endpoint |-> FALSE, ready |-> FALSE, available |-> "none"]

\* What a pass reads of the owner Cluster.
Owner == [deleting : BOOLEAN, initialized : BOOLEAN]

VARIABLES
    api,        \* the stored NomadClusters
    cache,      \* the controller's view of them
    owner,      \* the Clusters
    online,     \* the clusters whose API server can be reached
    queue,      \* the work queue
    inbox,      \* GenericEvents received and not yet in the queue
    pc,         \* where the worker is with a cluster
    seen,       \* the Cluster as the pass read it, until its triggers have run
    before,     \* the NomadCluster as the pass read it
    after,      \* the NomadCluster as the pass has changed it
    requeue,    \* will the pass ask for another one
    triggers,   \* apiServerTriggers
    gpc,        \* where a goroutine is
    polled      \* the cluster it polls

objects == <<api, cache>>
world == <<owner, online>>
passes == <<pc, seen, before, after, requeue>>
pollers == <<triggers, gpc, polled>>
vars == <<objects, world, queue, inbox, passes, pollers>>

TypeOK ==
    /\ api \in [Clusters -> Object]
    /\ cache \in [Clusters -> Object]
    /\ owner \in [Clusters -> Owner]
    /\ online \in SUBSET Clusters
    /\ queue \in SUBSET Clusters
    /\ inbox \in SUBSET Clusters
    /\ pc \in [Clusters -> PCs]
    /\ seen \in [Clusters -> Owner]
    /\ before \in [Clusters -> Object]
    /\ after \in [Clusters -> Object]
    /\ requeue \in [Clusters -> BOOLEAN]
    /\ triggers \in SUBSET Clusters
    /\ gpc \in [Goroutines -> {"free", "polling", "sending", "forgetting"}]
    /\ polled \in [Goroutines -> Clusters]

NewOwner == [deleting |-> FALSE, initialized |-> FALSE]

Init ==
    /\ api = [c \in Clusters |-> Blank("none")]
    /\ cache = api
    /\ owner = [c \in Clusters |-> NewOwner]
    /\ online = {}
    /\ queue = {}
    /\ inbox = {}
    /\ pc = [c \in Clusters |-> "idle"]
    /\ seen = owner
    /\ before = api
    /\ after = api
    /\ requeue = [c \in Clusters |-> FALSE]
    /\ triggers = {}
    /\ gpc = [g \in Goroutines |-> "free"]
    /\ \E c \in Clusters : polled = [g \in Goroutines |-> c]

-----------------------------------------------------------------------------
Outcomes == {"ok"} \cup (Disturbances \cap {"failed", "lost"})

\* IsAPIServerOnline; a Cluster that is being deleted is an error and counts as
\* offline for a pass.
Reachable(c) == c \in online /\ ~owner[c].deleting

Idle == \A c \in Clusters : pc[c] = "idle"

\* The pass goes on at `to` with the object `obj`. What it read of the Cluster
\* is of use to the triggers only, which this step leaves.
Proceed(c, to, obj) ==
    /\ pc' = [pc EXCEPT ![c] = to]
    /\ seen' = [seen EXCEPT ![c] = NewOwner]
    /\ after' = [after EXCEPT ![c] = obj]
    /\ UNCHANGED <<queue, inbox, before, requeue, objects, world>>

-----------------------------------------------------------------------------
(* The start of a pass: everything up to the triggers. Nothing here looks   *)
(* at whether the Cluster is paused.                                         *)

Dequeue(c) ==
    /\ c \in queue
    /\ Idle
    /\ queue' = queue \ {c}
    /\ UNCHANGED <<objects, world, inbox, pollers>>

Open(c, to, obj) ==
    /\ Dequeue(c)
    /\ pc' = [pc EXCEPT ![c] = to]
    /\ seen' = [seen EXCEPT ![c] = IF to = "trigger" THEN owner[c] ELSE NewOwner]
    /\ before' = [before EXCEPT ![c] = cache[c]]
    /\ after' = [after EXCEPT ![c] = obj]
    /\ UNCHANGED requeue

\* Mutant: failure domains are added to the status and never removed.
ReadAdding(c) == [cache[c] EXCEPT !.domains = @ \cup cache[c].listed]

\* Every pass copies the failure domains, before it looks at anything else.
Read(c) == [cache[c] EXCEPT !.domains = cache[c].listed]

\* No object, or no owner yet.
Ignore(c) ==
    /\ cache[c].phase \notin {"live", "deleting"}
    /\ Dequeue(c)
    /\ UNCHANGED passes

\* The Cluster that owns c is not in the cache: the error puts c back in the queue,
\* from which it has just been taken, and nothing else has changed.
LookupFails(c) ==
    /\ "failed" \in Disturbances
    /\ c \in queue
    /\ Idle
    /\ cache[c].phase \in {"live", "deleting"}
    /\ UNCHANGED vars

\* reconcileDelete waits for nothing.
Delete(c) ==
    /\ Deleting(cache[c])
    /\ Open(c, "conds", [Read(c) EXCEPT !.finalizer = FALSE])

\* Mutant: the pass that adds the finalizer does not return after it.
AddFinalizerAndGoOn(c) ==
    /\ cache[c].phase = "live"
    /\ ~cache[c].finalizer
    /\ Open(c, "trigger",
            [Read(c) EXCEPT !.finalizer = TRUE, !.endpoint = TRUE, !.ready = TRUE])

AddFinalizer(c) ==
    /\ cache[c].phase = "live"
    /\ ~cache[c].finalizer
    /\ Open(c, "conds", [Read(c) EXCEPT !.finalizer = TRUE])

\* The DNS name is the Cluster's name and a domain: it is there at once.
SetEndpoint(c) ==
    /\ cache[c].phase = "live"
    /\ cache[c].finalizer
    /\ Open(c, "trigger", [Read(c) EXCEPT !.endpoint = TRUE, !.ready = TRUE])

-----------------------------------------------------------------------------
(* ReconcileNomadClusterWhenAPIServerIsOnline *)

\* No need to poll, going by the Cluster the pass has read.
SkipTrigger(c) ==
    /\ pc[c] = "trigger"
    /\ seen[c].initialized \/ seen[c].deleting
    /\ Proceed(c, "check", after[c])
    /\ UNCHANGED pollers

\* "alreadyPolling"
SkipPolled(c) ==
    /\ pc[c] = "trigger"
    /\ ~(seen[c].initialized \/ seen[c].deleting)
    /\ c \in triggers
    /\ Proceed(c, "check", after[c])
    /\ UNCHANGED pollers

\* Mutant: nothing is looked up in the map.
StartPollingAgain(c, g) ==
    /\ pc[c] = "trigger"
    /\ ~(seen[c].initialized \/ seen[c].deleting)
    /\ gpc[g] = "free"
    /\ triggers' = triggers \cup {c}
    /\ gpc' = [gpc EXCEPT ![g] = "polling"]
    /\ polled' = [polled EXCEPT ![g] = c]
    /\ Proceed(c, "check", after[c])

StartPolling(c, g) ==
    /\ pc[c] = "trigger"
    /\ ~(seen[c].initialized \/ seen[c].deleting)
    /\ c \notin triggers
    /\ gpc[g] = "free"
    /\ triggers' = triggers \cup {c}
    /\ gpc' = [gpc EXCEPT ![g] = "polling"]
    /\ polled' = [polled EXCEPT ![g] = c]
    /\ Proceed(c, "check", after[c])

\* Mutant: an API server that does not answer leaves the condition Unknown.
CheckUnknown(c) ==
    /\ pc[c] = "check"
    /\ Proceed(c, "conds",
               [after[c] EXCEPT !.available = IF Reachable(c) THEN "True" ELSE "Unknown"])
    /\ UNCHANGED pollers

\* Mutant: the condition is only set once.
CheckOnce(c) ==
    /\ pc[c] = "check"
    /\ Proceed(c, "conds",
               [after[c] EXCEPT !.available = IF @ # "none" THEN @
                                              ELSE IF Reachable(c) THEN "True" ELSE "False"])
    /\ UNCHANGED pollers

\* The pass looks for itself, and does not ask for another pass if the API
\* server is offline.
Check(c) ==
    /\ pc[c] = "check"
    /\ Proceed(c, "conds",
               [after[c] EXCEPT !.available = IF Reachable(c) THEN "True" ELSE "False"])
    /\ UNCHANGED pollers

\* Mutant: an error does not end the polling.
EndPollingOnline(g) ==
    /\ gpc[g] = "polling"
    /\ polled[g] \in online
    /\ gpc' = [gpc EXCEPT ![g] = "sending"]
    /\ UNCHANGED <<objects, world, queue, inbox, passes, triggers, polled>>

\* PollImmediateInfinite ends when the API server is online, and on an error:
\* the Cluster is being deleted, or gone.
EndPolling(g) ==
    /\ gpc[g] = "polling"
    /\ polled[g] \in online \/ owner[polled[g]].deleting
    /\ gpc' = [gpc EXCEPT ![g] = "sending"]
    /\ UNCHANGED <<objects, world, queue, inbox, passes, triggers, polled>>

\* Mutant: no event is sent.
SendNothing(g) ==
    /\ gpc[g] = "sending"
    /\ gpc' = [gpc EXCEPT ![g] = "forgetting"]
    /\ UNCHANGED <<objects, world, queue, inbox, passes, triggers, polled>>

Send(g) ==
    /\ gpc[g] = "sending"
    /\ inbox' = inbox \cup {polled[g]}
    /\ gpc' = [gpc EXCEPT ![g] = "forgetting"]
    /\ UNCHANGED <<objects, world, queue, passes, triggers, polled>>

\* Mutant: the map entry stays.
ForgetNothing(g) ==
    /\ gpc[g] = "forgetting"
    /\ gpc' = [gpc EXCEPT ![g] = "free"]
    /\ UNCHANGED <<objects, world, queue, inbox, passes, triggers, polled>>

Forget(g) ==
    /\ gpc[g] = "forgetting"
    /\ triggers' = triggers \ {polled[g]}
    /\ gpc' = [gpc EXCEPT ![g] = "free"]
    /\ UNCHANGED <<objects, world, queue, inbox, passes, polled>>

\* The channel source hands an event over to the queue.
Deliver(c) ==
    /\ c \in inbox
    /\ inbox' = inbox \ {c}
    /\ queue' = queue \cup {c}
    /\ UNCHANGED <<objects, world, passes, pollers>>

-----------------------------------------------------------------------------
(* PatchObject, as for a NomadMachine; all conditions are owned. *)

PatchCondsOf(c) ==
    [api[c] EXCEPT !.available = Patched(@, before[c].available, after[c].available)]

PatchSpecOf(c) ==
    [api[c] EXCEPT
        !.finalizer = Patched(@, before[c].finalizer, after[c].finalizer),
        !.endpoint = Patched(@, before[c].endpoint, after[c].endpoint)]

PatchStatusOf(c) ==
    [api[c] EXCEPT
        !.ready = Patched(@, before[c].ready, after[c].ready),
        !.domains = PatchedKeys(@, before[c].domains, after[c].domains)]

CondsChange(c) == before[c].available # after[c].available
SpecChanges(c) == \/ before[c].finalizer # after[c].finalizer
                  \/ before[c].endpoint # after[c].endpoint
StatusChanges(c) == \/ before[c].ready # after[c].ready
                    \/ before[c].domains # after[c].domains

Stored(o) == IF Deleting(o) /\ ~o.finalizer THEN Blank("gone") ELSE o

Call(c, r, changes, obj) ==
    /\ api' = IF changes /\ Exists(api[c]) /\ Happens(r)
                THEN [api EXCEPT ![c] = Stored(obj)] ELSE api
    /\ UNCHANGED <<cache, world, inbox, pollers>>

Errs(c, r, changes) == changes /\ (~Exists(api[c]) \/ r # "ok")

PatchConds(c, r) ==
    /\ pc[c] = "conds"
    /\ Call(c, r, CondsChange(c), PatchCondsOf(c))
    /\ pc' = [pc EXCEPT ![c] = "spec"]
    /\ requeue' = [requeue EXCEPT ![c] = @ \/ Errs(c, r, CondsChange(c))]
    /\ UNCHANGED <<queue, seen, before, after>>

\* Mutant: the error of the call is dropped.
PatchSpecErrorDropped(c, r) ==
    /\ pc[c] = "spec"
    /\ Call(c, r, SpecChanges(c), PatchSpecOf(c))
    /\ pc' = [pc EXCEPT ![c] = "status"]
    /\ UNCHANGED <<queue, seen, before, after, requeue>>

PatchSpec(c, r) ==
    /\ pc[c] = "spec"
    /\ Call(c, r, SpecChanges(c), PatchSpecOf(c))
    /\ pc' = [pc EXCEPT ![c] = "status"]
    /\ requeue' = [requeue EXCEPT ![c] = @ \/ Errs(c, r, SpecChanges(c))]
    /\ UNCHANGED <<queue, seen, before, after>>

PatchStatus(c, r) ==
    /\ pc[c] = "status"
    /\ Call(c, r, StatusChanges(c), PatchStatusOf(c))
    /\ queue' = IF requeue[c] \/ Errs(c, r, StatusChanges(c))
                  THEN queue \cup {c} ELSE queue
    /\ pc' = [pc EXCEPT ![c] = "idle"]
    /\ requeue' = [requeue EXCEPT ![c] = FALSE]
    /\ seen' = [seen EXCEPT ![c] = NewOwner]
    /\ before' = [before EXCEPT ![c] = Blank("none")]
    /\ after' = [after EXCEPT ![c] = Blank("none")]

-----------------------------------------------------------------------------
(* The environment *)

Write(c, obj) ==
    /\ api' = [api EXCEPT ![c] = Stored(obj)]
    /\ UNCHANGED <<cache, world, queue, inbox, passes, pollers>>

Create(c) ==
    /\ api[c].phase = "none"
    /\ \E D \in SUBSET Domains : Write(c, [Blank("unowned") EXCEPT !.listed = D])

SetOwner(c) ==
    api[c].phase = "unowned" /\ Write(c, [api[c] EXCEPT !.phase = "live"])

DeleteObject(c) ==
    /\ api[c].phase \in {"unowned", "live"}
    /\ Write(c, [api[c] EXCEPT !.phase = "deleting"])

\* A user changes Spec.FailureDomains.
EditDomains(c) ==
    /\ "edit" \in Disturbances
    /\ Exists(api[c])
    /\ \E D \in SUBSET Domains \ {api[c].listed} : Write(c, [api[c] EXCEPT !.listed = D])

\* The watch brings the object's latest version, and an event.
CacheSync(c) ==
    /\ cache[c] # api[c]
    /\ cache' = [cache EXCEPT ![c] = api[c]]
    /\ queue' = queue \cup {c}
    /\ UNCHANGED <<api, world, inbox, passes, pollers>>

\* The periodic resync, an event of a control plane machine, or an unpausing.
Event(c) ==
    /\ Exists(cache[c])
    /\ queue' = queue \cup {c}
    /\ UNCHANGED <<objects, world, inbox, passes, pollers>>

\* Nothing tells the controller of what follows: the watch of Clusters only lets
\* creations and unpausings through.

\* The Cluster is deleted; Cluster API then deletes the NomadCluster.
DeleteCluster(c) ==
    /\ ~owner[c].deleting
    /\ owner' = [owner EXCEPT ![c].deleting = TRUE]
    /\ UNCHANGED <<objects, online, queue, inbox, passes, pollers>>

\* The control plane has been seen to work.
Initialize(c) ==
    /\ c \in online
    /\ ~owner[c].initialized
    /\ owner' = [owner EXCEPT ![c].initialized = TRUE]
    /\ UNCHANGED <<objects, online, queue, inbox, passes, pollers>>

ApiServerUp(c) ==
    /\ c \notin online
    /\ online' = online \cup {c}
    /\ UNCHANGED <<objects, owner, queue, inbox, passes, pollers>>

ApiServerDown(c) ==
    /\ "offline" \in Disturbances
    /\ c \in online
    /\ online' = online \ {c}
    /\ UNCHANGED <<objects, owner, queue, inbox, passes, pollers>>

\* The process dies; with it go the goroutines, their map and the channel.
Restart ==
    /\ cache' = api
    /\ queue' = {c \in Clusters : Exists(api[c])}
    /\ inbox' = {}
    /\ pc' = [c \in Clusters |-> "idle"]
    /\ seen' = [c \in Clusters |-> NewOwner]
    /\ before' = [c \in Clusters |-> Blank("none")]
    /\ after' = before'
    /\ requeue' = [c \in Clusters |-> FALSE]
    /\ triggers' = {}
    /\ gpc' = [g \in Goroutines |-> "free"]
    /\ UNCHANGED <<api, world, polled>>

Crash == "crash" \in Disturbances /\ Restart

-----------------------------------------------------------------------------
Begin(c) == Ignore(c) \/ Delete(c) \/ AddFinalizer(c) \/ SetEndpoint(c)

Patch(c, r) == PatchConds(c, r) \/ PatchSpec(c, r) \/ PatchStatus(c, r)

Trigger(c) ==
    SkipTrigger(c) \/ SkipPolled(c) \/ \E g \in Goroutines : StartPolling(c, g)

Pass(c) == Begin(c) \/ Trigger(c) \/ Check(c) \/ Patch(c, "ok")

Goroutine(g) == EndPolling(g) \/ Send(g) \/ Forget(g)

Environment(c) ==
    \/ Create(c) \/ SetOwner(c) \/ DeleteObject(c) \/ CacheSync(c) \/ Event(c)
    \/ DeleteCluster(c) \/ Initialize(c) \/ ApiServerUp(c)

Normal ==
    \/ \E c \in Clusters : Pass(c) \/ Deliver(c) \/ Environment(c)
    \/ \E g \in Goroutines : Goroutine(g)

Disturbance ==
    \/ \E c \in Clusters :
          \/ ApiServerDown(c) \/ EditDomains(c) \/ LookupFails(c)
          \/ \E r \in Outcomes \ {"ok"} : Patch(c, r)
    \/ Crash

Next == Normal \/ Disturbance

Spec == Init /\ [][Next]_vars

-----------------------------------------------------------------------------
(* Safety *)

\* The clusters with a goroutine at this step.
PolledAt(step) == {polled[g] : g \in {h \in Goroutines : gpc[h] = step}}

Running == {g \in Goroutines : gpc[g] # "free"}

\* No two goroutines poll for the same Cluster, which is what apiServerTriggers
\* is there for: the map entry is made before the goroutine starts and removed
\* when it is done, under a lock, while passes and other goroutines go on.
OnePoller == \A g, h \in Running : polled[g] = polled[h] => g = h

\* An entry of apiServerTriggers always has a goroutine that will remove it: a
\* leaked entry would keep a cluster from ever being polled again.
TriggersHavePollers == triggers = {polled[g] : g \in Running}

\* The finalizer is stored before anything else the provider writes of a
\* NomadCluster ("Add finalizer first if not exist to avoid the race condition
\* between init and delete"), also when a pass has read an old copy. Only the
\* failure domains are not held back by it: they are set above that check.
FinalizerFirst ==
    \A c \in Clusters :
        api[c].endpoint \/ api[c].ready \/ api[c].available # "none" => api[c].finalizer

\* No pass over c runs or is queued, and no version of it is on the way.
Resting(c) == pc[c] = "idle" /\ c \notin queue /\ cache[c] = api[c]

\* When a NomadCluster has come to rest, Status.FailureDomains, from which Cluster
\* API places machines, is what the user has listed. A pass sends only how what it
\* has read, which may be old, differs from what it wants, and the list may change
\* under it: whatever that leaves wrong, something must still be on its way to put
\* right.
DomainsCurrent ==
    \A c \in Clusters :
        Resting(c) /\ api[c].phase = "live" => api[c].domains = api[c].listed

\* A NomadCluster that is being deleted never comes to rest: no pass of its asks
\* for another but after an error, so each error of its patch must, or the version
\* that its finalizer is to go from must still be on its way.
DeletionGoesOn == \A c \in Clusters : Deleting(api[c]) => ~Resting(c)

\* A NomadCluster that stays, and whose API server stays reachable.
Up(c) == /\ api[c].phase = "live"
         /\ c \in online
         /\ ~owner[c].deleting

Noticed(c) == api[c].available = "True" /\ api[c].ready /\ api[c].endpoint

\* A goroutine polls, has an event to send or has sent one that is not queued yet.
Coming(c) == c \in PolledAt("polling") \cup PolledAt("sending") \cup inbox

\* A NomadCluster comes to rest, with no goroutine to wake it, only when its status
\* says that its API server is available. A pass that finds it offline asks for no
\* other: it goes by a Cluster it has read before, by an entry in the map whose
\* goroutine may be past its event, and by its own look, later than either. This is
\* for an API server that does not go offline again.
NoLostWakeup ==
    \A c \in Clusters : Up(c) /\ Resting(c) /\ ~Coming(c) => Noticed(c)

-----------------------------------------------------------------------------
(* The invariant behind it. *)

\* The cache only ever lags behind. It shows a finalizer that has been removed
\* since only on an object it already shows as being deleted.
CacheInv(c) ==
    /\ api[c].finalizer => api[c].phase \in {"live", "deleting"}
    /\ api[c].phase = "deleting" => api[c].finalizer
    /\ cache[c].phase = "live" => api[c].phase \in {"live", "deleting", "gone"}
    /\ cache[c].phase \in {"deleting", "gone"} => api[c].phase \in {"deleting", "gone"}
    /\ cache[c].phase = "live" /\ cache[c].finalizer => api[c].finalizer

\* A pass over a live cluster asks for the finalizer, alone if it has not seen
\* it; what it has seen of it stays true while it runs.
PassInv(c) ==
    pc[c] # "idle" =>
        /\ before[c].phase \in {"live", "deleting"}
        /\ api[c].phase \in {"live", "deleting", "gone"}
        /\ before[c].phase = "deleting" =>
              /\ cache[c].phase \in {"deleting", "gone"}
              /\ after[c] = [before[c] EXCEPT !.finalizer = FALSE, !.domains = before[c].listed]
        /\ before[c].phase = "live" =>
              /\ after[c].finalizer
              /\ before[c].finalizer => api[c].finalizer
              /\ ~before[c].finalizer =>
                    after[c] = [before[c] EXCEPT !.finalizer = TRUE, !.domains = before[c].listed]
        /\ pc[c] \in {"trigger", "check"} => before[c].phase = "live" /\ before[c].finalizer

\* While no new version has queued it, a cluster is as its pass has read it; and
\* at rest, the domains that the cache shows are as wanted if they are the stored
\* ones, whatever else the cache has missed.
DomainsInv(c) ==
    /\ pc[c] # "idle" =>
          /\ after[c].domains = before[c].listed
          /\ c \notin queue => cache[c] = before[c]
    /\ (/\ pc[c] = "idle" /\ c \notin queue
        /\ cache[c].phase = "live" /\ api[c].phase = "live"
        /\ api[c].domains = cache[c].domains) => cache[c].domains = cache[c].listed

\* A pass that has seen the deletion and asks for no other pass has given up the
\* finalizer, and with it has gone the object.
GoingInv(c) ==
    /\ Deleting(cache[c]) => cache[c].finalizer
    /\ pc[c] # "idle" /\ Deleting(before[c]) =>
          /\ before[c].finalizer
          /\ pc[c] = "status" /\ ~requeue[c] => api[c].phase = "gone"
    /\ Deleting(cache[c]) /\ Deleting(api[c]) => pc[c] # "idle" \/ c \in queue

InductiveInv ==
    /\ OnePoller
    /\ TriggersHavePollers
    /\ FinalizerFirst
    /\ \A c \in Clusters : CacheInv(c) /\ PassInv(c) /\ DomainsInv(c) /\ GoingInv(c)

\* What a pass has read of the Cluster stays true. While no API server goes
\* offline, its control plane has been initialized, or its goroutine has ended,
\* only when it was online, if the Cluster is not being deleted.
SeenInv(c) ==
    /\ owner[c].initialized => c \in online
    /\ c \in PolledAt("sending") \cup PolledAt("forgetting") =>
          c \in online \/ owner[c].deleting
    /\ pc[c] = "trigger" =>
          /\ seen[c].initialized => owner[c].initialized
          /\ seen[c].deleting => owner[c].deleting

\* But for its failure domains, o is p.
SameButDomains(o, p) ==
    /\ o.phase = p.phase
    /\ o.finalizer = p.finalizer
    /\ o.endpoint = p.endpoint
    /\ o.ready = p.ready
    /\ o.available = p.available

\* Nothing is left to wake c for, if o is what is stored in the end.
Served(c, o) == o.available = "True" \/ owner[c].deleting \/ Coming(c)

\* Past the triggers, the API server is online or a goroutine polls; past its own
\* look, the pass has found it online or the goroutine has its event still to send,
\* unless the event has come. If it asks for no other pass, its calls have stored
\* what it has changed.
WakeInv(c) ==
    /\ pc[c] # "idle" /\ before[c].phase = "live" /\ before[c].finalizer =>
          /\ after[c].ready /\ after[c].endpoint
          /\ pc[c] = "check" =>
                c \in online \/ owner[c].deleting \/ c \in PolledAt("polling")
          /\ pc[c] \in {"conds", "spec", "status"} => Served(c, after[c]) \/ c \in queue
    /\ pc[c] \in {"spec", "status"} /\ before[c].phase = "live" /\ ~requeue[c]
           /\ api[c].phase # "gone" =>
          /\ before[c].available # after[c].available => api[c].available = after[c].available
          /\ pc[c] = "status" =>
                /\ api[c].finalizer
                /\ before[c].endpoint # after[c].endpoint => api[c].endpoint = after[c].endpoint
    /\ (/\ pc[c] = "idle" /\ c \notin queue
        /\ api[c].phase = "live" /\ SameButDomains(cache[c], api[c])) =>
          Served(c, api[c]) /\ api[c].ready /\ api[c].endpoint

\* Inductive while no API server goes offline.
WakingInv == \A c \in Clusters : SeenInv(c) /\ WakeInv(c)

-----------------------------------------------------------------------------
(* The abstract view: entries, pollers and events, by cluster. *)

Polling == INSTANCE ApiServerPolling
              WITH polling <- PolledAt("polling"), sending <- PolledAt("sending")

\* The map, the goroutines and the channel make one poller for each cluster, which
\* sends its event before its entry goes and takes nobody else's entry with it,
\* while passes and goroutines of the same cluster overlap.
RefinesApiServerPolling == Polling!Spec

-----------------------------------------------------------------------------
(* Liveness. The worker, the goroutines, the channel source and the watch go *)
(* on; the queue is fair. The disturbances end. Nothing is assumed of Event:  *)
(* where another pass has to be asked for from outside, the property says so. *)

Fairness ==
    /\ \A c \in Clusters : /\ WF_vars(Pass(c))
                          /\ SF_vars(Begin(c))
                          /\ WF_vars(Deliver(c))
                          /\ WF_vars(CacheSync(c))
    /\ \A g \in Goroutines : WF_vars(Goroutine(g))

NoOutage(c) == [](c \in online => [](c \in online))

\* When its API server is online and never goes offline again, a NomadCluster
\* ends up ready, with an endpoint and with APIServerAvailable true, though no
\* pass ever asks for another one: the goroutine's event, or an error, has to
\* bring it.
AvailabilityNoticed ==
    \A c \in Clusters : NoOutage(c) /\ <>[]Up(c) => <>[]Noticed(c)

\* The same after any outage, if passes are asked for again and again, as the
\* resync does: what a pass has once found does not stay when it is wrong.
OutageNoticed ==
    \A c \in Clusters : <>[]Up(c) /\ []<>(c \in queue) => <>[]Noticed(c)

\* The same while the control plane is not initialized, when a goroutine is to
\* poll ("Block until the target API server is online").
PollingNoticesAvailability ==
    \A c \in Clusters :
        <>[](Up(c) /\ ~owner[c].initialized) => <>[](api[c].available = "True")

\* When the Cluster is being deleted its goroutine ends, and none is started by
\* a pass that has read the Cluster before.
PollersEnd ==
    \A c \in Clusters :
        <>[]owner[c].deleting => <>[](\A g \in Running : polled[g] # c)

\* A NomadCluster that is being deleted is gone in the end.
DeletionCompletes == \A c \in Clusters : Deleting(api[c]) ~> api[c].phase = "gone"
=============================================================================
