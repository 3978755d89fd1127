--------------------------- MODULE MCNomadMachine ---------------------------
(***************************************************************************)
(* NomadMachine on small instances. A behaviour has at most MaxDisturbances *)
(* of its Disturbance steps: failed or lost calls, panics, crashes, pauses. *)
(***************************************************************************)
EXTENDS NomadMachine, TLC

CONSTANTS m1, m2, n1, n2, MaxDisturbances

\* Every machine has a Machine of its own name; or two Machines, of different
\* namespaces, have the same one.
MCNameOne == m1 :> n1
MCNameTwo == m1 :> n1 @@ m2 :> n2
MCNameShared == m1 :> n1 @@ m2 :> n1

VARIABLE disturbed

\* Machines that are made before their cluster, perhaps without a failure domain.
MCNewInit ==
    /\ Init
    /\ cluster = "missing" /\ bootstrap = {} /\ ~apiOnline
    /\ disturbed = 0

\* Machines that are made for a cluster that is up.
MCUpInit ==
    /\ Init
    /\ cluster = "ready" /\ bootstrap = Machines /\ homeless = {} /\ apiOnline
    /\ disturbed = 0

\* Machines that are deployed and have converged.
Deployed(m) ==
    [Blank("live") EXCEPT
        !.finalizer = TRUE, !.providerID = <<Name[m], 1>>, !.ready = TRUE,
        !.deployment = "successful", !.deployedCond = "deployed",
        !.dnsAttached = m \in ControlPlane,
        !.dnsCond = IF m \in ControlPlane THEN "attached" ELSE "none"]

MCDeployedInit ==
    /\ api = [m \in Machines |-> Deployed(m)]
    /\ cache = api
    /\ cluster = "ready" /\ paused = FALSE /\ apiOnline = TRUE
    /\ bootstrap = Machines /\ homeless = {}
    /\ jobs = [n \in Names |->
                  [registered |-> TRUE, deployment |-> 1, status |-> "successful"]]
    /\ services = {Name[m] : m \in ControlPlane}
    /\ nodes = [n \in Names |-> <<n, 1>>]
    /\ queue = {}
    /\ pc = [m \in Machines |-> "idle"]
    /\ before = [m \in Machines |-> Blank("none")]
    /\ after = before
    /\ requeue = [m \in Machines |-> FALSE]
    /\ disturbed = 0

MCNext ==
    \/ Normal /\ UNCHANGED disturbed
    \/ /\ disturbed < MaxDisturbances
       /\ Disturbance
       /\ disturbed' = disturbed + 1

MCNewSpec == MCNewInit /\ [][MCNext]_<<vars, disturbed>>
MCUpSpec == MCUpInit /\ [][MCNext]_<<vars, disturbed>>

MCNewFairSpec == MCNewInit /\ [][MCNext]_<<vars, disturbed>> /\ Fairness
MCUpResyncSpec == MCUpSpec /\ Fairness /\ WF_vars(Resync)
MCDeployedFairSpec == MCDeployedInit /\ [][MCNext]_<<vars, disturbed>> /\ Fairness
=============================================================================
