--------------------------- MODULE MCNomadCluster ---------------------------
(***************************************************************************)
(* NomadCluster on small instances. A behaviour has at most MaxDisturbances *)
(* of its Disturbance steps: failed or lost calls, crashes, an API server   *)
(* that goes offline.                                                       *)
(***************************************************************************)
EXTENDS NomadCluster

CONSTANTS d1, c1, g1, g2, MaxDisturbances

VARIABLE disturbed

MCInit == Init /\ disturbed = 0

MCNext ==
    \/ Normal /\ UNCHANGED disturbed
    \/ /\ disturbed < MaxDisturbances
       /\ Disturbance
       /\ disturbed' = disturbed + 1

\* No goroutine differs from another, so one that starts may be taken to be the first
\* that is free.
InOrder == gpc[g1] = "free" => ~(gpc[g2] = "free" /\ gpc'[g2] # "free")

MCSpec == MCInit /\ [][MCNext]_<<vars, disturbed>>
MCInOrderSpec == MCInit /\ [][MCNext /\ InOrder]_<<vars, disturbed>>
MCFairSpec == MCSpec /\ Fairness
=============================================================================
