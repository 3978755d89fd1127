--------------------------- MODULE MCNomadTeardown ---------------------------
(***************************************************************************)
(* NomadTeardown with few machines and at most MaxDisturbances disturbances. *)
(***************************************************************************)
EXTENDS NomadTeardown, TLC

CONSTANTS m1, n1, c1, g1, MaxDisturbances

VARIABLE disturbed

MCNameOne == m1 :> n1

MCInit == Init /\ disturbed = 0

MCNext ==
    \/ Normal /\ UNCHANGED disturbed
    \/ /\ disturbed < MaxDisturbances
       /\ Disturbance
       /\ disturbed' = disturbed + 1

MCSpec == MCInit /\ [][MCNext]_<<vars, disturbed>> /\ Fairness
=============================================================================
