-------------------------- MODULE ClusterLifetime --------------------------
(***************************************************************************)
(* What the two controllers promise together: the NomadCluster outlives all *)
(* that is held outside of Kubernetes for its machines. While it is there,  *)
(* guards, jobs and services are taken and given up as ExternalResources    *)
(* says; it goes when no guard is left, and nothing is taken after it.      *)
(***************************************************************************)
CONSTANT Names

VARIABLES present, guarded, jobs, services

Resources == INSTANCE ExternalResources

vars == <<present, Resources!vars>>

\* A cluster that is up, with whatever it has.
Init == present = TRUE /\ Resources!TypeOK /\ Resources!Nested

Hold ==
    /\ present
    /\ Resources!Next
    /\ UNCHANGED present

End ==
    /\ present
    /\ guarded = {}
    /\ present' = FALSE
    /\ UNCHANGED Resources!vars

Next == Hold \/ End

Spec == Init /\ [][Next]_vars
=============================================================================
