------------------------- MODULE ExternalResources -------------------------
(***************************************************************************)
(* What the NomadMachine controller promises about the things it makes      *)
(* outside of Kubernetes. For the Machine of each name there is at most     *)
(*   - a guard: a NomadMachine object stored with the provider's finalizer, *)
(*   - a job, which runs its virtual machine,                               *)
(*   - a service, which sends API server traffic to it.                     *)
(* They are taken in this order and given up in the opposite one.           *)
(***************************************************************************)
CONSTANT Names

VARIABLES guarded, jobs, services

vars == <<guarded, jobs, services>>

TypeOK == /\ guarded \subseteq Names
          /\ jobs \subseteq Names
          /\ services \subseteq Names

Init == guarded = {} /\ jobs = {} /\ services = {}

Guard(n) ==
    /\ guarded' = guarded \cup {n}
    /\ UNCHANGED <<jobs, services>>

Claim(n) ==
    /\ n \in guarded
    /\ jobs' = jobs \cup {n}
    /\ UNCHANGED <<guarded, services>>

Publish(n) ==
    /\ n \in jobs
    /\ services' = services \cup {n}
    /\ UNCHANGED <<guarded, jobs>>

Withdraw(n) ==
    /\ services' = services \ {n}
    /\ UNCHANGED <<guarded, jobs>>

Free(n) ==
    /\ n \notin services
    /\ jobs' = jobs \ {n}
    /\ UNCHANGED <<guarded, services>>

Unguard(n) ==
    /\ n \notin jobs \cup services
    /\ guarded' = guarded \ {n}
    /\ UNCHANGED <<jobs, services>>

Next == \E n \in Names :
    Guard(n) \/ Claim(n) \/ Publish(n) \/ Withdraw(n) \/ Free(n) \/ Unguard(n)

Spec == Init /\ [][Next]_vars

\* A service is only there with a job, and a job only under a guard.
Nested == services \subseteq jobs /\ jobs \subseteq guarded
=============================================================================
