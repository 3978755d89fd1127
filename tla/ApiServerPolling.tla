-------------------------- MODULE ApiServerPolling --------------------------
(***************************************************************************)
(* What ReconcileNomadClusterWhenAPIServerIsOnline promises. For a cluster  *)
(* there is at most one poller, as long as its entry of apiServerTriggers   *)
(* is there. A poller that has seen enough sends one event, and only then   *)
(* can another one start. Nothing but the end of the process takes a poller *)
(* away, or an event that has been sent and not received.                   *)
(***************************************************************************)
CONSTANT Clusters

VARIABLES
    triggers,   \* the clusters that have an entry
    polling,    \* of these, the ones whose API server is asked
    sending,    \* and the ones whose event is due
    inbox       \* the events that have been sent

vars == <<triggers, polling, sending, inbox>>

Init == triggers = {} /\ polling = {} /\ sending = {} /\ inbox = {}

Start(c) ==
    /\ c \notin triggers
    /\ triggers' = triggers \cup {c}
    /\ polling' = polling \cup {c}
    /\ UNCHANGED <<sending, inbox>>

EndPolling(c) ==
    /\ c \in polling
    /\ polling' = polling \ {c}
    /\ sending' = sending \cup {c}
    /\ UNCHANGED <<triggers, inbox>>

Send(c) ==
    /\ c \in sending
    /\ sending' = sending \ {c}
    /\ inbox' = inbox \cup {c}
    /\ UNCHANGED <<triggers, polling>>

Forget(c) ==
    /\ c \in triggers \ (polling \cup sending)
    /\ triggers' = triggers \ {c}
    /\ UNCHANGED <<polling, sending, inbox>>

Receive(c) ==
    /\ c \in inbox
    /\ inbox' = inbox \ {c}
    /\ UNCHANGED <<triggers, polling, sending>>

Restart == triggers' = {} /\ polling' = {} /\ sending' = {} /\ inbox' = {}

Next ==
    \/ \E c \in Clusters :
          Start(c) \/ EndPolling(c) \/ Send(c) \/ Forget(c) \/ Receive(c)
    \/ Restart

Spec == Init /\ [][Next]_vars
=============================================================================
