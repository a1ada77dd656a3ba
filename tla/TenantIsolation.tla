-------------------------- MODULE TenantIsolation ---------------------------
(***************************************************************************)
(* What v1 promises its tenants about containers, without registry, pool,   *)
(* tasks or processes: a container serves one pair at a time, and between   *)
(* two pairs it is withdrawn and reset; a container made for one tenant is  *)
(* never supplied again.                                                    *)
(***************************************************************************)
CONSTANTS Containers, Keys, None

VARIABLES
    place,        \* container -> "none", "out", "clean" (fit for a tenant) or "held"
    tenant,       \* container -> the pair that holds it
    dirty,        \* containers in which a tenant ran something since the last reset
    dedicated     \* containers made for one tenant

vars == <<place, tenant, dirty, dedicated>>

Init ==
    /\ place = [c \in Containers |-> "none"]
    /\ tenant = [c \in Containers |-> None]
    /\ dirty = {}
    /\ dedicated = {}

\* Containers are made, not yet fit for anyone.
Make(cs) ==
    /\ \A c \in cs : place[c] = "none"
    /\ place' = [c \in Containers |-> IF c \in cs THEN "out" ELSE place[c]]
    /\ UNCHANGED <<tenant, dirty, dedicated>>

\* A container is made for a tenant that waits for it.
MakeFor(c) ==
    /\ place[c] = "none"
    /\ place' = [place EXCEPT ![c] = "clean"]
    /\ dedicated' \in {dedicated, dedicated \union {c}}
    /\ UNCHANGED <<tenant, dirty>>

\* A container becomes fit for any tenant, without a trace of an earlier one.
Supply(c) ==
    /\ place[c] = "out"
    /\ c \notin dedicated
    /\ place' = [place EXCEPT ![c] = "clean"]
    /\ dirty' = dirty \ {c}
    /\ UNCHANGED <<tenant, dedicated>>

Assign(c, k) ==
    /\ place[c] = "clean"
    /\ place' = [place EXCEPT ![c] = "held"]
    /\ tenant' = [tenant EXCEPT ![c] = k]
    /\ UNCHANGED <<dirty, dedicated>>

Use(c) ==
    /\ place[c] = "held"
    /\ dirty' = dirty \union {c}
    /\ UNCHANGED <<place, tenant, dedicated>>

\* Released, reclaimed, destroyed, lost or forgotten, several at a time.
Withdraw(cs) ==
    /\ \A c \in cs : place[c] # "none"
    /\ place' = [c \in Containers |-> IF c \in cs THEN "out" ELSE place[c]]
    /\ tenant' = [c \in Containers |-> IF c \in cs THEN None ELSE tenant[c]]
    /\ UNCHANGED <<dirty, dedicated>>

Next ==
    \/ \E cs \in SUBSET Containers : Make(cs) \/ Withdraw(cs)
    \/ \E c \in Containers : MakeFor(c) \/ Supply(c) \/ Use(c)
    \/ \E c \in Containers, k \in Keys : Assign(c, k)

Spec == Init /\ [][Next]_vars
=============================================================================
