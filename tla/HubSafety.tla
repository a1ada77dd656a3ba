------------------------------ MODULE HubSafety -----------------------------
(* What v1's tenants may rely on: properties of the Hub's behaviours.        *)
EXTENDS Hub

\* Containers that are being handed to a tenant: popped from the pool, or
\* created for it, and not yet in the registry.
InTransit(c) ==
    {r \in Requests : requests[r].pc \in {"check", "cold"} /\ requests[r].container = c}

ReadyOn(c) == {s \in ListReady : ContainerOf(s) = c}

(* Tenants never share a container: it is registered to one ready sandbox,  *)
(* or being cleaned by one release, or once in the pool, or being handed    *)
(* out, but never two of these. A second clean-up, a reclaim that overtakes *)
(* a release or an entry appended twice would hand one container to two     *)
(* tenants. (warm_pool.release, registry.evict's if_last_active_at)         *)
TenantsApart ==
    \A c \in Containers :
        /\ pool[c] + cleaning[c] <= 1
        /\ ReadyOn(c) \union InTransit(c) # {} => pool[c] + cleaning[c] = 0
        /\ \A s, t \in ReadyOn(c) : s = t
        /\ \A q, r \in InTransit(c) : q = r
        /\ ReadyOn(c) = {} \/ InTransit(c) = {}

(* No tenant's leftovers are in the pool: every path into it (refill,       *)
(* release, adoption at start-up) resets a container a tenant ran in.       *)
PooledIsReset == PoolContainerIds \intersect used = {}

(* A container with a tenant's workspace, variables or files never enters   *)
(* the shared pool and is never popped from it, also after a restart that   *)
(* only has the container's labels to go by.                                *)
DedicatedNeverShared ==
    \A c \in Containers : Dedicated(c) => pool[c] = 0 /\ cleaning[c] = 0

\* All acquires of the pair so far bring input files.
OnlyInputs(k) ==
    \A r \in Requests : requests[r].key = k => requests[r].shape = "inputs"

(* Acquires that bring input files are serialised per pair: a pair that      *)
(* makes no others has at most one ready sandbox, and an acquire finds it.   *)
(* One acquire without the lock is enough to lose a ready sandbox, and with  *)
(* it this (see ReadyIsReused). (sandboxes.acquire_sandbox, _input_locks)    *)
OneInputsSandbox ==
    \A s \in ListReady : OnlyInputs(KeyOf(s)) => index[KeyOf(s)] = s

-----------------------------------------------------------------------------
\* Where a container stands between tenants.
Place(c) == IF ReadyOn(c) # {} THEN "held"
            ELSE IF pool[c] > 0 \/ InTransit(c) # {} THEN "clean"
            ELSE IF docker[c] = "none" THEN "none" ELSE "out"

Tenant(c) == IF ReadyOn(c) = {} THEN None ELSE KeyOf(CHOOSE s \in ReadyOn(c) : TRUE)

Isolation == INSTANCE TenantIsolation WITH
    place     <- [c \in Containers |-> Place(c)],
    tenant    <- [c \in Containers |-> Tenant(c)],
    dirty     <- used,
    dedicated <- {c \in Containers : Dedicated(c)}

(* Every step of the Hub, restarts and background tasks included, is one     *)
(* that keeps tenants apart: no container goes from one pair to another      *)
(* without being withdrawn and reset in between.                             *)
KeepsTenantsApart == Isolation!Spec

-----------------------------------------------------------------------------
(* While a container is being handed out, the Hub does not remove it: what  *)
(* an acquire registers is not a container the Hub itself has destroyed.    *)
(* (_pop_healthy: a dead container is never given out)                      *)
TransitIsSafe ==
    [][\A r \in Requests : requests[r].pc = "check" =>
          \A c \in doomed' \ doomed : requests[r].container = c => requests'[r].pc = "discard"]_vars

(* Step 3b takes a container out of the pool only when it has really        *)
(* disappeared from the engine.                                             *)
OnlyVanishedLeavePool ==
    [][\A c \in Containers : RoundRelisted /\ pool'[c] < pool[c] => docker[c] \in {"stopped", "gone"}]_vars

(* A pair whose sandbox is ready is given that sandbox again.               *)
ReadyIsReused ==
    \A s \in ListReady : index[KeyOf(s)] # None

(* Graceful shutdown leaves no container behind.                            *)
NothingLeftRunning == phase = "down" => Running = {}

-----------------------------------------------------------------------------
\* The loops, the tasks and the engine's answers go on; tenants need not.
Progress ==
    /\ WF_vars(RecoverList \/ Serve \/ \E c \in Containers : RecoverRemove(c) \/ RecoverAdopt(c))
    /\ WF_vars(Exit)
    /\ WF_vars(RoundList \/ RoundStep)
    /\ \A r \in Requests : WF_vars(AcquireStep(r))
    /\ \A c \in Containers :
          /\ WF_vars(PoolTask(c))
          /\ WF_vars((Boot(c) \/ RemoveReturns(c) \/ Age(c)) /\ EngineStep(c))

FairSpec == Spec /\ Progress

\* A container somebody in the process knows about, or that is being removed.
Known(c) ==
    \/ c \in TrackedContainerIds \union PoolContainerIds \union warming \union doomed \union recovered
    \/ cleaning[c] > 0
    \/ InTransit(c) # {}

(* No container runs on unnoticed: one that a crash, a failed removal or an *)
(* eviction left behind is removed, or adopted by the next start. Only a     *)
(* process that was shut down, and is not started again, leaves it alone.    *)
OrphansAreReclaimed ==
    \A c \in Containers :
        docker[c] = "running" /\ ~Known(c)
            ~> docker[c] # "running" \/ Known(c) \/ phase = "down"
=============================================================================
