------------------------------- MODULE Engine -------------------------------
(***************************************************************************)
(* The container engine as SandboxHub sees it through ContainerManager:    *)
(* containers are created, run, die and are removed asynchronously with    *)
(* respect to the Hub, whose calls (docker run, docker rm, docker ps) are  *)
(* made in worker threads and answered later.                              *)
(*                                                                         *)
(* A container id is used once: it is "none" before docker run is called,  *)
(* "creating" while the call is in flight, and "gone" for ever after.      *)
(***************************************************************************)
EXTENDS Ids

CONSTANTS
    Shapes,       \* the shapes of sandbox that callers ask for
    Adversity     \* what may go wrong in this instance, a subset of Mishaps

\* "plain" comes out of the warm pool; the other three are created for one
\* tenant (a mounted workspace, injected variables, a view of input files).
AllShapes == {"plain", "mounted", "env", "inputs"}

\* die:    a container stops or is removed behind the Hub's back
\* flaky:  a probe or a network switch of a running container fails
\* rm:     docker rm fails (the Hub only logs it)
\* list:   docker ps fails (the Hub sees an empty list)
\* slow:   a creation outlasts the orphan grace, or a clean-up the released TTL
\* soft:   a reset call answers with an error status
\* again:  a caller releases a sandbox it has already released
Mishaps == {"die", "flaky", "rm", "list", "slow", "soft", "again"}

ASSUME EngineAssumption == /\ Shapes \subseteq AllShapes
                           /\ Adversity \subseteq Mishaps

VARIABLES
    docker,       \* container -> what the engine holds under that id
    kind,         \* container -> its shape, kept in its labels
    old,          \* containers older than ORPHAN_GRACE_SECONDS
    doomed        \* containers a docker rm call is in flight for

engineVars == <<docker, kind, old, doomed>>

EngineTypeOK ==
    /\ docker \in [Containers -> {"none", "creating", "running", "stopped", "gone"}]
    /\ kind \in [Containers -> AllShapes]
    /\ old \subseteq Containers
    /\ doomed \subseteq Containers

EngineInit ==
    /\ docker = [c \in Containers |-> "none"]
    /\ kind = [c \in Containers |-> "plain"]
    /\ old = {}
    /\ doomed = {}

May(mishap) == mishap \in Adversity

Absent  == {c \in Containers : docker[c] = "none"}
Running == {c \in Containers : docker[c] = "running"}
Stopped == {c \in Containers : docker[c] = "stopped"}

Dedicated(c) == kind[c] # "plain"

\* A TCP probe of the container's API port, or a network switch that ends with
\* one: it can only succeed on a running container, and may fail on any.
ProbeOk(c)    == docker[c] = "running"
ProbeFails(c) == docker[c] # "running" \/ May("flaky")

-----------------------------------------------------------------------------
\* What the Hub's calls do to the engine.

\* run_container: docker run is handed to a worker thread.
Create(cs, shape) ==
    /\ docker' = [c \in Containers |-> IF c \in cs THEN "creating" ELSE docker[c]]
    /\ kind' = [c \in Containers |-> IF c \in cs THEN shape ELSE kind[c]]
    /\ UNCHANGED <<old, doomed>>

\* remove_container: docker rm --force is handed to a worker thread.
Remove(cs) ==
    /\ doomed' = doomed \union cs
    /\ UNCHANGED <<docker, kind, old>>

-----------------------------------------------------------------------------
\* What happens in the engine on its own.

\* docker run returns with a running container that has an address, or fails
\* and leaves nothing behind.
Boot(c) ==
    /\ docker[c] = "creating"
    /\ \E s \in {"running", "gone"} : docker' = [docker EXCEPT ![c] = s]
    /\ UNCHANGED <<kind, old, doomed>>

\* docker rm returns. NotFound counts as success; a failure is only logged and
\* the caller goes on as if the container were gone.
RemoveReturns(c) ==
    /\ c \in doomed
    /\ doomed' = doomed \ {c}
    /\ \/ docker' = [docker EXCEPT ![c] = "gone"]
       \/ May("rm") /\ UNCHANGED docker
    /\ UNCHANGED <<kind, old>>

\* The container process exits (OOM, host restart) or is removed by hand.
Die(c) ==
    /\ May("die")
    /\ docker[c] = "running"
    /\ \E s \in {"stopped", "gone"} : docker' = [docker EXCEPT ![c] = s]
    /\ UNCHANGED <<kind, old, doomed>>

\* ORPHAN_GRACE_SECONDS pass since the container was created.
Age(c) ==
    /\ docker[c] = "running"
    /\ c \notin old
    /\ old' = old \union {c}
    /\ UNCHANGED <<docker, kind, doomed>>

\* docker ps as list_managed reports it: the true set, or nothing at all.
Listings(cs) == IF May("list") THEN {cs, {}} ELSE {cs}
=============================================================================
