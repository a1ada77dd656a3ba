--------------------------------- MODULE Hub --------------------------------
(***************************************************************************)
(* SandboxHub's v1 sandboxes: the acquire, release, proxy, policy and drain *)
(* requests, the warm pool's background tasks, the reconciler's loop and    *)
(* the process's start, shutdown and crash, all on one registry, one pool   *)
(* and one container engine.                                               *)
(*                                                                         *)
(* The Hub is one asyncio event loop. An action is the code between two     *)
(* awaits that really suspend; everything a coroutine remembers across an   *)
(* await is in its own variable, and may be stale when it goes on.          *)
(***************************************************************************)
EXTENDS Engine, SandboxRegistry, WarmPool

CONSTANTS
    Requests,     \* acquire calls; each arrives at most once
    MaxCrashes,   \* bound on process restarts
    Reconciling,  \* whether the reconciler's loop runs in this instance
    MaxDrains     \* bound on admin drains

ASSUME HubAssumption == /\ {MaxCrashes, MaxDrains} \subseteq Nat
                        /\ Reconciling \in BOOLEAN

VARIABLES
    requests,     \* acquire call -> what its coroutine remembers
    suspects,     \* sandboxes that evict_if_dead tasks are probing
    policy,       \* sandboxes an apply_policy call has still to switch
    round,        \* the reconciler's coroutine
    drainer,      \* the admin drain's coroutine
    draining,     \* v1 acquires are refused
    phase,        \* where the process is in its life
    recovered,    \* what start-up recovery has still to look at
    budget,       \* restarts and drains left
    used          \* history: containers a tenant ran in since they were reset

hubVars == <<requests, suspects, policy, round, drainer, draining, phase,
             recovered, budget, used>>
vars == <<engineVars, registryVars, poolVars, hubVars>>

Request == [pc : {"new", "probing", "preparing", "reuse", "evicting", "check",
                  "discard", "cold", "served", "failed"},
            key : Keys \union {None},
            shape : AllShapes,
            sandbox : Sandboxes \union {None},
            container : Containers \union {None}]

Round == [pc : {"idle", "listing", "stopped", "orphans", "missing", "relist",
                "relisting", "reclaim", "probing", "releasing"},
          listed : SUBSET Containers,     \* running, as docker ps reported
          exited : SUBSET Containers,     \* not running, as docker ps reported
          todo : SUBSET (Containers \union Sandboxes),
          at : Containers \union Sandboxes \union {None}]

Drainer == [pc : {"idle", "emptying", "scan", "probing", "destroying", "forcing"},
            todo : SUBSET (Containers \union Sandboxes),
            at : Sandboxes \union {None},
            busy : BOOLEAN]     \* this pass met a sandbox that is not idle

TypeOK ==
    /\ EngineTypeOK
    /\ RegistryTypeOK
    /\ PoolTypeOK
    /\ requests \in [Requests -> Request]
    /\ suspects \subseteq Sandboxes
    /\ policy \subseteq Sandboxes
    /\ round \in Round
    /\ drainer \in Drainer
    /\ draining \in BOOLEAN
    /\ phase \in {"down", "starting", "recovering", "serving", "stopping"}
    /\ recovered \subseteq Containers
    /\ budget \in [crashes : Nat, drains : Nat]
    /\ used \subseteq Containers

NewRequest == [pc |-> "new", key |-> None, shape |-> "plain", sandbox |-> None, container |-> None]
NoRound == [pc |-> "idle", listed |-> {}, exited |-> {}, todo |-> {}, at |-> None]
NoDrain == [pc |-> "idle", todo |-> {}, at |-> None, busy |-> FALSE]

Init ==
    /\ EngineInit
    /\ RegistryInit
    /\ PoolInit
    /\ requests = [r \in Requests |-> NewRequest]
    /\ suspects = {}
    /\ policy = {}
    /\ round = NoRound
    /\ drainer = NoDrain
    /\ draining = FALSE
    /\ phase = "starting"
    /\ recovered = {}
    /\ budget = [crashes |-> MaxCrashes, drains |-> MaxDrains]
    /\ used = {}

ContainerOf(s) == records[s].container
KeyOf(s) == records[s].key

-----------------------------------------------------------------------------
\* Steps that several handlers share.

\* Mutants of ReleaseToPool: no reset; no look at what was mounted.
ReleaseUnreset(c) == PoolRestore(c) /\ UNCHANGED engineVars
ReleaseAlike(c) == CleanStart(c) /\ UNCHANGED engineVars

\* WarmPool.release: a tenant's own container is unmounted and removed, a
\* plain one is reset by a task of its own.
ReleaseToPool(c) ==
    IF Dedicated(c)
    THEN Remove({c}) /\ UNCHANGED poolVars
    ELSE CleanStart(c) /\ UNCHANGED engineVars

\* reconciler.destroy_sandbox: evict the record, remove its container.
DestroySandbox(s) ==
    /\ Evict(s)
    /\ Remove({ContainerOf(s)})

Await(r, pc) == requests' = [requests EXCEPT ![r].pc = pc]

\* _registry.register at the end of an acquire; the id is fresh.
RegisterFor(r, c) ==
    \E s \in Sandboxes :
        /\ Register(s, c, requests[r].key)
        /\ requests' = [requests EXCEPT ![r].pc = "served", ![r].sandbox = s]

\* A cold start: docker run for a container of the wanted shape.
ColdStart(r, k, shape) ==
    \E c \in Absent :
        /\ Create({c}, shape)
        /\ requests' = [requests EXCEPT ![r] =
               [pc |-> "cold", key |-> k, shape |-> shape, sandbox |-> None, container |-> c]]
        /\ UNCHANGED poolVars

\* No sandbox to reuse: only a plain request may take from the pool, and only
\* an empty pool sends it to a cold start.
Allocate(r, k, shape) ==
    IF shape = "plain" /\ PoolContainerIds # {}
    THEN \E c \in Containers :
            /\ PoolPop(c)
            /\ requests' = [requests EXCEPT ![r] =
                   [pc |-> "check", key |-> k, shape |-> shape, sandbox |-> None, container |-> c]]
            /\ UNCHANGED engineVars
    ELSE ColdStart(r, k, shape)

\* find_active: probe the sandbox it names, unless it lacks the input files
\* this request brings, in which case it is destroyed at once.
Lookup(r, k, shape) ==
    LET s == FindActive(k) IN
    IF s = None
    THEN Allocate(r, k, shape) /\ UNCHANGED registryVars
    ELSE IF shape = "inputs" /\ kind[ContainerOf(s)] # "inputs"
    THEN /\ DestroySandbox(s)
         /\ requests' = [requests EXCEPT ![r] =
                [pc |-> "evicting", key |-> k, shape |-> shape, sandbox |-> s,
                 container |-> ContainerOf(s)]]
         /\ UNCHANGED poolVars
    ELSE /\ requests' = [requests EXCEPT ![r] =
                [pc |-> "reuse", key |-> k, shape |-> shape, sandbox |-> s,
                 container |-> ContainerOf(s)]]
         /\ UNCHANGED <<engineVars, registryVars, poolVars>>


-----------------------------------------------------------------------------
\* POST /acquire

inFlight == {"probing", "preparing", "reuse", "evicting", "check", "discard", "cold"}

\* Mutant of InputsLocked: no lock.
InputsUnlocked(k) == FALSE

\* Requests that bring input files are serialised per pair; others are not.
InputsLocked(k) ==
    \E q \in Requests : /\ requests[q].pc \in inFlight
                        /\ requests[q].shape = "inputs"
                        /\ requests[q].key = k

\* An acquire arrives. With input files it first makes sure that a sandbox it
\* would have to replace is idle, and materialises the files.
Arrive(r, k, shape) ==
    /\ requests[r].pc = "new"
    /\ phase = "serving"
    /\ IF draining
       THEN Await(r, "failed") /\ UNCHANGED <<engineVars, registryVars, poolVars>>
       ELSE IF shape = "inputs"
       THEN LET s == FindActive(k)
                busy == s # None /\ kind[ContainerOf(s)] # "inputs"
            IN /\ ~InputsLocked(k)
               /\ requests' = [requests EXCEPT ![r] =
                      [pc |-> IF busy THEN "probing" ELSE "preparing",
                       key |-> k, shape |-> shape, sandbox |-> None, container |-> None]]
               /\ UNCHANGED <<engineVars, registryVars, poolVars>>
       ELSE Lookup(r, k, shape)
    /\ UNCHANGED <<suspects, policy, round, drainer, draining, phase, recovered, budget, used>>

\* The terminal of the sandbox to be replaced is idle, or the caller gets 409.
CandidateProbed(r) ==
    /\ requests[r].pc = "probing"
    /\ \E pc \in {"preparing", "failed"} : Await(r, pc)
    /\ UNCHANGED <<engineVars, registryVars, poolVars, suspects, policy, round,
                   drainer, draining, phase, recovered, budget, used>>

\* The files are in place and the registry is consulted again, or they are not.
Prepared(r) ==
    /\ requests[r].pc = "preparing"
    /\ \/ Lookup(r, requests[r].key, requests[r].shape)
       \/ Await(r, "failed") /\ UNCHANGED <<engineVars, registryVars, poolVars>>
    /\ UNCHANGED <<suspects, policy, round, drainer, draining, phase, recovered, budget, used>>

\* The sandbox found at lookup answers its probe and is on the right network.
\* Its record may have left the registry meanwhile: touch is then a no-op.
ReuseOk(r) ==
    /\ requests[r].pc = "reuse"
    /\ ProbeOk(requests[r].container)
    /\ Touch(requests[r].sandbox)
    /\ Await(r, "served")
    /\ UNCHANGED <<engineVars, poolVars, suspects, policy, round, drainer,
                   draining, phase, recovered, budget, used>>

\* It does not: the sandbox looked up is destroyed, whatever became of it.
ReuseFails(r) ==
    /\ requests[r].pc = "reuse"
    /\ ProbeFails(requests[r].container)
    /\ DestroySandbox(requests[r].sandbox)
    /\ Await(r, "evicting")
    /\ UNCHANGED <<poolVars, suspects, policy, round, drainer, draining, phase,
                   recovered, budget, used>>

\* The container that stood in the way is gone; so is the candidate popped
\* from the pool that failed its probe. Try the pool, then a cold start.
Retry(r) ==
    /\ requests[r].pc \in {"evicting", "discard"}
    /\ requests[r].container \notin doomed
    /\ Allocate(r, requests[r].key, requests[r].shape)
    /\ UNCHANGED <<registryVars, suspects, policy, round, drainer, draining,
                   phase, recovered, budget, used>>

\* _pop_healthy: the popped container passes and is registered.
CheckOk(r) ==
    /\ requests[r].pc = "check"
    /\ ProbeOk(requests[r].container)
    /\ RegisterFor(r, requests[r].container)
    /\ UNCHANGED <<engineVars, poolVars, suspects, policy, round, drainer,
                   draining, phase, recovered, budget, used>>

CheckFails(r) ==
    /\ requests[r].pc = "check"
    /\ ProbeFails(requests[r].container)
    /\ Remove({requests[r].container})
    /\ Await(r, "discard")
    /\ UNCHANGED <<registryVars, poolVars, suspects, policy, round, drainer,
                   draining, phase, recovered, budget, used>>

\* run_container returns a healthy (and mounted) container.
ColdOk(r) ==
    /\ requests[r].pc = "cold"
    /\ ProbeOk(requests[r].container)
    /\ RegisterFor(r, requests[r].container)
    /\ UNCHANGED <<engineVars, poolVars, suspects, policy, round, drainer,
                   draining, phase, recovered, budget, used>>

\* It never became healthy, or never booted: it is removed, the caller gets 503.
ColdFails(r) ==
    /\ requests[r].pc = "cold"
    /\ docker[requests[r].container] # "creating"
    /\ ProbeFails(requests[r].container)
    /\ Remove({requests[r].container})
    /\ Await(r, "failed")
    /\ UNCHANGED <<registryVars, poolVars, suspects, policy, round, drainer,
                   draining, phase, recovered, budget, used>>

AcquireStep(r) ==
    \/ CandidateProbed(r) \/ Prepared(r) \/ ReuseOk(r) \/ ReuseFails(r)
    \/ Retry(r) \/ CheckOk(r) \/ CheckFails(r) \/ ColdOk(r) \/ ColdFails(r)

-----------------------------------------------------------------------------
\* The other requests

\* POST /{sandbox}/release. The record may be one that is released already.
Release(s) ==
    /\ phase = "serving"
    /\ s \in ListReady \/ May("again")
    /\ MarkReleased(s)
    /\ ReleaseToPool(ContainerOf(s))
    /\ UNCHANGED hubVars

\* A proxied request: the tenant runs something in its container.
Proxy(s) ==
    /\ phase = "serving"
    /\ s \in ListReady
    /\ Touch(s)
    /\ used' = used \union {ContainerOf(s)}
    /\ UNCHANGED <<engineVars, poolVars, requests, suspects, policy, round,
                   drainer, draining, phase, recovered, budget>>

\* A proxied request that ends in 502 starts evict_if_dead, which finds the
\* record ready and probes its container.
ProxyUnreachable(s) ==
    /\ phase = "serving"
    /\ s \in ListReady
    /\ ProbeFails(ContainerOf(s))
    /\ Touch(s)
    /\ suspects' = suspects \union {s}
    /\ UNCHANGED <<engineVars, poolVars, requests, policy, round, drainer,
                   draining, phase, recovered, budget, used>>

SuspectAlive(s) ==
    /\ s \in suspects
    /\ ProbeOk(ContainerOf(s))
    /\ suspects' = suspects \ {s}
    /\ UNCHANGED <<engineVars, registryVars, poolVars, requests, policy, round,
                   drainer, draining, phase, recovered, budget, used>>

\* The record looked up before the probe is evicted, its container removed.
SuspectDead(s) ==
    /\ s \in suspects
    /\ ProbeFails(ContainerOf(s))
    /\ suspects' = suspects \ {s}
    /\ DestroySandbox(s)
    /\ UNCHANGED <<poolVars, requests, policy, round, drainer, draining, phase,
                   recovered, budget, used>>

\* POST /policy/apply: switch every ready sandbox, one after the other.
PolicyApply ==
    /\ phase = "serving"
    /\ policy = {}
    /\ policy' = ListReady
    /\ UNCHANGED <<engineVars, registryVars, poolVars, requests, suspects, round,
                   drainer, draining, phase, recovered, budget, used>>

\* One of them is on the new network, or cannot be put there and is destroyed.
PolicyStep(s) ==
    /\ s \in policy
    /\ policy' = policy \ {s}
    /\ \/ ProbeOk(ContainerOf(s)) /\ UNCHANGED <<engineVars, registryVars>>
       \/ ProbeFails(ContainerOf(s)) /\ DestroySandbox(s)
    /\ UNCHANGED <<poolVars, requests, suspects, round, drainer, draining, phase,
                   recovered, budget, used>>

-----------------------------------------------------------------------------
\* The pool's background tasks. They go on while the process is stopping.

\* Mutant of CleanOk: the container is pooled as it is.
CleanSkipped(c) ==
    /\ CleanAppend(c)
    /\ UNCHANGED <<engineVars, registryVars, hubVars>>

\* A release task's reset succeeded. A reset call that was answered with an
\* error status counts as a success.
CleanOk(c) ==
    /\ ProbeOk(c)
    /\ CleanAppend(c)
    /\ used' \in {used \ {c}} \union (IF May("soft") THEN {used} ELSE {})
    /\ UNCHANGED <<engineVars, registryVars, requests, suspects, policy, round,
                   drainer, draining, phase, recovered, budget>>

CleanFails(c) ==
    /\ ProbeFails(c)
    /\ CleanGiveUp(c)
    /\ Remove({c})
    /\ UNCHANGED <<registryVars, hubVars>>

\* maintain_loop and ensure_pool: create what is missing, as far as the
\* instance has container ids left.
Refill ==
    /\ phase = "serving"
    /\ \E cs \in SUBSET Absent :
          /\ RefillStart(cs)
          /\ PoolLength + Cardinality(cs) = PoolTarget \/ cs = Absent
          /\ Create(cs, "plain")
    /\ UNCHANGED <<registryVars, hubVars>>

WarmOk(c) ==
    /\ ProbeOk(c)
    /\ WarmAppend(c)
    /\ UNCHANGED <<engineVars, registryVars, hubVars>>

WarmFails(c) ==
    /\ docker[c] # "creating"
    /\ ProbeFails(c)
    /\ WarmGiveUp(c)
    /\ Remove({c})
    /\ UNCHANGED <<registryVars, hubVars>>

PoolTask(c) == CleanOk(c) \/ CleanFails(c) \/ WarmOk(c) \/ WarmFails(c)

-----------------------------------------------------------------------------
\* The reconciler's loop

roundRest == <<requests, suspects, policy, drainer, draining, phase, recovered, budget, used>>

\* docker ps is called in a thread: this is the moment the list describes. What
\* is active from here on is not idle for SANDBOX_IDLE_TTL when the round looks.
RoundList ==
    /\ phase = "serving"
    /\ Reconciling
    /\ round.pc = "idle"
    /\ \E seen \in Listings(Running \union Stopped) :
          round' = [NoRound EXCEPT !.pc = "listing",
                                   !.listed = seen \intersect Running,
                                   !.exited = seen \intersect Stopped]
    /\ NewRound
    /\ UNCHANGED <<engineVars, poolVars, roundRest>>

\* Step 3: evict the ready records in todo; closing a client suspends after each.
\* When none is left, call docker ps again.
EvictMissing(todo) ==
    /\ IF todo = {}
       THEN round' = [round EXCEPT !.pc = "relist", !.todo = {}, !.at = None]
            /\ UNCHANGED registryVars
       ELSE \E s \in todo :
            /\ Evict(s)
            /\ round' = [round EXCEPT !.pc = "missing", !.todo = todo \ {s}, !.at = None]
    /\ UNCHANGED <<engineVars, poolVars>>

Missing == {s \in ListReady : ContainerOf(s) \notin round.listed}

\* Step 2: remove the orphans in todo, then go on to step 3.
DestroyOrphans(todo) ==
    IF todo = {} THEN EvictMissing(Missing)
    ELSE \E c \in todo :
            /\ Remove({c})
            /\ round' = [round EXCEPT !.pc = "orphans", !.todo = todo \ {c}, !.at = c]
            /\ UNCHANGED <<registryVars, poolVars>>

\* Mutant of Orphans: a record that was evicted still counts as tracking.
OrphansOfNoRecord == (round.listed \intersect old) \ ({ContainerOf(s) : s \in Sandboxes} \union PoolContainerIds)

\* Listed as running, older than the grace, and tracked by nobody.
Orphans == (round.listed \intersect old) \ (TrackedContainerIds \union PoolContainerIds)

\* Step 1: containers that had exited leave the pool and the registry and are
\* removed; then step 2.
ForgetStopped(todo) ==
    IF todo = {} THEN DestroyOrphans(Orphans)
    ELSE \E c \in todo :
            /\ LET its == {s \in ListReady : ContainerOf(s) = c}
               IN records' = Dropped(its) /\ index' = Unindexed(its)
            /\ PoolRemoveById({c})
            /\ Remove({c})
            /\ round' = [round EXCEPT !.pc = "stopped", !.todo = todo \ {c}, !.at = c]

\* The list arrives: without anything to await, steps 1 to 3 run in one go.
RoundListed ==
    /\ round.pc = "listing"
    /\ ForgetStopped(round.exited)
    /\ UNCHANGED roundRest

\* A docker rm of step 1, or of step 2, has returned.
RoundForgot ==
    /\ round.pc = "stopped"
    /\ round.at \notin doomed
    /\ ForgetStopped(round.todo)
    /\ UNCHANGED roundRest

RoundDestroyed ==
    /\ round.pc = "orphans"
    /\ round.at \notin doomed
    /\ DestroyOrphans(round.todo)
    /\ UNCHANGED roundRest

\* A client that step 3 closed is closed.
RoundEvicted ==
    /\ round.pc = "missing"
    /\ EvictMissing(round.todo)
    /\ UNCHANGED roundRest

\* Step 3b: the moment the second list describes, stopped containers included ...
RoundRelist ==
    /\ round.pc = "relist"
    /\ \E seen \in Listings(Running \union Stopped) :
          round' = [round EXCEPT !.pc = "relisting", !.listed = seen]
    /\ UNCHANGED <<engineVars, registryVars, poolVars, roundRest>>

\* ... and when it arrives, what it does not show is taken out of the pool.
\* Step 4 begins.
RoundRelisted ==
    /\ round.pc = "relisting"
    /\ PoolRemoveById(PoolContainerIds \ round.listed)
    /\ round' = [round EXCEPT !.pc = "reclaim", !.listed = {}, !.exited = {},
                              !.todo = ListReady]
    /\ UNCHANGED <<engineVars, registryVars, roundRest>>

\* Step 4: a record was not active in this round, nor for SANDBOX_IDLE_TTL
\* before it. Ask its container whether something runs in it.
RoundProbe(s) ==
    /\ round.pc = "reclaim"
    /\ s \in round.todo
    /\ ~records[s].recent
    /\ round' = [round EXCEPT !.pc = "probing", !.todo = @ \ {s}, !.at = s]
    /\ UNCHANGED <<engineVars, registryVars, poolVars, roundRest>>

\* It is busy (the work counts as activity), or did not answer.
RoundBusy ==
    /\ round.pc = "probing"
    /\ round' = [round EXCEPT !.pc = "reclaim", !.at = None]
    /\ Touch(round.at) \/ UNCHANGED registryVars
    /\ UNCHANGED <<engineVars, poolVars, roundRest>>

\* It is idle: reclaim the sandbox unless it was used during the probe. The
\* loop awaits the pool's release.
RoundReclaim ==
    /\ round.pc = "probing"
    /\ IF EvictIsCurrent(round.at)
       THEN /\ Evict(round.at)
            /\ ReleaseToPool(ContainerOf(round.at))
            /\ round' = [round EXCEPT !.pc = "releasing"]
       ELSE /\ round' = [round EXCEPT !.pc = "reclaim", !.at = None]
            /\ UNCHANGED <<engineVars, registryVars, poolVars>>
    /\ UNCHANGED roundRest

RoundReclaimed ==
    /\ round.pc = "releasing"
    /\ cleaning[ContainerOf(round.at)] = 0
    /\ ContainerOf(round.at) \notin doomed
    /\ round' = [round EXCEPT !.pc = "reclaim", !.at = None]
    /\ UNCHANGED <<engineVars, registryVars, poolVars, roundRest>>

\* Step 5: forget released records older than _RELEASED_RECORD_TTL, which is
\* meant to outlast any clean-up. The round is over.
RoundPrune ==
    /\ round.pc = "reclaim"
    /\ \E ss \in SUBSET {s \in Registered : records[s].status = "released"} :
          /\ May("slow") \/ \A s \in ss : cleaning[ContainerOf(s)] = 0
          /\ PruneReleased(ss)
    /\ round' = NoRound
    /\ UNCHANGED <<engineVars, poolVars, roundRest>>

RoundStep ==
    \/ RoundListed \/ RoundForgot \/ RoundDestroyed \/ RoundEvicted \/ RoundRelist
    \/ RoundRelisted \/ RoundBusy \/ RoundReclaim \/ RoundReclaimed \/ RoundPrune
    \/ \E s \in Sandboxes : RoundProbe(s)

-----------------------------------------------------------------------------
\* The admin drain

drainRest == <<requests, suspects, policy, round, phase, recovered, used>>

\* POST /v2/admin/drain: refuse acquires, pause the refill, empty the pool.
DrainBegin ==
    /\ phase = "serving"
    /\ drainer.pc = "idle"
    /\ budget.drains > 0
    /\ budget' = [budget EXCEPT !.drains = @ - 1]
    /\ draining' = TRUE
    /\ paused' = TRUE
    /\ PoolCleared
    /\ Remove(PoolContainerIds)
    /\ drainer' = [NoDrain EXCEPT !.pc = "emptying", !.todo = PoolContainerIds]
    /\ UNCHANGED <<registryVars, drainRest>>

\* The pool's containers are removed: look for idle sandboxes.
DrainEmptied ==
    /\ drainer.pc = "emptying"
    /\ drainer.todo \intersect doomed = {}
    /\ drainer' = [NoDrain EXCEPT !.pc = "scan", !.todo = ListReady]
    /\ UNCHANGED <<engineVars, registryVars, poolVars, draining, budget, drainRest>>

DrainProbe(s) ==
    /\ drainer.pc = "scan"
    /\ s \in drainer.todo
    /\ drainer' = [drainer EXCEPT !.pc = "probing", !.todo = @ \ {s}, !.at = s]
    /\ UNCHANGED <<engineVars, registryVars, poolVars, draining, budget, drainRest>>

\* It is idle and destroyed, without a look at what happened during the probe.
DrainIdle ==
    /\ drainer.pc = "probing"
    /\ DestroySandbox(drainer.at)
    /\ drainer' = [drainer EXCEPT !.pc = "destroying"]
    /\ UNCHANGED <<poolVars, draining, budget, drainRest>>

DrainBusy ==
    /\ drainer.pc = "probing"
    /\ drainer' = [drainer EXCEPT !.pc = "scan", !.at = None, !.busy = TRUE]
    /\ UNCHANGED <<engineVars, registryVars, poolVars, draining, budget, drainRest>>

DrainDestroyed ==
    /\ drainer.pc = "destroying"
    /\ ContainerOf(drainer.at) \notin doomed
    /\ drainer' = [drainer EXCEPT !.pc = "scan", !.at = None]
    /\ UNCHANGED <<engineVars, registryVars, poolVars, draining, budget, drainRest>>

\* All were visited and none was busy: done. If one was: once more after a while,
\* or, past the deadline, give up or with force destroy the rest too.
DrainAgain ==
    /\ drainer.pc = "scan"
    /\ drainer.todo = {}
    /\ \/ drainer' = NoDrain
       \/ drainer.busy /\ \E pc \in {"scan", "forcing"} :
              drainer' = [NoDrain EXCEPT !.pc = pc, !.todo = ListReady]
    /\ UNCHANGED <<engineVars, registryVars, poolVars, draining, budget, drainRest>>

DrainForce(s) ==
    /\ drainer.pc = "forcing"
    /\ drainer.at # None => ContainerOf(drainer.at) \notin doomed
    /\ s \in drainer.todo
    /\ DestroySandbox(s)
    /\ drainer' = [drainer EXCEPT !.todo = @ \ {s}, !.at = s]
    /\ UNCHANGED <<poolVars, draining, budget, drainRest>>

DrainForced ==
    /\ drainer.pc = "forcing"
    /\ drainer.at # None => ContainerOf(drainer.at) \notin doomed
    /\ drainer.todo = {}
    /\ drainer' = NoDrain
    /\ UNCHANGED <<engineVars, registryVars, poolVars, draining, budget, drainRest>>

\* DELETE /v2/admin/drain
Undrain ==
    /\ phase = "serving"
    /\ draining
    /\ draining' = FALSE
    /\ paused' = FALSE
    /\ UNCHANGED <<engineVars, registryVars, pool, cleaning, warming, drainer,
                   budget, drainRest>>

DrainStep ==
    \/ DrainEmptied \/ DrainIdle \/ DrainBusy \/ DrainDestroyed \/ DrainAgain \/ DrainForced
    \/ \E s \in Sandboxes : DrainProbe(s) \/ DrainForce(s)

-----------------------------------------------------------------------------
\* The life of the process

\* Start-up recovery lists what earlier processes left in the engine ...
RecoverList ==
    /\ phase = "starting"
    /\ phase' = "recovering"
    /\ recovered' \in Listings(Running \union Stopped)
    /\ UNCHANGED <<engineVars, registryVars, poolVars, requests, suspects, policy,
                   round, drainer, draining, budget, used>>

\* ... removes what has exited, belongs to a tenant, or cannot be reset ...
RecoverRemove(c) ==
    /\ phase = "recovering"
    /\ c \in recovered
    /\ Dedicated(c) \/ ProbeFails(c)
    /\ recovered' = recovered \ {c}
    /\ Remove({c})
    /\ UNCHANGED <<registryVars, poolVars, requests, suspects, policy, round,
                   drainer, draining, phase, budget, used>>

\* Mutants of RecoverAdopt: a tenant's own container is adopted too; nothing is reset.
RecoverAdoptAlike(c) ==
    /\ phase = "recovering"
    /\ c \in recovered
    /\ ProbeOk(c)
    /\ recovered' = recovered \ {c}
    /\ PoolRestore(c)
    /\ used' = used \ {c}
    /\ UNCHANGED <<engineVars, registryVars, requests, suspects, policy, round,
                   drainer, draining, phase, budget>>
RecoverAdoptUnreset(c) ==
    /\ phase = "recovering"
    /\ c \in recovered
    /\ ~Dedicated(c)
    /\ ProbeOk(c)
    /\ recovered' = recovered \ {c}
    /\ PoolRestore(c)
    /\ UNCHANGED <<engineVars, registryVars, requests, suspects, policy, round,
                   drainer, draining, phase, budget, used>>

\* ... and adopts the rest into the pool after a reset.
RecoverAdopt(c) ==
    /\ phase = "recovering"
    /\ c \in recovered
    /\ ~Dedicated(c)
    /\ ProbeOk(c)
    /\ recovered' = recovered \ {c}
    /\ PoolRestore(c)
    /\ used' \in {used \ {c}} \union (IF May("soft") THEN {used} ELSE {})
    /\ UNCHANGED <<engineVars, registryVars, requests, suspects, policy, round,
                   drainer, draining, phase, budget>>

Serve ==
    /\ phase = "recovering"
    /\ recovered = {}
    /\ doomed = {}
    /\ phase' = "serving"
    /\ UNCHANGED <<engineVars, registryVars, poolVars, requests, suspects, policy,
                   round, drainer, draining, recovered, budget, used>>

\* Everything the process remembers is gone; calls in flight fail.
MemoryLost ==
    /\ RegistryCleared
    /\ PoolLost
    /\ doomed' = {}
    /\ UNCHANGED <<docker, kind, old, used>>
    /\ requests' = [r \in Requests |->
           IF requests[r].pc \in inFlight THEN [requests[r] EXCEPT !.pc = "failed"]
                                          ELSE requests[r]]
    /\ suspects' = {}
    /\ policy' = {}
    /\ round' = NoRound
    /\ drainer' = NoDrain
    /\ draining' = FALSE
    /\ recovered' = {}

Crash ==
    /\ phase \in {"recovering", "serving", "stopping"}
    /\ budget.crashes > 0
    /\ budget' = [budget EXCEPT !.crashes = @ - 1]
    /\ phase' = "starting"
    /\ MemoryLost

\* Graceful shutdown, once the requests are answered: the loops are cancelled
\* (with a release or a refill one of them awaits), the registry and the pool
\* are emptied and their containers removed.
Shutdown ==
    /\ phase = "serving"
    /\ budget.crashes > 0
    /\ budget' = [budget EXCEPT !.crashes = @ - 1]
    /\ \A r \in Requests : requests[r].pc \notin inFlight
    /\ policy = {}
    /\ drainer.pc = "idle"
    /\ phase' = "stopping"
    /\ round' = NoRound
    /\ RegistryCleared
    /\ pool' = [c \in Containers |-> 0]
    /\ cleaning' = [c \in Containers |->
           IF round.pc = "releasing" /\ c = ContainerOf(round.at) /\ cleaning[c] > 0
           THEN cleaning[c] - 1 ELSE cleaning[c]]
    /\ warming' \in {warming, {}}
    /\ Remove(TrackedContainerIds \union PoolContainerIds)
    /\ UNCHANGED <<paused, requests, suspects, policy, drainer, draining, recovered, used>>

\* The removals returned: the process exits.
Exit ==
    /\ phase = "stopping"
    /\ doomed = {}
    /\ phase' = "down"
    /\ UNCHANGED budget
    /\ MemoryLost

Restart ==
    /\ phase = "down"
    /\ phase' = "starting"
    /\ UNCHANGED <<engineVars, registryVars, poolVars, requests, suspects, policy,
                   round, drainer, draining, recovered, budget, used>>

-----------------------------------------------------------------------------
EngineStep(c) ==
    /\ \/ Boot(c) \/ RemoveReturns(c) \/ Die(c)
       \/ /\ Age(c)
          /\ Reconciling      \* else nobody asks
          /\ May("slow") \/ ~(\/ c \in warming
                              \/ \E r \in Requests : /\ requests[r].pc = "cold"
                                                     /\ requests[r].container = c)
    /\ UNCHANGED <<registryVars, poolVars, hubVars>>

Next ==
    \/ \E c \in Containers : EngineStep(c) \/ PoolTask(c) \/ RecoverRemove(c) \/ RecoverAdopt(c)
    \/ \E r \in Requests : AcquireStep(r)
    \/ \E r \in Requests, k \in Keys, shape \in Shapes : Arrive(r, k, shape)
    \/ \E s \in Sandboxes : \/ Release(s) \/ Proxy(s) \/ ProxyUnreachable(s)
                            \/ SuspectAlive(s) \/ SuspectDead(s) \/ PolicyStep(s)
    \/ PolicyApply \/ Refill
    \/ RoundList \/ RoundStep
    \/ DrainBegin \/ DrainStep \/ Undrain
    \/ RecoverList \/ Serve \/ Crash \/ Shutdown \/ Exit \/ Restart

Spec == Init /\ [][Next]_vars
=============================================================================
