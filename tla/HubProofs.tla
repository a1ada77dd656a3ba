------------------------------ MODULE HubProofs -----------------------------
(***************************************************************************)
(* Theorems about the Hub for every number of containers, sandboxes,        *)
(* requests and pairs, every pool size, and every mishap unless one is      *)
(* excluded by name.                                                        *)
(***************************************************************************)
EXTENDS HubSafety, RegistryProofs

-----------------------------------------------------------------------------
\* What a coroutine remembers is something it was given: TypeOK alone does not
\* say that the sandbox it goes on to destroy ever had a container.
RequestsTyped ==
    \A r \in Requests :
        /\ requests[r].pc \in inFlight => requests[r].key \in Keys
        /\ requests[r].pc = "reuse" => requests[r].sandbox \in Issued
        /\ requests[r].pc \in {"reuse", "check", "cold"} => requests[r].container \in Containers

TasksTyped ==
    /\ suspects \subseteq Issued
    /\ policy \subseteq Issued
    /\ drainer.pc \in {"scan", "probing", "destroying", "forcing"} => drainer.todo \subseteq Issued
    /\ drainer.pc = "probing" => drainer.at \in Issued

RoundTyped ==
    /\ round \in Round
    /\ round.pc \in {"stopped", "orphans"} => round.todo \subseteq Containers
    /\ round.pc = "missing" => round.todo \subseteq Sandboxes
    /\ round.pc = "probing" => round.at \in Sandboxes

TypeInv == TypeOK /\ RequestsTyped /\ TasksTyped /\ RoundTyped

(* The Hub starts in a well-typed state.                                     *)
LEMMA InitTyped == Init => TypeInv
<1> USE HubAssumption, PoolAssumption, EngineAssumption, IdsAssumption
<1> SUFFICES ASSUME Init PROVE TypeInv
  OBVIOUS
<1>1. EngineTypeOK
  BY DEF Init, EngineInit, EngineTypeOK, AllShapes
<1>2. RegistryTypeOK
  BY DEF Init, RegistryInit, RegistryTypeOK, Record, Unused
<1>3. PoolTypeOK
  BY DEF Init, PoolInit, PoolTypeOK
<1>4. requests \in [Requests -> Request]
  BY DEF Init, NewRequest, Request, AllShapes
<1>5. round \in Round /\ drainer \in Drainer
  BY DEF Init, NoRound, NoDrain, Round, Drainer
<1>6. RequestsTyped
  BY DEF Init, NewRequest, RequestsTyped, inFlight
<1>7. TasksTyped /\ RoundTyped
  BY <1>5 DEF Init, NoRound, NoDrain, TasksTyped, RoundTyped
<1> QED
  BY <1>1, <1>2, <1>3, <1>4, <1>5, <1>6, <1>7 DEF TypeInv, TypeOK, Init

-----------------------------------------------------------------------------
\* The operators of the components keep their component's types.

(* The Hub's calls to the engine keep the engine's types.                    *)
LEMMA EngineCallsTyped ==
    ASSUME EngineTypeOK, NEW cs \in SUBSET Containers, NEW shape \in AllShapes
    PROVE  /\ Create(cs, shape) => EngineTypeOK'
           /\ Remove(cs) => EngineTypeOK'
BY DEF EngineTypeOK, Create, Remove

(* So does what the engine does on its own.                                  *)
LEMMA EngineStepsTyped ==
    ASSUME EngineTypeOK, NEW c \in Containers,
           Boot(c) \/ RemoveReturns(c) \/ Die(c) \/ Age(c)
    PROVE  EngineTypeOK'
BY DEF EngineTypeOK, Boot, RemoveReturns, Die, Age

(* The pool's methods keep the pool's types.                                 *)
LEMMA PoolCallsTyped ==
    ASSUME PoolTypeOK, NEW c \in Containers
    PROVE  /\ PoolPop(c) \/ PoolRestore(c) \/ CleanStart(c) => PoolTypeOK'
           /\ CleanAppend(c) \/ CleanGiveUp(c) => PoolTypeOK'
           /\ WarmAppend(c) \/ WarmGiveUp(c) => PoolTypeOK'
<1> USE DEF PoolTypeOK
<1>1. PoolPop(c) \/ PoolRestore(c) \/ CleanStart(c) => PoolTypeOK'
  BY DEF PoolPop, PoolRestore, CleanStart
<1>2. CleanAppend(c) \/ CleanGiveUp(c) => PoolTypeOK'
  BY DEF CleanAppend, CleanGiveUp
<1>3. WarmAppend(c) \/ WarmGiveUp(c) => PoolTypeOK'
  BY DEF WarmAppend, WarmGiveUp
<1> QED
  BY <1>1, <1>2, <1>3

(* So do those that handle several containers.                               *)
LEMMA PoolSetCallsTyped ==
    ASSUME PoolTypeOK, NEW cs \in SUBSET Containers
    PROVE  /\ PoolRemoveById(cs) => PoolTypeOK'
           /\ RefillStart(cs) => PoolTypeOK'
           /\ PoolLost => PoolTypeOK'
<1> USE DEF PoolTypeOK
<1>1. PoolRemoveById(cs) => PoolTypeOK'
  BY DEF PoolRemoveById
<1>2. RefillStart(cs) => PoolTypeOK'
  BY DEF RefillStart
<1>3. ASSUME PoolLost PROVE PoolTypeOK'
  <2>1. pool' \in [Containers -> Nat] /\ cleaning' \in [Containers -> Nat]
    BY <1>3 DEF PoolLost
  <2>2. warming' \subseteq Containers /\ paused' \in BOOLEAN
    BY <1>3, Zenon DEF PoolLost
  <2> QED
    BY <2>1, <2>2
<1> QED
  BY <1>1, <1>2, <1>3

(* Evicting one sandbox is a step of the registry; so is any other method.   *)
LEMMA EvictIsRegistryNext ==
    ASSUME NEW s \in Sandboxes, Evict(s) PROVE RegistryNext
<1>1. EvictAll({s})
  BY DEF Evict, EvictAll
<1> QED
  BY <1>1 DEF RegistryNext

(* It neither registers nor releases.                                        *)
LEMMA EvictTakes ==
    ASSUME NEW s \in Sandboxes, Evict(s) PROVE RegistryTakes
<1>1. EvictAll({s})
  BY DEF Evict, EvictAll
<1> QED
  BY <1>1 DEF RegistryTakes

(* Destroying a sandbox that was once registered keeps all types.            *)
LEMMA DestroySandboxTyped ==
    ASSUME EngineTypeOK, RegistryTypeOK, NEW s \in Issued, DestroySandbox(s)
    PROVE  EngineTypeOK' /\ RegistryTypeOK' /\ RecordsLast
<1>1. s \in Sandboxes /\ {ContainerOf(s)} \in SUBSET Containers
  BY DEF Issued, RegistryTypeOK, ContainerOf
<1>2. EngineTypeOK'
  BY <1>1, EngineCallsTyped DEF DestroySandbox, AllShapes
<1>3. RegistryNext
  BY <1>1, EvictIsRegistryNext DEF DestroySandbox
<1> QED
  BY <1>2, <1>3, RegistryStepTyped

(* Handing a sandbox's container back to the pool keeps all types.           *)
LEMMA ReleaseToPoolTyped ==
    ASSUME EngineTypeOK, PoolTypeOK, NEW c \in Containers, ReleaseToPool(c)
    PROVE  EngineTypeOK' /\ PoolTypeOK'
<1>1. CASE Dedicated(c)
  <2>1. EngineTypeOK'
    BY <1>1, EngineCallsTyped DEF ReleaseToPool, AllShapes
  <2> QED
    BY <1>1, <2>1 DEF ReleaseToPool, PoolTypeOK, poolVars
<1>2. CASE ~Dedicated(c)
  <2>1. PoolTypeOK'
    BY <1>2, PoolCallsTyped DEF ReleaseToPool
  <2> QED
    BY <1>2, <2>1 DEF ReleaseToPool, EngineTypeOK, engineVars
<1> QED
  BY <1>1, <1>2

-----------------------------------------------------------------------------
\* A step that leaves what the coroutines remember alone.

(* Sandboxes stay issued, so what the tasks remember stays true.             *)
LEMMA RememberedTyped ==
    ASSUME RequestsTyped, TasksTyped, Issued \subseteq Issued'
    PROVE  /\ UNCHANGED requests => RequestsTyped'
           /\ UNCHANGED <<suspects, policy, drainer>> => TasksTyped'
<1>1. UNCHANGED requests => RequestsTyped'
  BY DEF RequestsTyped, inFlight
<1>2. UNCHANGED <<suspects, policy, drainer>> => TasksTyped'
  BY DEF TasksTyped
<1> QED
  BY <1>1, <1>2

(* A step that leaves the registry alone keeps every sandbox issued.         *)
LEMMA SameRegistry ==
    ASSUME UNCHANGED registryVars
    PROVE  /\ Issued' = Issued
           /\ RegistryTypeOK => RegistryTypeOK'
BY DEF registryVars, Issued, RegistryTypeOK, Record

-----------------------------------------------------------------------------
\* Acquires

(* What an acquire remembers after a step is well-typed if its new record is.*)
LEMMA RequestSet ==
    ASSUME requests \in [Requests -> Request], RequestsTyped, Issued \subseteq Issued',
           NEW r \in Requests, NEW q \in Request,
           requests' = [requests EXCEPT ![r] = q],
           q.pc \in inFlight => q.key \in Keys,
           q.pc = "reuse" => q.sandbox \in Issued',
           q.pc \in {"reuse", "check", "cold"} => q.container \in Containers
    PROVE  requests' \in [Requests -> Request] /\ RequestsTyped'
BY DEF RequestsTyped

(* Moving on to a step that needs no more than the key is well-typed.        *)
LEMMA AwaitTyped ==
    ASSUME requests \in [Requests -> Request], RequestsTyped, Issued \subseteq Issued',
           NEW r \in Requests,
           NEW pc \in {"preparing", "evicting", "discard", "served", "failed"},
           Await(r, pc),
           pc \in {"served", "failed"} \/ requests[r].pc \in inFlight
    PROVE  requests' \in [Requests -> Request] /\ RequestsTyped'
<1> DEFINE q == [requests[r] EXCEPT !.pc = pc]
<1>1. q \in Request /\ q.pc = pc /\ q.key = requests[r].key
  BY DEF Request
<1>2. requests' = [requests EXCEPT ![r] = q]
  BY DEF Await
<1>3. q.pc \in inFlight => q.key \in Keys
  BY <1>1 DEF RequestsTyped, inFlight
<1> HIDE DEF q
<1> QED
  BY <1>1, <1>2, <1>3, RequestSet

(* Registering a container that is being handed out keeps all types.         *)
LEMMA RegisterForTyped ==
    ASSUME RegistryTypeOK, requests \in [Requests -> Request], RequestsTyped,
           NEW r \in Requests, requests[r].pc \in {"check", "cold"},
           RegisterFor(r, requests[r].container)
    PROVE  /\ RegistryTypeOK' /\ RecordsLast
           /\ requests' \in [Requests -> Request] /\ RequestsTyped'
<1>1. requests[r].key \in Keys /\ requests[r].container \in Containers
  BY DEF RequestsTyped, inFlight
<1>2. PICK s \in Sandboxes :
        /\ Register(s, requests[r].container, requests[r].key)
        /\ requests' = [requests EXCEPT ![r].pc = "served", ![r].sandbox = s]
  BY DEF RegisterFor
<1>3. RegistryNext
  BY <1>1, <1>2 DEF RegistryNext
<1>4. RegistryTypeOK' /\ RecordsLast
  BY <1>3, RegistryStepTyped
<1> DEFINE q == [requests[r] EXCEPT !.pc = "served", !.sandbox = s]
<1>5. q \in Request /\ q.pc = "served"
  BY DEF Request
<1>6. requests' = [requests EXCEPT ![r] = q]
  BY <1>2
<1>7. Issued \subseteq Issued'
  BY <1>4 DEF RecordsLast
<1> HIDE DEF q
<1> QED
  BY <1>4, <1>5, <1>6, <1>7, RequestSet DEF inFlight

(* Taking a container from the pool or starting one keeps all types.         *)
LEMMA AllocateTyped ==
    ASSUME EngineTypeOK, PoolTypeOK, requests \in [Requests -> Request], RequestsTyped,
           Issued \subseteq Issued',
           NEW r \in Requests, NEW k \in Keys, NEW shape \in AllShapes,
           Allocate(r, k, shape)
    PROVE  /\ EngineTypeOK' /\ PoolTypeOK'
           /\ requests' \in [Requests -> Request] /\ RequestsTyped'
<1>1. CASE shape = "plain" /\ PoolContainerIds # {}
  <2>1. PICK c \in Containers :
          /\ PoolPop(c)
          /\ requests' = [requests EXCEPT ![r] =
                 [pc |-> "check", key |-> k, shape |-> shape, sandbox |-> None, container |-> c]]
          /\ UNCHANGED engineVars
    BY <1>1 DEF Allocate
  <2> DEFINE q == [pc |-> "check", key |-> k, shape |-> shape, sandbox |-> None, container |-> c]
  <2>2. q \in Request /\ q.pc = "check" /\ q.key = k /\ q.container = c
    BY DEF Request
  <2>3. PoolTypeOK'
    BY <2>1, PoolCallsTyped
  <2>4. EngineTypeOK'
    BY <2>1 DEF engineVars, EngineTypeOK
  <2>5. requests' = [requests EXCEPT ![r] = q]
    BY <2>1
  <2> HIDE DEF q
  <2> QED
    BY <2>2, <2>3, <2>4, <2>5, RequestSet
<1>2. CASE ~(shape = "plain" /\ PoolContainerIds # {})
  <2>1. PICK c \in Absent :
          /\ Create({c}, shape)
          /\ requests' = [requests EXCEPT ![r] =
                 [pc |-> "cold", key |-> k, shape |-> shape, sandbox |-> None, container |-> c]]
          /\ UNCHANGED poolVars
    BY <1>2 DEF Allocate, ColdStart
  <2> DEFINE q == [pc |-> "cold", key |-> k, shape |-> shape, sandbox |-> None, container |-> c]
  <2>2. c \in Containers
    BY DEF Absent
  <2>3. q \in Request /\ q.pc = "cold" /\ q.key = k /\ q.container = c
    BY <2>2 DEF Request
  <2>4. EngineTypeOK'
    BY <2>1, <2>2, EngineCallsTyped
  <2>5. PoolTypeOK'
    BY <2>1 DEF poolVars, PoolTypeOK
  <2>6. requests' = [requests EXCEPT ![r] = q]
    BY <2>1
  <2> HIDE DEF q
  <2> QED
    BY <2>2, <2>3, <2>4, <2>5, <2>6, RequestSet
<1> QED
  BY <1>1, <1>2

(* Looking for a sandbox to reuse, with what follows from it, keeps all types.*)
LEMMA LookupTyped ==
    ASSUME EngineTypeOK, RegistryTypeOK, PoolTypeOK,
           requests \in [Requests -> Request], RequestsTyped,
           NEW r \in Requests, NEW k \in Keys, NEW shape \in AllShapes,
           Lookup(r, k, shape)
    PROVE  /\ EngineTypeOK' /\ RegistryTypeOK' /\ PoolTypeOK'
           /\ requests' \in [Requests -> Request] /\ RequestsTyped'
           /\ Issued \subseteq Issued'
<1> DEFINE s == FindActive(k)
           q(pc) == [pc |-> pc, key |-> k, shape |-> shape, sandbox |-> s,
                     container |-> ContainerOf(s)]
<1>1. CASE s = None
  <2>1. Allocate(r, k, shape) /\ UNCHANGED registryVars
    BY <1>1 DEF Lookup
  <2> QED
    BY <2>1, SameRegistry, AllocateTyped
<1>2. CASE s # None
  <2>1. s \in Issued /\ s \in Sandboxes /\ ContainerOf(s) \in Containers
    BY <1>2 DEF FindActive, ListReady, Issued, RegistryTypeOK, ContainerOf
  <2>2. \A pc \in {"evicting", "reuse"} :
          q(pc) \in Request /\ q(pc).pc = pc /\ q(pc).key \in Keys
          /\ q(pc).sandbox = s /\ q(pc).container \in Containers
    BY <2>1 DEF Request
  <2>3. CASE shape = "inputs" /\ kind[ContainerOf(s)] # "inputs"
    <3>1. /\ DestroySandbox(s)
          /\ requests' = [requests EXCEPT ![r] = q("evicting")]
          /\ UNCHANGED poolVars
      BY <1>2, <2>3 DEF Lookup
    <3>2. EngineTypeOK' /\ RegistryTypeOK' /\ RecordsLast
      BY <2>1, <3>1, DestroySandboxTyped
    <3>3. PoolTypeOK'
      BY <3>1 DEF poolVars, PoolTypeOK
    <3>4. Issued \subseteq Issued'
      BY <3>2 DEF RecordsLast
    <3> HIDE DEF q, s
    <3> QED
      BY <2>2, <3>1, <3>2, <3>3, <3>4, RequestSet
  <2>4. CASE ~(shape = "inputs" /\ kind[ContainerOf(s)] # "inputs")
    <3>1. /\ requests' = [requests EXCEPT ![r] = q("reuse")]
          /\ UNCHANGED <<engineVars, registryVars, poolVars>>
      BY <1>2, <2>4 DEF Lookup
    <3>2. EngineTypeOK' /\ PoolTypeOK'
      BY <3>1 DEF engineVars, poolVars, EngineTypeOK, PoolTypeOK
    <3>3. RegistryTypeOK' /\ Issued' = Issued
      BY <3>1, SameRegistry
    <3> HIDE DEF q, s
    <3> QED
      BY <2>1, <2>2, <3>1, <3>2, <3>3, RequestSet
  <2> QED
    BY <2>3, <2>4
<1> QED
  BY <1>1, <1>2

(* An acquire's arrival keeps all types.                                     *)
LEMMA ArriveTyped ==
    ASSUME TypeInv, NEW r \in Requests, NEW k \in Keys, NEW shape \in Shapes,
           Arrive(r, k, shape)
    PROVE  TypeInv'
<1> USE DEF TypeInv, TypeOK, RoundTyped
<1>1. shape \in AllShapes
  BY EngineAssumption
<1>2. /\ EngineTypeOK' /\ RegistryTypeOK' /\ PoolTypeOK'
      /\ requests' \in [Requests -> Request] /\ RequestsTyped'
      /\ Issued \subseteq Issued'
  <2>1. CASE draining
    <3>1. Await(r, "failed") /\ UNCHANGED <<engineVars, registryVars, poolVars>>
      BY <2>1 DEF Arrive
    <3>2. EngineTypeOK' /\ PoolTypeOK'
      BY <3>1 DEF engineVars, poolVars, EngineTypeOK, PoolTypeOK
    <3> QED
      BY <3>1, <3>2, SameRegistry, AwaitTyped
  <2>2. CASE ~draining /\ shape = "inputs"
    <3>1. PICK pc \in {"probing", "preparing"} :
            /\ requests' = [requests EXCEPT ![r] =
                   [pc |-> pc, key |-> k, shape |-> shape, sandbox |-> None, container |-> None]]
            /\ UNCHANGED <<engineVars, registryVars, poolVars>>
      BY <2>2 DEF Arrive
    <3> DEFINE q == [pc |-> pc, key |-> k, shape |-> shape, sandbox |-> None, container |-> None]
    <3>2. q \in Request /\ q.pc = pc /\ q.key = k
      BY <1>1 DEF Request
    <3>3. EngineTypeOK' /\ PoolTypeOK'
      BY <3>1 DEF engineVars, poolVars, EngineTypeOK, PoolTypeOK
    <3>4. RegistryTypeOK' /\ Issued' = Issued
      BY <3>1, SameRegistry
    <3>5. requests' = [requests EXCEPT ![r] = q]
      BY <3>1
    <3> HIDE DEF q
    <3> QED
      BY <3>2, <3>3, <3>4, <3>5, RequestSet
  <2>3. CASE ~draining /\ shape # "inputs"
    <3>1. Lookup(r, k, shape)
      BY <2>3 DEF Arrive
    <3> QED
      BY <1>1, <3>1, LookupTyped
  <2> QED
    BY <2>1, <2>2, <2>3
<1>3. UNCHANGED <<suspects, policy, round, drainer, draining, phase, recovered, budget, used>>
  BY DEF Arrive
<1>4. TasksTyped'
  BY <1>2, <1>3, RememberedTyped
<1> QED
  BY <1>2, <1>3, <1>4

(* Every step of an acquire keeps all types.                                 *)
LEMMA AcquireTyped ==
    ASSUME TypeInv, NEW r \in Requests, AcquireStep(r)
    PROVE  TypeInv'
<1> USE DEF TypeInv, TypeOK, RoundTyped
<1>1. UNCHANGED <<suspects, policy, round, drainer, draining, phase, recovered, budget, used>>
  BY DEF AcquireStep, CandidateProbed, Prepared, ReuseOk, ReuseFails, Retry, CheckOk,
         CheckFails, ColdOk, ColdFails
<1>2. /\ EngineTypeOK' /\ RegistryTypeOK' /\ PoolTypeOK'
      /\ requests' \in [Requests -> Request] /\ RequestsTyped'
      /\ Issued \subseteq Issued'
  <2>1. CASE CandidateProbed(r)
    <3>1. /\ requests[r].pc = "probing"
          /\ \E pc \in {"preparing", "failed"} : Await(r, pc)
          /\ UNCHANGED <<engineVars, registryVars, poolVars>>
      BY <2>1 DEF CandidateProbed
    <3>2. EngineTypeOK' /\ PoolTypeOK'
      BY <3>1 DEF engineVars, poolVars, EngineTypeOK, PoolTypeOK
    <3> QED
      BY <3>1, <3>2, SameRegistry, AwaitTyped DEF inFlight
  <2>2. CASE Prepared(r)
    <3>1. requests[r].pc = "preparing" /\ requests[r].key \in Keys /\ requests[r].shape \in AllShapes
      BY <2>2 DEF Prepared, RequestsTyped, inFlight, Request
    <3>2. CASE Lookup(r, requests[r].key, requests[r].shape)
      BY <3>1, <3>2, LookupTyped
    <3>3. CASE Await(r, "failed") /\ UNCHANGED <<engineVars, registryVars, poolVars>>
      <4>1. EngineTypeOK' /\ PoolTypeOK'
        BY <3>3 DEF engineVars, poolVars, EngineTypeOK, PoolTypeOK
      <4> QED
        BY <3>3, <4>1, SameRegistry, AwaitTyped
    <3> QED
      BY <2>2, <3>2, <3>3 DEF Prepared
  <2>3. CASE ReuseOk(r)
    <3>1. requests[r].sandbox \in Sandboxes
      BY <2>3 DEF ReuseOk, RequestsTyped, Issued
    <3>2. RegistryNext
      BY <2>3, <3>1 DEF ReuseOk, RegistryNext
    <3>3. RegistryTypeOK' /\ Issued \subseteq Issued'
      BY <3>2, RegistryStepTyped DEF RecordsLast
    <3>4. EngineTypeOK' /\ PoolTypeOK'
      BY <2>3 DEF ReuseOk, engineVars, poolVars, EngineTypeOK, PoolTypeOK
    <3>5. Await(r, "served")
      BY <2>3 DEF ReuseOk
    <3> QED
      BY <3>3, <3>4, <3>5, AwaitTyped
  <2>4. CASE ReuseFails(r)
    <3>1. requests[r].pc = "reuse" /\ requests[r].sandbox \in Issued
      BY <2>4 DEF ReuseFails, RequestsTyped
    <3>2. EngineTypeOK' /\ RegistryTypeOK' /\ Issued \subseteq Issued'
      BY <2>4, <3>1, DestroySandboxTyped DEF ReuseFails, RecordsLast
    <3>3. PoolTypeOK' /\ Await(r, "evicting")
      BY <2>4 DEF ReuseFails, poolVars, PoolTypeOK
    <3> QED
      BY <3>1, <3>2, <3>3, AwaitTyped DEF inFlight
  <2>5. CASE Retry(r)
    <3>1. /\ requests[r].key \in Keys
          /\ requests[r].shape \in AllShapes
          /\ Allocate(r, requests[r].key, requests[r].shape)
          /\ UNCHANGED registryVars
      BY <2>5 DEF Retry, RequestsTyped, inFlight, Request
    <3> QED
      BY <3>1, SameRegistry, AllocateTyped
  <2>6. CASE CheckOk(r) \/ ColdOk(r)
    <3>1. /\ requests[r].pc \in {"check", "cold"}
          /\ RegisterFor(r, requests[r].container)
          /\ UNCHANGED <<engineVars, poolVars>>
      BY <2>6 DEF CheckOk, ColdOk
    <3>2. EngineTypeOK' /\ PoolTypeOK'
      BY <3>1 DEF engineVars, poolVars, EngineTypeOK, PoolTypeOK
    <3> QED
      BY <3>1, <3>2, RegisterForTyped DEF RecordsLast
  <2>7. CASE CheckFails(r) \/ ColdFails(r)
    <3>1. /\ requests[r].pc \in {"check", "cold"}
          /\ Remove({requests[r].container})
          /\ Await(r, "discard") \/ Await(r, "failed")
          /\ UNCHANGED <<registryVars, poolVars>>
      BY <2>7 DEF CheckFails, ColdFails
    <3>2. {requests[r].container} \in SUBSET Containers
      BY <3>1 DEF RequestsTyped
    <3>3. EngineTypeOK' /\ PoolTypeOK'
      BY <3>1, <3>2, EngineCallsTyped DEF poolVars, PoolTypeOK, AllShapes
    <3> QED
      BY <3>1, <3>3, SameRegistry, AwaitTyped DEF inFlight
  <2> QED
    BY <2>1, <2>2, <2>3, <2>4, <2>5, <2>6, <2>7 DEF AcquireStep
<1>3. TasksTyped'
  BY <1>1, <1>2, RememberedTyped
<1> QED
  BY <1>1, <1>2, <1>3

-----------------------------------------------------------------------------
\* The other requests

(* Releases, proxied requests, dead sandboxes and policy changes keep types. *)
LEMMA RequestsTypedStep ==
    ASSUME TypeInv, NEW s \in Sandboxes,
           \/ Release(s) \/ Proxy(s) \/ ProxyUnreachable(s)
           \/ SuspectAlive(s) \/ SuspectDead(s) \/ PolicyStep(s)
    PROVE  TypeInv'
<1> USE DEF TypeInv, TypeOK, RoundTyped
<1>1. CASE Release(s)
  <2>1. s \in Registered /\ MarkReleased(s) /\ ReleaseToPool(ContainerOf(s)) /\ UNCHANGED hubVars
    BY <1>1 DEF Release, MarkReleased
  <2>2. ContainerOf(s) \in Containers /\ RegistryNext
    BY <2>1 DEF Registered, RegistryTypeOK, ContainerOf, RegistryNext
  <2>3. RegistryTypeOK' /\ Issued \subseteq Issued'
    BY <2>2, RegistryStepTyped DEF RecordsLast
  <2>4. EngineTypeOK' /\ PoolTypeOK'
    BY <2>1, <2>2, ReleaseToPoolTyped
  <2> QED
    BY <2>1, <2>3, <2>4, RememberedTyped DEF hubVars
<1>2. CASE Proxy(s) \/ ProxyUnreachable(s)
  <2>1. s \in ListReady /\ Touch(s)
    BY <1>2 DEF Proxy, ProxyUnreachable
  <2>2. RegistryTypeOK' /\ Issued \subseteq Issued'
    BY <2>1, RegistryStepTyped DEF RegistryNext, RecordsLast
  <2>3. s \in Issued /\ s \in Issued' /\ ContainerOf(s) \in Containers
    BY <2>1, <2>2 DEF ListReady, Issued, RegistryTypeOK, ContainerOf
  <2>4. EngineTypeOK' /\ PoolTypeOK'
    BY <1>2 DEF Proxy, ProxyUnreachable, engineVars, poolVars, EngineTypeOK, PoolTypeOK
  <2>5. suspects' \in {suspects, suspects \union {s}} /\ used' \in {used, used \union {ContainerOf(s)}}
    BY <1>2 DEF Proxy, ProxyUnreachable
  <2>6. UNCHANGED <<requests, policy, round, drainer, draining, phase, recovered, budget>>
    BY <1>2 DEF Proxy, ProxyUnreachable
  <2>7. RequestsTyped'
    BY <2>2, <2>6, RememberedTyped
  <2>8. TasksTyped'
    BY <2>2, <2>3, <2>5, <2>6 DEF TasksTyped
  <2>9. suspects' \subseteq Sandboxes /\ used' \subseteq Containers
    BY <2>3, <2>5
  <2> QED
    BY <2>2, <2>4, <2>6, <2>7, <2>8, <2>9
<1>3. CASE SuspectAlive(s) \/ (s \in policy /\ PolicyStep(s) /\ UNCHANGED <<engineVars, registryVars>>)
  <2>1. UNCHANGED <<engineVars, registryVars, poolVars, requests, round, drainer, draining,
                    phase, recovered, budget, used>>
    BY <1>3 DEF SuspectAlive, PolicyStep
  <2>2. EngineTypeOK' /\ PoolTypeOK'
    BY <2>1 DEF engineVars, poolVars, EngineTypeOK, PoolTypeOK
  <2>3. RegistryTypeOK' /\ Issued' = Issued
    BY <2>1, SameRegistry
  <2>4. suspects' \subseteq suspects /\ policy' \subseteq policy
    BY <1>3 DEF SuspectAlive, PolicyStep
  <2>5. RequestsTyped'
    BY <2>1, <2>3, RememberedTyped
  <2>6. TasksTyped'
    BY <2>1, <2>3, <2>4 DEF TasksTyped
  <2> QED
    BY <2>1, <2>2, <2>3, <2>4, <2>5, <2>6
<1>4. CASE SuspectDead(s) \/ (PolicyStep(s) /\ DestroySandbox(s))
  <2>1. s \in Issued /\ DestroySandbox(s)
    BY <1>4 DEF SuspectDead, PolicyStep, TasksTyped
  <2>2. EngineTypeOK' /\ RegistryTypeOK' /\ Issued \subseteq Issued'
    BY <2>1, DestroySandboxTyped DEF RecordsLast
  <2>3. UNCHANGED <<poolVars, requests, round, drainer, draining, phase, recovered, budget, used>>
    BY <1>4 DEF SuspectDead, PolicyStep
  <2>4. PoolTypeOK'
    BY <2>3 DEF poolVars, PoolTypeOK
  <2>5. suspects' \subseteq suspects /\ policy' \subseteq policy
    BY <1>4 DEF SuspectDead, PolicyStep
  <2>6. RequestsTyped'
    BY <2>2, <2>3, RememberedTyped
  <2>7. TasksTyped'
    BY <2>2, <2>3, <2>5 DEF TasksTyped
  <2> QED
    BY <2>2, <2>3, <2>4, <2>5, <2>6, <2>7
<1> QED
  BY <1>1, <1>2, <1>3, <1>4 DEF PolicyStep

(* Collecting the sandboxes of a policy change keeps all types.              *)
LEMMA PolicyApplyTyped ==
    ASSUME TypeInv, PolicyApply PROVE TypeInv'
<1> USE DEF TypeInv, TypeOK, RoundTyped
<1>1. policy' \subseteq Issued
  BY DEF PolicyApply, ListReady, Issued
<1>2. UNCHANGED <<engineVars, registryVars, poolVars, requests, suspects, round, drainer,
                  draining, phase, recovered, budget, used>>
  BY DEF PolicyApply
<1>3. EngineTypeOK' /\ PoolTypeOK'
  BY <1>2 DEF engineVars, poolVars, EngineTypeOK, PoolTypeOK
<1>4. RegistryTypeOK' /\ Issued' = Issued
  BY <1>2, SameRegistry
<1>5. RequestsTyped'
  BY <1>2, <1>4, RememberedTyped
<1>6. TasksTyped'
  BY <1>1, <1>2, <1>4 DEF TasksTyped
<1>7. policy' \subseteq Sandboxes
  BY <1>1 DEF Issued
<1> QED
  BY <1>2, <1>3, <1>4, <1>5, <1>6, <1>7

-----------------------------------------------------------------------------
\* The pool's tasks and the engine

(* The pool's tasks and the engine's own steps keep all types.               *)
LEMMA PoolTaskTyped ==
    ASSUME TypeInv, NEW c \in Containers, PoolTask(c) \/ Refill \/ EngineStep(c)
    PROVE  TypeInv'
<1> USE DEF TypeInv, TypeOK, RoundTyped
<1>1. UNCHANGED <<registryVars, requests, suspects, policy, round, drainer, draining, phase,
                  recovered, budget>>
  BY DEF PoolTask, CleanOk, CleanFails, WarmOk, WarmFails, Refill, EngineStep, hubVars
<1>2. RegistryTypeOK' /\ RequestsTyped' /\ TasksTyped'
  BY <1>1, SameRegistry, RememberedTyped
<1>3. used' \subseteq used
  BY DEF PoolTask, CleanOk, CleanFails, WarmOk, WarmFails, Refill, EngineStep, hubVars
<1>4. EngineTypeOK' /\ PoolTypeOK'
  <2>1. CASE CleanOk(c) \/ WarmOk(c)
    BY <2>1, PoolCallsTyped DEF CleanOk, WarmOk, engineVars, EngineTypeOK
  <2>2. CASE CleanFails(c) \/ WarmFails(c)
    BY <2>2, PoolCallsTyped, EngineCallsTyped DEF CleanFails, WarmFails, AllShapes
  <2>3. CASE Refill
    <3>1. PICK cs \in SUBSET Absent : RefillStart(cs) /\ Create(cs, "plain")
      BY <2>3 DEF Refill
    <3>2. cs \in SUBSET Containers
      BY DEF Absent
    <3> QED
      BY <3>1, <3>2, PoolSetCallsTyped, EngineCallsTyped DEF AllShapes
  <2>4. CASE EngineStep(c)
    BY <2>4, EngineStepsTyped DEF EngineStep, poolVars, PoolTypeOK
  <2> QED
    BY <2>1, <2>2, <2>3, <2>4 DEF PoolTask
<1> QED
  BY <1>1, <1>2, <1>3, <1>4

-----------------------------------------------------------------------------
\* The reconciler

ComponentsTyped == EngineTypeOK /\ RegistryTypeOK /\ PoolTypeOK /\ RoundTyped

(* Steps 3, 2 and 1 of a round keep all types, from the inside out.          *)
LEMMA EvictMissingTyped ==
    ASSUME ComponentsTyped, NEW todo \in SUBSET (Containers \union Sandboxes),
           todo \subseteq Sandboxes, EvictMissing(todo)
    PROVE  ComponentsTyped' /\ Issued \subseteq Issued'
<1> USE DEF ComponentsTyped, EvictMissing
<1>1. EngineTypeOK' /\ PoolTypeOK'
  BY DEF engineVars, poolVars, EngineTypeOK, PoolTypeOK
<1>2. RegistryTypeOK' /\ Issued \subseteq Issued'
  <2>1. CASE todo = {}
    BY <2>1, SameRegistry
  <2>2. CASE todo # {}
    BY <2>2, EvictIsRegistryNext, RegistryStepTyped DEF RecordsLast
  <2> QED
    BY <2>1, <2>2
<1>3. RoundTyped'
  <2> USE DEF RoundTyped, Round
  <2>1. CASE todo = {}
    <3>1. round' = [round EXCEPT !.pc = "relist", !.todo = {}, !.at = None]
      BY <2>1
    <3> QED
      BY <3>1
  <2>2. CASE todo # {}
    <3>1. PICK s \in todo :
            round' = [round EXCEPT !.pc = "missing", !.todo = todo \ {s}, !.at = None]
      BY <2>2
    <3> QED
      BY <3>1
  <2> QED
    BY <2>1, <2>2
<1> QED
  BY <1>1, <1>2, <1>3

(* Step 2 ...                                                                *)
LEMMA DestroyOrphansTyped ==
    ASSUME ComponentsTyped, NEW todo \in SUBSET Containers, DestroyOrphans(todo)
    PROVE  ComponentsTyped' /\ Issued \subseteq Issued'
<1> USE DEF ComponentsTyped
<1>1. CASE todo = {}
  <2>1. Missing \subseteq Sandboxes
    BY DEF Missing, ListReady
  <2> QED
    BY <1>1, <2>1, EvictMissingTyped DEF DestroyOrphans
<1>2. CASE todo # {}
  <2>1. PICK c \in todo :
          /\ Remove({c})
          /\ round' = [round EXCEPT !.pc = "orphans", !.todo = todo \ {c}, !.at = c]
          /\ UNCHANGED <<registryVars, poolVars>>
    BY <1>2 DEF DestroyOrphans
  <2>2. EngineTypeOK' /\ PoolTypeOK'
    BY <2>1, EngineCallsTyped DEF poolVars, PoolTypeOK, AllShapes
  <2>3. RegistryTypeOK' /\ Issued' = Issued
    BY <2>1, SameRegistry
  <2>4. RoundTyped'
    BY <2>1 DEF RoundTyped, Round
  <2> QED
    BY <2>2, <2>3, <2>4
<1> QED
  BY <1>1, <1>2

(* ... and step 1.                                                           *)
LEMMA ForgetStoppedTyped ==
    ASSUME ComponentsTyped, NEW todo \in SUBSET Containers, ForgetStopped(todo)
    PROVE  ComponentsTyped' /\ Issued \subseteq Issued'
<1> USE DEF ComponentsTyped
<1>1. CASE todo = {}
  <2>1. Orphans \in SUBSET Containers
    BY DEF Orphans, RoundTyped, Round
  <2> QED
    BY <1>1, <2>1, DestroyOrphansTyped DEF ForgetStopped
<1>2. CASE todo # {}
  <2>1. PICK c \in todo :
          /\ LET its == {s \in ListReady : ContainerOf(s) = c}
             IN records' = Dropped(its) /\ index' = Unindexed(its)
          /\ PoolRemoveById({c})
          /\ Remove({c})
          /\ round' = [round EXCEPT !.pc = "stopped", !.todo = todo \ {c}, !.at = c]
    BY <1>2 DEF ForgetStopped
  <2>2. EngineTypeOK' /\ PoolTypeOK'
    BY <2>1, EngineCallsTyped, PoolSetCallsTyped DEF AllShapes
  <2>3. RegistryNext
    BY <2>1 DEF RegistryNext, EvictAll, ListReady
  <2>4. RegistryTypeOK' /\ Issued \subseteq Issued'
    BY <2>3, RegistryStepTyped DEF RecordsLast
  <2>5. RoundTyped'
    BY <2>1 DEF RoundTyped, Round
  <2> QED
    BY <2>2, <2>4, <2>5
<1> QED
  BY <1>1, <1>2

(* A whole step of the reconciler keeps all types.                           *)
LEMMA ReconcilerTyped ==
    ASSUME TypeInv, RoundList \/ RoundStep
    PROVE  TypeInv'
<1>1. ComponentsTyped /\ RequestsTyped /\ TasksTyped
  BY DEF TypeInv, TypeOK, ComponentsTyped
<1>2. UNCHANGED roundRest
  BY DEF RoundList, RoundStep, RoundListed, RoundForgot, RoundDestroyed, RoundEvicted,
         RoundRelist, RoundRelisted, RoundProbe, RoundBusy, RoundReclaim, RoundReclaimed, RoundPrune
<1>3. ComponentsTyped' /\ Issued \subseteq Issued'
  <2> USE DEF ComponentsTyped
  <2>1. CASE RoundList
    <3>1. RegistryTypeOK' /\ Issued \subseteq Issued'
      BY <1>1, <2>1, RegistryStepTyped DEF RoundList, RegistryNext, RecordsLast
    <3>2. EngineTypeOK' /\ PoolTypeOK'
      BY <1>1, <2>1 DEF RoundList, engineVars, poolVars, EngineTypeOK, PoolTypeOK
    <3>3. PICK seen \in SUBSET Containers :
            round' = [NoRound EXCEPT !.pc = "listing", !.listed = seen \intersect Running,
                                     !.exited = seen \intersect Stopped]
      BY <2>1 DEF RoundList, Listings, Running, Stopped
    <3>4. RoundTyped'
      BY <3>3 DEF RoundTyped, Round, NoRound
    <3> QED
      BY <3>1, <3>2, <3>4
  <2>2. CASE RoundListed
    <3>1. round.exited \in SUBSET Containers
      BY <1>1 DEF RoundTyped, Round
    <3> QED
      BY <1>1, <2>2, <3>1, ForgetStoppedTyped DEF RoundListed
  <2>3. CASE RoundForgot
    <3>1. round.todo \in SUBSET Containers
      BY <1>1, <2>3 DEF RoundTyped, RoundForgot
    <3> QED
      BY <1>1, <2>3, <3>1, ForgetStoppedTyped DEF RoundForgot
  <2>4. CASE RoundDestroyed
    <3>1. round.todo \in SUBSET Containers
      BY <1>1, <2>4 DEF RoundTyped, RoundDestroyed
    <3> QED
      BY <1>1, <2>4, <3>1, DestroyOrphansTyped DEF RoundDestroyed
  <2>5. CASE RoundEvicted
    <3>1. round.todo \in SUBSET (Containers \union Sandboxes)
      BY <1>1 DEF RoundTyped, Round
    <3>2. round.todo \subseteq Sandboxes
      BY <1>1, <2>5 DEF RoundEvicted, RoundTyped
    <3> QED
      BY <1>1, <2>5, <3>1, <3>2, EvictMissingTyped DEF RoundEvicted
  <2>6. CASE RoundRelist
    <3>1. EngineTypeOK' /\ PoolTypeOK'
      BY <1>1, <2>6 DEF RoundRelist, engineVars, poolVars, EngineTypeOK, PoolTypeOK
    <3>2. RegistryTypeOK' /\ Issued' = Issued
      BY <1>1, <2>6, SameRegistry DEF RoundRelist
    <3>3. PICK seen \in SUBSET Containers :
            round' = [round EXCEPT !.pc = "relisting", !.listed = seen]
      BY <2>6 DEF RoundRelist, Listings, Running, Stopped
    <3>4. RoundTyped'
      BY <1>1, <3>3 DEF RoundTyped, Round
    <3> QED
      BY <3>1, <3>2, <3>4
  <2>7. CASE RoundRelisted
    <3>1. EngineTypeOK'
      BY <1>1, <2>7 DEF RoundRelisted, engineVars, EngineTypeOK
    <3>2. PoolTypeOK'
      BY <1>1, <2>7, PoolSetCallsTyped DEF RoundRelisted, PoolContainerIds
    <3>3. RegistryTypeOK' /\ Issued' = Issued
      BY <1>1, <2>7, SameRegistry DEF RoundRelisted
    <3>4. ListReady \in SUBSET (Containers \union Sandboxes)
      BY DEF ListReady
    <3>5. round' = [round EXCEPT !.pc = "reclaim", !.listed = {}, !.exited = {}, !.todo = ListReady]
      BY <2>7 DEF RoundRelisted
    <3>6. RoundTyped'
      BY <1>1, <3>4, <3>5 DEF RoundTyped, Round
    <3> QED
      BY <3>1, <3>2, <3>3, <3>6
  <2>8. CASE \E s \in Sandboxes : RoundProbe(s)
    <3>1. EngineTypeOK' /\ PoolTypeOK'
      BY <1>1, <2>8 DEF RoundProbe, engineVars, poolVars, EngineTypeOK, PoolTypeOK
    <3>2. RegistryTypeOK' /\ Issued' = Issued
      BY <1>1, <2>8, SameRegistry DEF RoundProbe
    <3>3. PICK s \in Sandboxes :
            round' = [round EXCEPT !.pc = "probing", !.todo = @ \ {s}, !.at = s]
      BY <2>8 DEF RoundProbe
    <3>4. RoundTyped'
      BY <1>1, <3>3 DEF RoundTyped, Round
    <3> QED
      BY <3>1, <3>2, <3>4
  <2>9. CASE RoundBusy
    <3>1. EngineTypeOK' /\ PoolTypeOK'
      BY <1>1, <2>9 DEF RoundBusy, engineVars, poolVars, EngineTypeOK, PoolTypeOK
    <3>2. round.at \in Sandboxes
      BY <1>1, <2>9 DEF RoundBusy, RoundTyped
    <3>3. RegistryTypeOK' /\ Issued \subseteq Issued'
      BY <1>1, <2>9, <3>2, SameRegistry, RegistryStepTyped DEF RoundBusy, RegistryNext, RecordsLast
    <3>4. RoundTyped'
      BY <1>1, <2>9 DEF RoundBusy, RoundTyped, Round
    <3> QED
      BY <3>1, <3>3, <3>4
  <2>10. CASE RoundReclaim
    <3>1. RoundTyped'
      BY <1>1, <2>10 DEF RoundReclaim, RoundTyped, Round
    <3>2. CASE EvictIsCurrent(round.at)
      <4>1. Evict(round.at) /\ ReleaseToPool(ContainerOf(round.at)) /\ round.at \in Sandboxes
        BY <2>10, <3>2 DEF RoundReclaim, EvictIsCurrent, Registered
      <4>2. ContainerOf(round.at) \in Containers
        BY <1>1, <3>2 DEF EvictIsCurrent, Registered, RegistryTypeOK, ContainerOf
      <4>3. RegistryTypeOK' /\ Issued \subseteq Issued'
        BY <1>1, <4>1, EvictIsRegistryNext, RegistryStepTyped DEF RecordsLast
      <4>4. EngineTypeOK' /\ PoolTypeOK'
        BY <1>1, <4>1, <4>2, ReleaseToPoolTyped
      <4> QED
        BY <3>1, <4>3, <4>4
    <3>3. CASE ~EvictIsCurrent(round.at)
      <4>1. UNCHANGED <<engineVars, registryVars, poolVars>>
        BY <2>10, <3>3 DEF RoundReclaim
      <4>2. EngineTypeOK' /\ PoolTypeOK'
        BY <1>1, <4>1 DEF engineVars, poolVars, EngineTypeOK, PoolTypeOK
      <4> QED
        BY <1>1, <3>1, <4>1, <4>2, SameRegistry
    <3> QED
      BY <3>2, <3>3
  <2>11. CASE RoundReclaimed
    <3>1. EngineTypeOK' /\ PoolTypeOK'
      BY <1>1, <2>11 DEF RoundReclaimed, engineVars, poolVars, EngineTypeOK, PoolTypeOK
    <3>2. RegistryTypeOK' /\ Issued' = Issued
      BY <1>1, <2>11, SameRegistry DEF RoundReclaimed
    <3>3. RoundTyped'
      BY <1>1, <2>11 DEF RoundReclaimed, RoundTyped, Round
    <3> QED
      BY <3>1, <3>2, <3>3
  <2>12. CASE RoundPrune
    <3>1. EngineTypeOK' /\ PoolTypeOK'
      BY <1>1, <2>12 DEF RoundPrune, engineVars, poolVars, EngineTypeOK, PoolTypeOK
    <3>2. RegistryNext
      BY <2>12 DEF RoundPrune, RegistryNext, Registered
    <3>3. RegistryTypeOK' /\ Issued \subseteq Issued'
      BY <1>1, <3>2, RegistryStepTyped DEF RecordsLast
    <3>4. RoundTyped'
      BY <2>12 DEF RoundPrune, RoundTyped, Round, NoRound
    <3> QED
      BY <3>1, <3>3, <3>4
  <2> QED
    BY <2>1, <2>2, <2>3, <2>4, <2>5, <2>6, <2>7, <2>8, <2>9, <2>10, <2>11, <2>12 DEF RoundStep
<1>4. RequestsTyped'
  BY <1>1, <1>2, <1>3, RememberedTyped DEF roundRest
<1>5. TasksTyped'
  BY <1>1, <1>2, <1>3 DEF roundRest, TasksTyped
<1> QED
  BY <1>2, <1>3, <1>4, <1>5 DEF TypeInv, TypeOK, roundRest, ComponentsTyped, RoundTyped

-----------------------------------------------------------------------------
\* The drain and the life of the process

(* Every step of an admin drain keeps all types.                             *)
LEMMA DrainTyped ==
    ASSUME TypeInv, DrainBegin \/ DrainStep \/ Undrain
    PROVE  TypeInv'
<1> USE DEF TypeInv, TypeOK
<1>1. UNCHANGED <<requests, suspects, policy, round, phase, recovered, used>>
  BY DEF DrainBegin, DrainStep, Undrain, DrainEmptied, DrainProbe, DrainIdle, DrainBusy,
         DrainDestroyed, DrainAgain, DrainForce, DrainForced, drainRest
<1>2. ListReady \in SUBSET (Containers \union Sandboxes) /\ ListReady \subseteq Issued
  BY DEF ListReady, Issued
<1>3. /\ EngineTypeOK' /\ RegistryTypeOK' /\ Issued \subseteq Issued' /\ PoolTypeOK'
      /\ drainer' \in Drainer /\ draining' \in BOOLEAN
      /\ budget' \in [crashes : Nat, drains : Nat]
      /\ suspects \subseteq Issued' /\ policy \subseteq Issued'
      /\ drainer'.pc \in {"scan", "probing", "destroying", "forcing"} => drainer'.todo \subseteq Issued'
      /\ drainer'.pc = "probing" => drainer'.at \in Issued'
  <2> USE DEF TasksTyped
  <2>1. CASE DrainBegin
    <3>1. PoolContainerIds \in SUBSET Containers
      BY DEF PoolContainerIds
    <3>2. EngineTypeOK'
      BY <2>1, <3>1, EngineCallsTyped DEF DrainBegin, AllShapes
    <3>3. PoolTypeOK'
      <4>1. pool' \in [Containers -> Nat] /\ UNCHANGED <<cleaning, warming>>
        BY <2>1 DEF DrainBegin, PoolCleared
      <4>2. paused' \in BOOLEAN
        BY <2>1, Zenon DEF DrainBegin
      <4> QED
        BY <4>1, <4>2 DEF PoolTypeOK
    <3>4. RegistryTypeOK' /\ Issued' = Issued
      BY <2>1, SameRegistry DEF DrainBegin
    <3>5. drainer' = [pc |-> "emptying", todo |-> PoolContainerIds, at |-> None, busy |-> FALSE]
      BY <2>1 DEF DrainBegin, NoDrain
    <3>6. drainer' \in Drainer
      BY <3>1, <3>5 DEF Drainer
    <3>7. budget' \in [crashes : Nat, drains : Nat]
      BY <2>1 DEF DrainBegin
    <3>8. draining' \in BOOLEAN
      BY <2>1, Zenon DEF DrainBegin
    <3> QED
      BY <3>2, <3>3, <3>4, <3>5, <3>6, <3>7, <3>8
  <2>2. CASE Undrain
    <3>1. EngineTypeOK' /\ UNCHANGED <<drainer, budget>>
      BY <2>2 DEF Undrain, engineVars, EngineTypeOK
    <3>2. PoolTypeOK' /\ draining' \in BOOLEAN
      <4>1. UNCHANGED <<pool, cleaning, warming>>
        BY <2>2 DEF Undrain
      <4>2. paused' \in BOOLEAN /\ draining' \in BOOLEAN
        BY <2>2, Zenon DEF Undrain
      <4> QED
        BY <4>1, <4>2 DEF PoolTypeOK
    <3>3. RegistryTypeOK' /\ Issued' = Issued
      BY <2>2, SameRegistry DEF Undrain
    <3> QED
      BY <3>1, <3>2, <3>3
  <2>3. CASE DrainIdle \/ \E s \in Sandboxes : DrainForce(s)
    <3>1. PICK s \in Issued :
            /\ DestroySandbox(s)
            /\ \/ drainer' = [drainer EXCEPT !.pc = "destroying"]
               \/ drainer' = [drainer EXCEPT !.todo = @ \ {s}, !.at = s] /\ drainer.pc = "forcing"
            /\ UNCHANGED <<poolVars, draining, budget>>
      BY <2>3 DEF DrainIdle, DrainForce
    <3>2. EngineTypeOK' /\ RegistryTypeOK' /\ Issued \subseteq Issued'
      BY <3>1, DestroySandboxTyped DEF RecordsLast
    <3>3. PoolTypeOK'
      BY <3>1 DEF poolVars, PoolTypeOK
    <3>4. drainer.pc \in {"probing", "forcing"}
      BY <2>3 DEF DrainIdle, DrainForce
    <3>5. s \in Sandboxes
      BY DEF Issued
    <3>6. drainer' \in Drainer /\ drainer'.todo \subseteq Issued /\ drainer'.pc # "probing"
      <4>1. drainer \in Drainer /\ drainer.todo \subseteq Issued
        BY <3>4
      <4>2. CASE drainer' = [drainer EXCEPT !.pc = "destroying"]
        BY <4>1, <4>2 DEF Drainer
      <4>3. CASE drainer' = [drainer EXCEPT !.todo = @ \ {s}, !.at = s] /\ drainer.pc = "forcing"
        BY <3>5, <4>1, <4>3 DEF Drainer
      <4> QED
        BY <3>1, <4>2, <4>3
    <3> QED
      BY <3>1, <3>2, <3>3, <3>6
  <2>4. CASE \/ DrainEmptied \/ DrainBusy \/ DrainDestroyed \/ DrainAgain \/ DrainForced
             \/ \E s \in Sandboxes : DrainProbe(s)
    <3>1. UNCHANGED <<engineVars, registryVars, poolVars, draining, budget>>
      BY <2>4 DEF DrainEmptied, DrainBusy, DrainDestroyed, DrainAgain, DrainForced, DrainProbe
    <3>2. EngineTypeOK' /\ PoolTypeOK'
      BY <3>1 DEF engineVars, poolVars, EngineTypeOK, PoolTypeOK
    <3>3. RegistryTypeOK' /\ Issued' = Issued
      BY <3>1, SameRegistry
    <3>4. /\ drainer' \in Drainer
          /\ drainer'.pc \in {"scan", "probing", "destroying", "forcing"} => drainer'.todo \subseteq Issued
          /\ drainer'.pc = "probing" => drainer'.at \in Issued
      <4>1. CASE DrainEmptied
        <5>1. drainer' = [pc |-> "scan", todo |-> ListReady, at |-> None, busy |-> FALSE]
          BY <4>1 DEF DrainEmptied, NoDrain
        <5> QED
          BY <1>2, <5>1 DEF Drainer
      <4>2. CASE DrainBusy \/ DrainDestroyed
        BY <4>2 DEF DrainBusy, DrainDestroyed, Drainer
      <4>3. CASE DrainAgain
        <5>1. \/ drainer' = NoDrain
              \/ \E pc \in {"scan", "forcing"} :
                    drainer' = [pc |-> pc, todo |-> ListReady, at |-> None, busy |-> FALSE]
          BY <4>3 DEF DrainAgain, NoDrain
        <5>2. CASE drainer' = NoDrain
          BY <5>2 DEF Drainer, NoDrain
        <5>3. ASSUME NEW pc \in {"scan", "forcing"},
                     drainer' = [pc |-> pc, todo |-> ListReady, at |-> None, busy |-> FALSE]
              PROVE  drainer' \in Drainer /\ drainer'.todo \subseteq Issued /\ drainer'.pc # "probing"
          BY <1>2, <5>3 DEF Drainer
        <5> QED
          BY <5>1, <5>2, <5>3 DEF NoDrain
      <4>4. CASE DrainForced
        BY <4>4 DEF DrainForced, Drainer, NoDrain
      <4>5. ASSUME NEW s \in Sandboxes, DrainProbe(s)
            PROVE  /\ drainer' \in Drainer
                   /\ drainer'.todo \subseteq Issued
                   /\ drainer'.at \in Issued
        BY <4>5 DEF DrainProbe, Drainer
      <4> QED
        BY <2>4, <4>1, <4>2, <4>3, <4>4, <4>5
    <3> QED
      BY <3>1, <3>2, <3>3, <3>4
  <2> QED
    BY <2>1, <2>2, <2>3, <2>4 DEF DrainStep
<1>4. RequestsTyped'
  BY <1>1, <1>3, RememberedTyped
<1>5. TasksTyped' /\ RoundTyped'
  BY <1>1, <1>3 DEF TasksTyped, RoundTyped
<1> QED
  BY <1>1, <1>3, <1>4, <1>5

(* Losing the process's memory leaves well-typed emptiness.                  *)
LEMMA MemoryLostTyped ==
    ASSUME TypeInv, MemoryLost
    PROVE  /\ EngineTypeOK' /\ RegistryTypeOK' /\ PoolTypeOK'
           /\ requests' \in [Requests -> Request] /\ RequestsTyped'
           /\ TasksTyped' /\ RoundTyped'
           /\ suspects' = {} /\ policy' = {} /\ recovered' = {}
           /\ drainer' \in Drainer /\ draining' \in BOOLEAN
           /\ UNCHANGED used
<1> USE DEF TypeInv, TypeOK, MemoryLost
<1>1. EngineTypeOK'
  BY DEF EngineTypeOK
<1>2. RegistryTypeOK' /\ Issued \subseteq Issued'
  BY RegistryStepTyped DEF RegistryNext, RecordsLast
<1>3. PoolTypeOK'
  BY PoolSetCallsTyped
<1>4. requests' \in [Requests -> Request]
  BY DEF Request
<1>5. RequestsTyped'
  BY <1>2, <1>4 DEF RequestsTyped, inFlight, Request
<1>6. TasksTyped' /\ RoundTyped' /\ drainer' \in Drainer
  BY DEF TasksTyped, RoundTyped, NoRound, NoDrain, Round, Drainer
<1>7. draining' \in BOOLEAN
  BY Zenon
<1> QED
  BY <1>1, <1>2, <1>3, <1>4, <1>5, <1>6, <1>7

(* Recovery, shutdown, exit, restart and crash keep all types.               *)
LEMMA LifeTyped ==
    ASSUME TypeInv,
           \/ \E c \in Containers : RecoverRemove(c) \/ RecoverAdopt(c)
           \/ RecoverList \/ Serve \/ Crash \/ Shutdown \/ Exit \/ Restart
    PROVE  TypeInv'
<1> USE DEF TypeInv, TypeOK
<1>1. CASE \E c \in Containers : RecoverRemove(c) \/ RecoverAdopt(c)
  <2>1. PICK c \in Containers : RecoverRemove(c) \/ RecoverAdopt(c)
    BY <1>1
  <2>2. /\ UNCHANGED <<registryVars, requests, suspects, policy, round, drainer, draining, phase, budget>>
        /\ recovered' \subseteq recovered /\ used' \subseteq used
    BY <2>1 DEF RecoverRemove, RecoverAdopt
  <2>3. EngineTypeOK'
    BY <2>1, EngineCallsTyped DEF RecoverRemove, RecoverAdopt, AllShapes, engineVars, EngineTypeOK
  <2>4. PoolTypeOK'
    BY <2>1, PoolCallsTyped DEF RecoverRemove, RecoverAdopt, poolVars, PoolTypeOK
  <2>5. RegistryTypeOK' /\ RequestsTyped' /\ TasksTyped'
    BY <2>2, SameRegistry, RememberedTyped
  <2> QED
    BY <2>2, <2>3, <2>4, <2>5 DEF RoundTyped
<1>2. CASE RecoverList \/ Serve \/ Restart
  <2>1. UNCHANGED <<engineVars, registryVars, poolVars, requests, suspects, policy, round,
                    drainer, draining, budget, used>>
    BY <1>2 DEF RecoverList, Serve, Restart
  <2>2. phase' \in {"starting", "recovering", "serving"} /\ recovered' \subseteq Containers
    BY <1>2 DEF RecoverList, Serve, Restart, Listings, Running, Stopped
  <2>3. EngineTypeOK' /\ PoolTypeOK'
    BY <2>1 DEF engineVars, poolVars, EngineTypeOK, PoolTypeOK
  <2>4. RegistryTypeOK' /\ RequestsTyped' /\ TasksTyped'
    BY <2>1, SameRegistry, RememberedTyped
  <2> QED
    BY <2>1, <2>2, <2>3, <2>4 DEF RoundTyped
<1>3. CASE Crash \/ Exit
  <2>1. MemoryLost /\ phase' \in {"starting", "down"}
    BY <1>3 DEF Crash, Exit
  <2>2. budget' \in [crashes : Nat, drains : Nat]
    BY <1>3 DEF Crash, Exit
  <2> QED
    BY <2>1, <2>2, MemoryLostTyped DEF RoundTyped
<1>4. CASE Shutdown
  <2>1. RegistryTypeOK' /\ Issued \subseteq Issued'
    BY <1>4, RegistryStepTyped DEF Shutdown, RegistryNext, RecordsLast
  <2>2. TrackedContainerIds \union PoolContainerIds \in SUBSET Containers
    BY DEF TrackedContainerIds, PoolContainerIds, Registered, RegistryTypeOK
  <2>3. EngineTypeOK'
    BY <1>4, <2>2, EngineCallsTyped DEF Shutdown, AllShapes
  <2>4. PoolTypeOK'
    BY <1>4 DEF Shutdown, PoolTypeOK
  <2>5. /\ UNCHANGED <<requests, suspects, policy, drainer, draining, recovered, used>>
        /\ phase' = "stopping" /\ round' = NoRound
    BY <1>4 DEF Shutdown
  <2>6. budget' \in [crashes : Nat, drains : Nat]
    BY <1>4 DEF Shutdown
  <2>7. RequestsTyped' /\ TasksTyped'
    BY <2>1, <2>5, RememberedTyped
  <2>8. RoundTyped'
    BY <2>5 DEF RoundTyped, NoRound, Round
  <2> QED
    BY <2>1, <2>3, <2>4, <2>5, <2>6, <2>7, <2>8 DEF RoundTyped
<1> QED
  BY <1>1, <1>2, <1>3, <1>4

-----------------------------------------------------------------------------
(* A step that changes nothing keeps all types.                              *)
LEMMA StutterTyped == ASSUME TypeInv, UNCHANGED vars PROVE TypeInv'
<1>1. UNCHANGED <<engineVars, registryVars, poolVars, hubVars>>
  BY DEF vars
<1>2. EngineTypeOK' /\ PoolTypeOK'
  BY <1>1 DEF TypeInv, TypeOK, engineVars, poolVars, EngineTypeOK, PoolTypeOK
<1>3. RegistryTypeOK' /\ RequestsTyped' /\ TasksTyped'
  BY <1>1, SameRegistry, RememberedTyped DEF TypeInv, TypeOK, hubVars
<1> QED
  BY <1>1, <1>2, <1>3 DEF TypeInv, TypeOK, RoundTyped, hubVars

(* Every variable of the Hub keeps its type, and every coroutine that goes   *)
(* on to destroy a sandbox remembers one that has a container, for every      *)
(* value of the constants and whatever goes wrong.                           *)
THEOREM TypeInvariant == Spec => []TypeInv
<1>1. Init => TypeInv
  BY InitTyped
<1>2. TypeInv /\ [Next]_vars => TypeInv'
  <2> SUFFICES ASSUME TypeInv, [Next]_vars PROVE TypeInv'
    OBVIOUS
  <2>1. CASE UNCHANGED vars
    BY <2>1, StutterTyped
  <2>2. CASE \/ \E r \in Requests : AcquireStep(r)
             \/ \E r \in Requests, k \in Keys, shape \in Shapes : Arrive(r, k, shape)
    BY <2>2, ArriveTyped, AcquireTyped
  <2>3. CASE \/ PolicyApply
             \/ \E s \in Sandboxes : \/ Release(s) \/ Proxy(s) \/ ProxyUnreachable(s)
                                     \/ SuspectAlive(s) \/ SuspectDead(s) \/ PolicyStep(s)
    BY <2>3, PolicyApplyTyped, RequestsTypedStep
  <2>4. CASE \E c \in Containers : EngineStep(c) \/ PoolTask(c) \/ Refill
    BY <2>4, PoolTaskTyped
  <2>5. CASE RoundList \/ RoundStep
    BY <2>5, ReconcilerTyped
  <2>6. CASE DrainBegin \/ DrainStep \/ Undrain
    BY <2>6, DrainTyped
  <2>7. CASE \/ \E c \in Containers : RecoverRemove(c) \/ RecoverAdopt(c)
             \/ RecoverList \/ Serve \/ Crash \/ Shutdown \/ Exit \/ Restart
    BY <2>7, LifeTyped
  <2>8. Refill => \E c \in Containers : Refill
    BY DEF Refill, RefillStart, Absent
  <2> QED
    BY <2>1, <2>2, <2>3, <2>4, <2>5, <2>6, <2>7, <2>8 DEF Next
<1> QED
  BY <1>1, <1>2, PTL DEF Spec

(* In particular the type invariant that the runs check.                     *)
THEOREM TypeCorrect == Spec => []TypeOK
<1>1. TypeInv => TypeOK
  BY DEF TypeInv
<1> QED
  BY <1>1, TypeInvariant, PTL

-----------------------------------------------------------------------------
\* The (user, role) index

(* Only an acquire registers, and only a release marks a record released;    *)
(* whatever else the Hub does to the registry, it does through its methods.  *)
LEMMA RegistryCalls ==
    ASSUME TypeInv, Next
    PROVE  \/ RegistryTakes \/ UNCHANGED registryVars
           \/ \E r \in Requests : CheckOk(r) \/ ColdOk(r)
           \/ \E s \in Sandboxes : Release(s)
<1> USE DEF TypeInv, TypeOK
<1>1. \A s \in Issued : DestroySandbox(s) => RegistryTakes
  BY EvictTakes DEF DestroySandbox, Issued
<1>2. \A r \in Requests, k \in Keys, shape \in AllShapes :
        Lookup(r, k, shape) => RegistryTakes \/ UNCHANGED registryVars
  <2> SUFFICES ASSUME NEW r \in Requests, NEW k \in Keys, NEW shape \in AllShapes,
                      Lookup(r, k, shape)
               PROVE  RegistryTakes \/ UNCHANGED registryVars
    OBVIOUS
  <2>1. FindActive(k) # None => FindActive(k) \in Issued
    BY DEF FindActive, ListReady, Issued
  <2> QED
    BY <1>1, <2>1 DEF Lookup
<1>3. CASE \E r \in Requests, k \in Keys, shape \in Shapes : Arrive(r, k, shape)
  BY <1>2, <1>3, EngineAssumption DEF Arrive
<1>4. CASE \E r \in Requests : AcquireStep(r)
  <2>1. PICK r \in Requests : AcquireStep(r)
    BY <1>4
  <2>2. CASE Prepared(r)
    <3>1. requests[r].key \in Keys /\ requests[r].shape \in AllShapes
      BY <2>2 DEF Prepared, RequestsTyped, inFlight, Request
    <3> QED
      BY <1>2, <2>2, <3>1 DEF Prepared
  <2>3. CASE ReuseOk(r)
    BY <2>3 DEF ReuseOk, RequestsTyped, Issued, RegistryTakes
  <2>4. CASE ReuseFails(r)
    BY <1>1, <2>4 DEF ReuseFails, RequestsTyped
  <2>5. CASE CheckOk(r) \/ ColdOk(r)
    BY <2>5
  <2> QED
    BY <2>1, <2>2, <2>3, <2>4, <2>5
       DEF AcquireStep, CandidateProbed, Retry, CheckFails, ColdFails
<1>5. CASE \E s \in Sandboxes : \/ Release(s) \/ Proxy(s) \/ ProxyUnreachable(s)
                                \/ SuspectAlive(s) \/ SuspectDead(s) \/ PolicyStep(s)
  BY <1>1, <1>5 DEF Proxy, ProxyUnreachable, SuspectAlive, SuspectDead, PolicyStep,
                    RegistryTakes, TasksTyped
<1>6. CASE RoundList \/ RoundStep
  <2>1. \A s \in Sandboxes : Evict(s) => RegistryTakes
    BY EvictTakes
  <2>2. \A todo \in SUBSET Sandboxes : EvictMissing(todo) => RegistryTakes \/ UNCHANGED registryVars
    BY <2>1 DEF EvictMissing
  <2>3. ASSUME NEW todo, DestroyOrphans(todo) PROVE RegistryTakes \/ UNCHANGED registryVars
    BY <2>2, <2>3 DEF DestroyOrphans, Missing, ListReady
  <2>4. ASSUME NEW todo, ForgetStopped(todo) PROVE RegistryTakes \/ UNCHANGED registryVars
    <3>1. CASE todo = {}
      BY <2>3, <2>4, <3>1 DEF ForgetStopped
    <3>2. CASE todo # {}
      <4>1. PICK c \in todo : LET its == {s \in ListReady : ContainerOf(s) = c}
                              IN records' = Dropped(its) /\ index' = Unindexed(its)
        BY <2>4, <3>2 DEF ForgetStopped
      <4> QED
        BY <4>1 DEF RegistryTakes, EvictAll, ListReady
    <3> QED
      BY <3>1, <3>2
  <2>5. CASE RoundListed \/ RoundForgot \/ RoundDestroyed \/ RoundEvicted
    BY <2>2, <2>3, <2>4, <2>5 DEF RoundListed, RoundForgot, RoundDestroyed, RoundEvicted, RoundTyped
  <2>6. CASE RoundReclaim
    BY <2>1, <2>6 DEF RoundReclaim, RoundTyped
  <2>7. CASE RoundBusy
    BY <2>7 DEF RoundBusy, RoundTyped, RegistryTakes
  <2>8. CASE RoundPrune
    BY <2>8 DEF RoundPrune, RegistryTakes, Registered
  <2>9. CASE RoundList
    BY <2>9 DEF RoundList, RegistryTakes
  <2> QED
    BY <1>6, <2>5, <2>6, <2>7, <2>8, <2>9
       DEF RoundStep, RoundRelist, RoundRelisted, RoundReclaimed, RoundProbe
<1>7. CASE DrainBegin \/ DrainStep \/ Undrain
  BY <1>1, <1>7 DEF DrainBegin, DrainStep, Undrain, DrainEmptied, DrainProbe, DrainIdle, DrainBusy,
         DrainDestroyed, DrainAgain, DrainForce, DrainForced, TasksTyped
<1>8. CASE \/ \E c \in Containers : RecoverRemove(c) \/ RecoverAdopt(c)
           \/ RecoverList \/ Serve \/ Crash \/ Shutdown \/ Exit \/ Restart
  BY <1>8 DEF RecoverRemove, RecoverAdopt, RecoverList, Serve, Crash, Shutdown, Exit, Restart,
         MemoryLost, RegistryTakes
<1>9. CASE \/ PolicyApply \/ Refill \/ \E c \in Containers : EngineStep(c) \/ PoolTask(c)
  BY <1>9 DEF PolicyApply, Refill, EngineStep, PoolTask, CleanOk, CleanFails, WarmOk, WarmFails
<1> QED
  BY <1>3, <1>4, <1>5, <1>6, <1>7, <1>8, <1>9 DEF Next

(* Whatever the Hub does to the registry, it does through one of its methods.*)
LEMMA OnlyRegistryNext ==
    ASSUME TypeInv, Next PROVE RegistryNext \/ UNCHANGED registryVars
<1>1. RegistryTakes => RegistryNext
  BY DEF RegistryTakes, RegistryNext
<1>2. ASSUME NEW r \in Requests, CheckOk(r) \/ ColdOk(r) PROVE RegistryNext
  <2>1. requests[r].key \in Keys /\ requests[r].container \in Containers
    BY <1>2 DEF CheckOk, ColdOk, TypeInv, RequestsTyped, inFlight
  <2> QED
    BY <1>2, <2>1 DEF CheckOk, ColdOk, RegisterFor, RegistryNext
<1>3. ASSUME NEW s \in Sandboxes, Release(s) PROVE RegistryNext
  BY <1>3 DEF Release, RegistryNext
<1> QED
  BY <1>1, <1>2, <1>3, RegistryCalls

(* The index only names ready sandboxes of its pair, for every instance and   *)
(* whatever goes wrong: a release, an eviction, a prune or a crash never      *)
(* leaves an entry that a later acquire would follow to another's sandbox.    *)
THEOREM IndexAlwaysSound == Spec => []IndexSound
<1>1. Init => IndexSound
  BY DEF Init, RegistryInit, IndexSound
<1>2. TypeInv /\ IndexSound /\ [Next]_vars => IndexSound'
  <2> SUFFICES ASSUME TypeInv, IndexSound, [Next]_vars PROVE IndexSound'
    OBVIOUS
  <2>1. RegistryTypeOK
    BY DEF TypeInv, TypeOK
  <2>2. CASE RegistryNext
    BY <2>1, <2>2, RegistryStepIndexed
  <2>3. CASE UNCHANGED registryVars
    BY <2>3 DEF registryVars, IndexSound, ListReady
  <2>4. UNCHANGED vars => UNCHANGED registryVars
    BY DEF vars
  <2> QED
    BY <2>2, <2>3, <2>4, OnlyRegistryNext
<1> QED
  BY <1>1, <1>2, TypeInvariant, PTL DEF Spec

-----------------------------------------------------------------------------
\* One sandbox for a pair whose acquires take its lock

HoldsLock(r) == requests[r].pc \in inFlight /\ requests[r].shape = "inputs"

Allocates(r) == requests[r].pc \in {"evicting", "check", "discard", "cold"}

NewHasNoPair == \A r \in Requests : requests[r].pc = "new" => requests[r].key = None

LockedOnce ==
    \A q, r \in Requests :
        HoldsLock(q) /\ HoldsLock(r) /\ requests[q].key = requests[r].key => q = r

\* What an acquire saw when it looked for its pair's sandbox is still true,
\* unless that sandbox is gone.
LookupStands ==
    \A r \in Requests : requests[r].pc \in inFlight /\ OnlyInputs(requests[r].key) =>
        /\ Allocates(r) => index[requests[r].key] = None
        /\ requests[r].pc = "reuse" => index[requests[r].key] \in {None, requests[r].sandbox}

SingleInv == NewHasNoPair /\ LockedOnce /\ LookupStands /\ OneInputsSandbox

\* The registry at most loses sandboxes, and with them their index entries.
Losing ==
    /\ ListReady' \subseteq ListReady
    /\ \A s \in ListReady : records'[s].key = records[s].key
    /\ \A k \in Keys : OnlyInputs(k) =>
           index'[k] = index[k] \/ (index'[k] = None /\ index[k] \notin ListReady')

\* An acquire goes on for its pair; if it looks, it remembers what it finds.
GoesOn(r) ==
    /\ requests'[r].key = requests[r].key /\ requests'[r].shape = requests[r].shape
    /\ requests'[r].pc = "new" => requests[r].pc = "new"
    /\ requests'[r].pc \in inFlight => requests[r].pc \in inFlight
    /\ OnlyInputs(requests[r].key) =>
           /\ requests'[r].pc \in {"evicting", "check", "discard", "cold"} =>
                  Allocates(r) \/ index'[requests[r].key] = None
           /\ requests'[r].pc = "reuse" =>
                  \/ requests[r].pc = "reuse" /\ requests'[r].sandbox = requests[r].sandbox
                  \/ index'[requests[r].key] = requests'[r].sandbox

\* An acquire arrives, and takes the lock if it brings input files.
Arrives(r) ==
    /\ requests[r].pc = "new"
    /\ requests'[r].key \in Keys
    /\ requests'[r].pc \in inFlight
    /\ requests'[r].shape = "inputs" =>
           /\ requests'[r].pc \in {"probing", "preparing"}
           /\ ~InputsLocked(requests'[r].key)

CallsGoOn ==
    \/ \A q \in Requests : GoesOn(q)
    \/ \E r \in Requests : Arrives(r) /\ \A q \in Requests \ {r} : GoesOn(q)

(* Every call keeps its pair, so a pair that brings only input files did so.  *)
LEMMA OnlyInputsLasts ==
    ASSUME NewHasNoPair, CallsGoOn, NEW k \in Keys, OnlyInputs(k)' PROVE OnlyInputs(k)
<1> SUFFICES ASSUME NEW q \in Requests, requests[q].key = k PROVE requests[q].shape = "inputs"
  BY DEF OnlyInputs
<1>1. k # None
  BY IdsAssumption
<1>2. requests[q].pc # "new"
  BY <1>1 DEF NewHasNoPair
<1>3. GoesOn(q)
  BY <1>2 DEF CallsGoOn, Arrives
<1> QED
  BY <1>3 DEF GoesOn, OnlyInputs

(* Calls that go on, on a registry that only loses sandboxes, keep all parts. *)
LEMMA SingleKept ==
    ASSUME TypeInv, TypeInv', SingleInv, Losing, CallsGoOn PROVE SingleInv'
<1>1. NewHasNoPair'
  BY DEF SingleInv, NewHasNoPair, CallsGoOn, GoesOn, Arrives, inFlight
<1>2. LockedOnce'
  <2> SUFFICES ASSUME NEW q \in Requests, NEW r \in Requests,
                      requests'[q].pc \in inFlight, requests'[q].shape = "inputs",
                      requests'[r].pc \in inFlight, requests'[r].shape = "inputs",
                      requests'[q].key = requests'[r].key
               PROVE  q = r
    BY DEF LockedOnce, HoldsLock
  <2>1. GoesOn(q) => HoldsLock(q) /\ requests[q].key = requests'[q].key
    BY DEF GoesOn, HoldsLock
  <2>2. GoesOn(r) => HoldsLock(r) /\ requests[r].key = requests'[r].key
    BY DEF GoesOn, HoldsLock
  <2>3. CASE GoesOn(q) /\ GoesOn(r)
    BY <2>1, <2>2, <2>3 DEF SingleInv, LockedOnce
  <2>4. CASE Arrives(q) /\ GoesOn(r)
    BY <2>2, <2>4 DEF Arrives, InputsLocked, HoldsLock
  <2>5. CASE Arrives(r) /\ GoesOn(q)
    BY <2>1, <2>5 DEF Arrives, InputsLocked, HoldsLock
  <2> QED
    BY <2>3, <2>4, <2>5 DEF CallsGoOn
<1>3. LookupStands'
  <2> SUFFICES ASSUME NEW r \in Requests, requests'[r].pc \in inFlight,
                      \A q \in Requests : requests'[q].key = requests'[r].key => requests'[q].shape = "inputs"
               PROVE  /\ requests'[r].pc \in {"evicting", "check", "discard", "cold"} =>
                            index'[requests'[r].key] = None
                      /\ requests'[r].pc = "reuse" =>
                            index'[requests'[r].key] \in {None, requests'[r].sandbox}
    BY DEF LookupStands, Allocates, OnlyInputs
  <2>1. PICK k \in Keys : k = requests'[r].key
    BY DEF TypeInv, RequestsTyped
  <2>2. OnlyInputs(k)' /\ requests'[r].shape = "inputs"
    BY <2>1 DEF OnlyInputs
  <2>3. OnlyInputs(k)
    BY <2>2, OnlyInputsLasts DEF SingleInv
  <2>4. CASE Arrives(r)
    BY <2>2, <2>4 DEF Arrives
  <2>5. CASE GoesOn(r)
    <3>1. requests[r].pc \in inFlight /\ requests[r].key = k
      BY <2>1, <2>5 DEF GoesOn
    <3>2. /\ Allocates(r) => index[k] = None
          /\ requests[r].pc = "reuse" => index[k] \in {None, requests[r].sandbox}
      BY <2>3, <3>1 DEF SingleInv, LookupStands
    <3>3. index'[k] \in {None, index[k]}
      BY <2>3 DEF Losing
    <3> QED
      BY <2>1, <2>3, <2>5, <3>1, <3>2, <3>3 DEF GoesOn
  <2> QED
    BY <2>4, <2>5 DEF CallsGoOn
<1>4. OneInputsSandbox'
  <2> SUFFICES ASSUME NEW s \in Sandboxes, s \in ListReady',
                      \A q \in Requests : requests'[q].key = records'[s].key => requests'[q].shape = "inputs"
               PROVE  index'[records'[s].key] = s
    BY DEF OneInputsSandbox, KeyOf, ListReady, OnlyInputs
  <2>1. s \in ListReady /\ records'[s].key = records[s].key
    BY DEF Losing
  <2>2. PICK k \in Keys : k = records[s].key
    BY <2>1 DEF TypeInv, TypeOK, RegistryTypeOK, ListReady
  <2>3. OnlyInputs(k)'
    BY <2>1, <2>2 DEF OnlyInputs
  <2>4. OnlyInputs(k)
    BY <2>3, OnlyInputsLasts DEF SingleInv
  <2>5. index[k] = s
    BY <2>1, <2>2, <2>4 DEF SingleInv, OneInputsSandbox, KeyOf
  <2> QED
    BY <2>1, <2>2, <2>4, <2>5 DEF Losing
<1> QED
  BY <1>1, <1>2, <1>3, <1>4 DEF SingleInv

(* An acquire that registers has no other ready sandbox of its pair beside it. *)
LEMMA RegisterSingle ==
    ASSUME TypeInv, TypeInv', SingleInv, NEW r \in Requests, CheckOk(r) \/ ColdOk(r)
    PROVE  SingleInv'
<1> DEFINE k == requests[r].key
<1>1. /\ requests[r].pc \in inFlight /\ Allocates(r) /\ k \in Keys
      /\ RegisterFor(r, requests[r].container)
  BY DEF CheckOk, ColdOk, inFlight, Allocates, TypeInv, RequestsTyped
<1>2. PICK s \in Sandboxes :
         /\ Register(s, requests[r].container, k)
         /\ requests' = [requests EXCEPT ![r].pc = "served", ![r].sandbox = s]
  BY <1>1 DEF RegisterFor
<1>3. /\ \A q \in Requests : requests'[q].key = requests[q].key /\ requests'[q].shape = requests[q].shape
      /\ \A q \in Requests \ {r} : requests'[q] = requests[q]
      /\ requests'[r].pc = "served"
  BY <1>2 DEF TypeInv, TypeOK, Request
<1>4. /\ ListReady' = ListReady \union {s}
      /\ \A t \in ListReady : t # s /\ records'[t] = records[t]
      /\ records'[s].key = k
      /\ index'[k] = s
      /\ \A j \in Keys \ {k} : index'[j] = index[j]
  BY <1>1, <1>2 DEF Register, ListReady, TypeInv, TypeOK, RegistryTypeOK
<1> HIDE DEF k
<1>5. \A j : OnlyInputs(j)' <=> OnlyInputs(j)
  BY <1>3 DEF OnlyInputs
<1>6. NewHasNoPair' /\ LockedOnce'
  BY <1>3 DEF SingleInv, NewHasNoPair, LockedOnce, HoldsLock, inFlight
<1>7. ASSUME OnlyInputs(k) PROVE HoldsLock(r) /\ \A t \in ListReady : records[t].key # k
  <2>1. index[k] = None /\ HoldsLock(r)
    BY <1>1, <1>7 DEF SingleInv, LookupStands, HoldsLock, OnlyInputs, k
  <2> QED
    BY <1>7, <2>1, IdsAssumption DEF SingleInv, OneInputsSandbox, KeyOf, ListReady
<1>8. LookupStands'
  <2> SUFFICES ASSUME NEW q \in Requests, requests'[q].pc \in inFlight,
                      \A p \in Requests : requests'[p].key = requests'[q].key => requests'[p].shape = "inputs"
               PROVE  /\ requests'[q].pc \in {"evicting", "check", "discard", "cold"} =>
                            index'[requests'[q].key] = None
                      /\ requests'[q].pc = "reuse" =>
                            index'[requests'[q].key] \in {None, requests'[q].sandbox}
    BY DEF LookupStands, Allocates, OnlyInputs
  <2>1. q # r /\ requests'[q] = requests[q]
    BY <1>3 DEF inFlight
  <2>2. requests[q].pc \in inFlight /\ requests[q].key \in Keys /\ requests[q].shape = "inputs"
    BY <2>1 DEF TypeInv, RequestsTyped
  <2>3. OnlyInputs(requests[q].key)
    BY <1>3, <2>1 DEF OnlyInputs
  <2>4. requests[q].key # k
    <3>1. HoldsLock(q)
      BY <2>2 DEF HoldsLock
    <3> QED
      BY <1>7, <2>1, <2>3, <3>1 DEF SingleInv, LockedOnce, k
  <2>5. index'[requests[q].key] = index[requests[q].key]
    BY <1>4, <2>2, <2>4
  <2> QED
    BY <2>1, <2>2, <2>3, <2>5 DEF SingleInv, LookupStands, Allocates
<1>9. OneInputsSandbox'
  <2> SUFFICES ASSUME NEW t \in Sandboxes, t \in ListReady',
                      \A q \in Requests : requests'[q].key = records'[t].key => requests'[q].shape = "inputs"
               PROVE  index'[records'[t].key] = t
    BY DEF OneInputsSandbox, KeyOf, ListReady, OnlyInputs
  <2>1. CASE t = s
    BY <1>4, <2>1
  <2>2. CASE t # s
    <3>1. t \in ListReady /\ records'[t] = records[t]
      BY <1>4, <2>2
    <3>2. OnlyInputs(records[t].key) /\ records[t].key \in Keys
      BY <1>3, <3>1 DEF OnlyInputs, TypeInv, TypeOK, RegistryTypeOK, ListReady
    <3>3. records[t].key # k
      BY <1>7, <3>1, <3>2
    <3> QED
      BY <1>4, <3>1, <3>2, <3>3 DEF SingleInv, OneInputsSandbox, KeyOf
  <2> QED
    BY <2>1, <2>2
<1> QED
  BY <1>6, <1>8, <1>9 DEF SingleInv

(* Every other method of the registry, and a first release, at most loses    *)
(* sandboxes.                                                                *)
LEMMA TakesLosing ==
    ASSUME TypeInv, OneInputsSandbox
    PROVE  /\ RegistryTakes \/ UNCHANGED registryVars => Losing
           /\ \A s \in ListReady : MarkReleased(s) => Losing
<1> USE DEF Losing, TypeInv, TypeOK, RegistryTypeOK, Record, ListReady, Registered
<1>1. UNCHANGED registryVars => Losing
  BY DEF registryVars
<1>2. ASSUME NEW s \in Sandboxes, Touch(s) PROVE Losing
  BY <1>2 DEF Touch
<1>3. ASSUME NEW ss \in SUBSET Sandboxes, EvictAll(ss) PROVE Losing
  <2>1. ListReady' = ListReady \ ss /\ \A s \in ListReady : records'[s].key = records[s].key
    BY <1>3 DEF EvictAll, Dropped
  <2>2. \A k \in Keys : index'[k] = index[k] \/ (index'[k] = None /\ index[k] \in ss)
    BY <1>3 DEF EvictAll, Unindexed
  <2> QED
    BY <2>1, <2>2
<1>4. ASSUME NEW ss \in SUBSET Sandboxes, PruneReleased(ss) PROVE Losing
  BY <1>4 DEF PruneReleased, Dropped
<1>5. NewRound => Losing
  BY DEF NewRound
<1>6. RegistryCleared => Losing
  BY DEF RegistryCleared, Dropped
<1>7. ASSUME NEW s \in ListReady, MarkReleased(s) PROVE Losing
  <2>1. records[s].key \in Keys
    OBVIOUS
  <2>2. ListReady' = ListReady \ {s} /\ \A t \in ListReady : records'[t].key = records[t].key
    BY <1>7 DEF MarkReleased
  <2>3. /\ \A k \in Keys : k # records[s].key => index'[k] = index[k]
        /\ index'[records[s].key] = None
    BY <1>7, <2>1 DEF MarkReleased
  <2>4. OnlyInputs(records[s].key) => index[records[s].key] = s
    BY DEF OneInputsSandbox, KeyOf
  <2> QED
    BY <2>2, <2>3, <2>4
<1> QED
  BY <1>1, <1>2, <1>3, <1>4, <1>5, <1>6, <1>7 DEF RegistryTakes

(* An acquire that allocates remembers its pair, and what it brings.         *)
LEMMA AllocateRemembers ==
    ASSUME NEW r \in Requests, NEW k, NEW shape, Allocate(r, k, shape)
    PROVE  \E pc \in {"check", "cold"}, c \in Containers :
              requests' = [requests EXCEPT ![r] =
                  [pc |-> pc, key |-> k, shape |-> shape, sandbox |-> None, container |-> c]]
BY DEF Allocate, ColdStart, Absent

(* One that looks sees what the index names, and empties it if it does not   *)
(* take that.                                                                *)
LEMMA LookupRemembers ==
    ASSUME TypeInv, IndexSound, NEW r \in Requests, NEW k \in Keys, NEW shape, Lookup(r, k, shape)
    PROVE  \E pc \in {"check", "cold", "evicting", "reuse"}, s \in Sandboxes \union {None},
              c \in Containers :
              /\ requests' = [requests EXCEPT ![r] =
                     [pc |-> pc, key |-> k, shape |-> shape, sandbox |-> s, container |-> c]]
              /\ index'[k] = IF pc = "reuse" THEN s ELSE None
<1>1. CASE index[k] = None
  <2>1. FindActive(k) = None
    BY <1>1 DEF FindActive
  <2>2. Allocate(r, k, shape) /\ index' = index
    BY <2>1 DEF Lookup, registryVars
  <2> QED
    BY <1>1, <2>2, AllocateRemembers
<1>2. CASE index[k] # None
  <2>1. index[k] \in ListReady /\ FindActive(k) = index[k] /\ index[k] \in Sandboxes
    BY <1>2 DEF IndexSound, FindActive, ListReady
  <2>2. ContainerOf(index[k]) \in Containers
    BY <2>1 DEF ContainerOf, ListReady, TypeInv, TypeOK, RegistryTypeOK
  <2>3. CASE shape = "inputs" /\ kind[ContainerOf(index[k])] # "inputs"
    <3>1. index'[k] = None
      BY <1>2, <2>1, <2>3 DEF Lookup, DestroySandbox, Evict, Unindexed
    <3> QED
      BY <1>2, <2>1, <2>2, <2>3, <3>1 DEF Lookup
  <2>4. CASE ~(shape = "inputs" /\ kind[ContainerOf(index[k])] # "inputs")
    BY <1>2, <2>1, <2>2, <2>4 DEF Lookup, registryVars
  <2> QED
    BY <2>3, <2>4
<1> QED
  BY <1>1, <1>2

(* An acquire goes on.                                                       *)
LEMMA AcquireGoesOn ==
    ASSUME TypeInv, IndexSound, SingleInv, NEW r \in Requests, AcquireStep(r) PROVE CallsGoOn
<1> DEFINE k == requests[r].key
<1>1. k \in Keys /\ requests[r].pc \in inFlight
  BY DEF AcquireStep, CandidateProbed, Prepared, ReuseOk, ReuseFails, Retry, CheckOk, CheckFails,
         ColdOk, ColdFails, inFlight, TypeInv, RequestsTyped
<1> SUFFICES ASSUME NEW q \in Requests PROVE GoesOn(q)
  BY DEF CallsGoOn
<1> USE DEF GoesOn, TypeInv, TypeOK, Request
<1>2. UNCHANGED requests[q] => GoesOn(q)
  <2> SUFFICES ASSUME UNCHANGED requests[q] PROVE GoesOn(q)
    OBVIOUS
  <2> QED
    BY DEF Allocates
<1>3. q # r => UNCHANGED requests[q]
  BY DEF AcquireStep, CandidateProbed, Prepared, ReuseOk, ReuseFails, Retry, CheckOk, CheckFails,
         ColdOk, ColdFails, Await, RegisterFor, Lookup, Allocate, ColdStart
<1>4. CASE Prepared(r) /\ Lookup(r, k, requests[r].shape)
  BY <1>1, <1>2, <1>3, <1>4, LookupRemembers
<1>5. CASE ReuseFails(r)
  <2>1. OnlyInputs(k) => index'[k] = None
    <3> SUFFICES ASSUME OnlyInputs(k) PROVE index'[k] = None
      OBVIOUS
    <3>1. index[k] \in {None, requests[r].sandbox}
      BY <1>1, <1>5 DEF ReuseFails, SingleInv, LookupStands
    <3> QED
      BY <1>1, <1>5, <3>1 DEF ReuseFails, DestroySandbox, Evict, Unindexed
  <2> QED
    BY <1>1, <1>2, <1>3, <1>5, <2>1 DEF ReuseFails, Await, inFlight
<1>6. CASE Retry(r)
  <2>1. Allocate(r, k, requests[r].shape) /\ requests[r].pc \in {"evicting", "discard"}
    BY <1>6 DEF Retry
  <2> QED
    BY <1>1, <1>2, <1>3, <2>1, AllocateRemembers DEF Allocates
<1>7. CASE CheckOk(r) \/ ColdOk(r)
  BY <1>1, <1>2, <1>3, <1>7 DEF CheckOk, ColdOk, RegisterFor, inFlight
<1>8. CASE \/ CandidateProbed(r) \/ ReuseOk(r) \/ CheckFails(r) \/ ColdFails(r)
           \/ Prepared(r) /\ Await(r, "failed")
  BY <1>1, <1>2, <1>3, <1>8 DEF CandidateProbed, ReuseOk, CheckFails, ColdFails, Await, Allocates, inFlight
<1> QED
  BY <1>4, <1>5, <1>6, <1>7, <1>8 DEF AcquireStep, Prepared

(* One arrives, and takes the lock of its pair if it brings input files.     *)
LEMMA ArriveGoesOn ==
    ASSUME TypeInv, IndexSound, SingleInv, NEW r \in Requests, NEW k \in Keys, NEW shape \in Shapes,
           Arrive(r, k, shape)
    PROVE  CallsGoOn
<1> USE DEF TypeInv, TypeOK, Request
<1>1. \A q \in Requests \ {r} : GoesOn(q)
  <2> SUFFICES ASSUME NEW q \in Requests \ {r} PROVE GoesOn(q)
    OBVIOUS
  <2>1. UNCHANGED requests[q]
    BY DEF Arrive, Await, Lookup, Allocate, ColdStart
  <2> QED
    BY <2>1 DEF GoesOn, Allocates
<1>2. CASE Await(r, "failed")
  BY <1>1, <1>2 DEF Arrive, Await, GoesOn, CallsGoOn, inFlight
<1>3. CASE ~Await(r, "failed")
  <2>1. requests[r].pc = "new"
    BY DEF Arrive
  <2>2. CASE shape = "inputs"
    <3>1. /\ requests'[r].pc \in {"probing", "preparing"} /\ requests'[r].key = k
          /\ ~InputsLocked(k)
      BY <1>3, <2>2 DEF Arrive
    <3> QED
      BY <1>1, <2>1, <3>1 DEF Arrives, CallsGoOn, inFlight
  <2>3. CASE shape # "inputs"
    <3>1. Lookup(r, k, shape)
      BY <1>3, <2>3 DEF Arrive
    <3> QED
      BY <1>1, <2>1, <2>3, <3>1, LookupRemembers DEF Arrives, CallsGoOn, inFlight
  <2> QED
    BY <2>2, <2>3
<1> QED
  BY <1>2, <1>3

(* No other step of the Hub moves an acquire, but a process that ends fails   *)
(* them all.                                                                 *)
LEMMA CallsAlwaysGoOn ==
    ASSUME TypeInv, IndexSound, SingleInv, [Next]_vars PROVE CallsGoOn
<1>1. UNCHANGED requests => CallsGoOn
  BY DEF CallsGoOn, GoesOn, Allocates
<1>2. MemoryLost => CallsGoOn
  BY DEF MemoryLost, CallsGoOn, GoesOn, TypeInv, TypeOK, Request, inFlight
<1>3. CASE \E r \in Requests : AcquireStep(r)
  BY <1>3, AcquireGoesOn
<1>4. CASE \E r \in Requests, k \in Keys, shape \in Shapes : Arrive(r, k, shape)
  BY <1>4, ArriveGoesOn
<1>5. CASE \E s \in Sandboxes : \/ Release(s) \/ Proxy(s) \/ ProxyUnreachable(s)
                                \/ SuspectAlive(s) \/ SuspectDead(s) \/ PolicyStep(s)
  BY <1>1, <1>5 DEF Release, Proxy, ProxyUnreachable, SuspectAlive, SuspectDead, PolicyStep, hubVars
<1>6. CASE RoundList \/ RoundStep
  BY <1>1, <1>6 DEF RoundList, RoundStep, RoundListed, RoundForgot, RoundDestroyed, RoundEvicted,
         RoundRelist, RoundRelisted, RoundProbe, RoundBusy, RoundReclaim, RoundReclaimed, RoundPrune, roundRest
<1>7. CASE DrainBegin \/ DrainStep \/ Undrain
  BY <1>1, <1>7 DEF DrainBegin, DrainStep, Undrain, DrainEmptied, DrainProbe, DrainIdle, DrainBusy,
         DrainDestroyed, DrainAgain, DrainForce, DrainForced, drainRest
<1>8. CASE \/ \E c \in Containers : RecoverRemove(c) \/ RecoverAdopt(c)
           \/ RecoverList \/ Serve \/ Crash \/ Shutdown \/ Exit \/ Restart
  BY <1>1, <1>2, <1>8 DEF RecoverRemove, RecoverAdopt, RecoverList, Serve, Crash, Shutdown, Exit, Restart
<1>9. CASE \/ PolicyApply \/ Refill \/ (\E c \in Containers : EngineStep(c) \/ PoolTask(c)) \/ UNCHANGED vars
  BY <1>1, <1>9 DEF PolicyApply, Refill, EngineStep, PoolTask, CleanOk, CleanFails, WarmOk, WarmFails,
         vars, hubVars
<1> QED
  BY <1>3, <1>4, <1>5, <1>6, <1>7, <1>8, <1>9 DEF Next

(* A pair all of whose acquires bring input files has at most one ready      *)
(* sandbox, which the next acquire finds, whatever probes, drains, rounds    *)
(* and crashes do between two awaits of an acquire: what makes it so is the   *)
(* lock of the pair. Callers release a sandbox once.                         *)
THEOREM InputsStaySingle ==
    ASSUME "again" \notin Adversity PROVE Spec => []OneInputsSandbox
<1>1. Init => SingleInv
  BY DEF Init, NewRequest, RegistryInit, Unused, SingleInv, NewHasNoPair, LockedOnce, HoldsLock,
         LookupStands, OneInputsSandbox, ListReady, inFlight
<1>2. TypeInv /\ TypeInv' /\ IndexSound /\ SingleInv /\ [Next]_vars => SingleInv'
  <2> SUFFICES ASSUME TypeInv, TypeInv', IndexSound, SingleInv, [Next]_vars PROVE SingleInv'
    OBVIOUS
  <2>1. CallsGoOn
    BY CallsAlwaysGoOn
  <2>2. CASE RegistryTakes \/ UNCHANGED registryVars
    BY <2>1, <2>2, TakesLosing, SingleKept DEF SingleInv
  <2>3. CASE \E s \in Sandboxes : Release(s)
    BY <2>1, <2>3, TakesLosing, SingleKept DEF SingleInv, Release, May
  <2>4. CASE \E r \in Requests : CheckOk(r) \/ ColdOk(r)
    BY <2>4, RegisterSingle
  <2>5. UNCHANGED vars => UNCHANGED registryVars
    BY DEF vars
  <2> QED
    BY <2>2, <2>3, <2>4, <2>5, RegistryCalls
<1>3. SingleInv => OneInputsSandbox
  BY DEF SingleInv
<1> QED
  BY <1>1, <1>2, <1>3, TypeInvariant, IndexAlwaysSound, PTL DEF Spec
=============================================================================
