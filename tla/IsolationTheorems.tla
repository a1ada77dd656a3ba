-------------------------- MODULE IsolationTheorems -------------------------
(***************************************************************************)
(* Every step of the Hub is of one of the kinds of IsolationProofs, so its  *)
(* tenants stay apart, a tenant's own container stays out of the pool, and  *)
(* what is in the pool has been reset; and each kind of step is a step of   *)
(* TenantIsolation or changes nothing there, so the Hub implements it.      *)
(***************************************************************************)
EXTENDS IsolationProofs

-----------------------------------------------------------------------------
\* The parts of quiet steps

\* Records are released, or lose their activity, only with a timestamp or a
\* new round of the reconciler.
Progressed ==
    \A s \in Sandboxes :
        records'[s].status = "released" /\ ~records'[s].recent
            => records[s].status = "released" /\ ~records[s].recent

(* Removing containers, and what the engine does on its own, is quiet.       *)
LEMMA EngineQuiet ==
    ASSUME TypeInv
    PROVE  /\ UNCHANGED engineVars => QuietEngine /\ Absent' = Absent
           /\ UNCHANGED <<docker, kind>> => QuietEngine /\ Absent' = Absent
           /\ \A cs : Remove(cs) => QuietEngine /\ Absent' = Absent
           /\ \A c \in Containers : Boot(c) \/ RemoveReturns(c) \/ Die(c) \/ Age(c) => QuietEngine
<1>1. UNCHANGED <<docker, kind>> => QuietEngine /\ Absent' = Absent
  BY DEF QuietEngine, Absent
<1>2. \A c \in Containers : Boot(c) \/ RemoveReturns(c) \/ Die(c) \/ Age(c) => QuietEngine
  BY DEF TypeInv, TypeOK, EngineTypeOK, QuietEngine, Absent, Boot, RemoveReturns, Die, Age
<1> QED
  BY <1>1, <1>2 DEF engineVars, Remove

(* The pool's methods that take something out of it are quiet.               *)
LEMMA PoolQuiet ==
    ASSUME TypeInv
    PROVE  /\ UNCHANGED poolVars => QuietPool
           /\ \A cs : PoolRemoveById(cs) => QuietPool
           /\ PoolCleared \/ PoolLost => QuietPool
           /\ \A c \in Containers : CleanGiveUp(c) \/ WarmGiveUp(c) => QuietPool
<1> USE TypeFacts DEF QuietPool
<1>1. UNCHANGED poolVars => QuietPool
  BY DEF poolVars
<1>2. \A cs : PoolRemoveById(cs) => QuietPool
  BY DEF PoolRemoveById
<1>3. PoolCleared \/ PoolLost => QuietPool
  BY DEF PoolCleared, PoolLost
<1>4. \A c \in Containers : CleanGiveUp(c) \/ WarmGiveUp(c) => QuietPool
  BY DEF CleanGiveUp, WarmGiveUp
<1> QED
  BY <1>1, <1>2, <1>3, <1>4

(* Every method of the registry but register is quiet.                       *)
LEMMA RegistryQuiet ==
    ASSUME TypeInv
    PROVE  /\ UNCHANGED registryVars => QuietRegistry /\ Progressed
           /\ \A s \in Sandboxes : MarkReleased(s) \/ Touch(s) \/ Evict(s)
                                      => QuietRegistry /\ Progressed
           /\ \A ss \in SUBSET Sandboxes : EvictAll(ss) \/ PruneReleased(ss)
                                              => QuietRegistry /\ Progressed
           /\ NewRound => QuietRegistry
           /\ RegistryCleared => QuietRegistry
<1> USE DEF TypeInv, TypeOK, RegistryTypeOK, Record, QuietRegistry, Progressed, Issued, ListReady,
            Registered
<1>1. UNCHANGED registryVars => QuietRegistry /\ Progressed
  BY DEF registryVars
<1>2. \A s \in Sandboxes : MarkReleased(s) => QuietRegistry /\ Progressed
  BY DEF MarkReleased
<1>3. \A s \in Sandboxes : Touch(s) => QuietRegistry /\ Progressed
  BY DEF Touch
<1>4. \A s \in Sandboxes : Evict(s) => QuietRegistry /\ Progressed
  BY DEF Evict, Dropped
<1>5. \A ss \in SUBSET Sandboxes : EvictAll(ss) \/ PruneReleased(ss) => QuietRegistry /\ Progressed
  BY DEF EvictAll, PruneReleased, Dropped
<1>6. NewRound => QuietRegistry
  BY DEF NewRound
<1>7. RegistryCleared => QuietRegistry
  BY DEF RegistryCleared, Dropped
<1> QED
  BY <1>1, <1>2, <1>3, <1>4, <1>5, <1>6, <1>7

(* An acquire that goes on without taking a container is quiet.              *)
LEMMA RequestQuiet ==
    ASSUME TypeInv
    PROVE  /\ UNCHANGED requests => QuietRequests
           /\ \A r \in Requests, pc \in {"failed", "served", "discard", "evicting", "preparing"} :
                 Await(r, pc) /\ (pc \in {"failed", "served"} \/ requests[r].pc \in inFlight)
                     => QuietRequests
<1>1. UNCHANGED requests => QuietRequests
  BY DEF QuietRequests, Acquiring, HandedOut
<1> SUFFICES ASSUME NEW r \in Requests,
                    NEW pc \in {"failed", "served", "discard", "evicting", "preparing"},
                    Await(r, pc), pc \in {"failed", "served"} \/ requests[r].pc \in inFlight
             PROVE  QuietRequests
  BY <1>1
<1> QED
  BY DEF TypeInv, TypeOK, Request, Await, QuietRequests, Acquiring, HandedOut, inFlight

-----------------------------------------------------------------------------
\* What a step does to the phase, the round and its candidates for reclaim.
Course ==
    /\ phase' = phase
    /\ round.pc = "idle" => round'.pc = "idle" \/ phase = "serving"
    /\ Candidates' = {} \/ (Progressed /\ Candidates' \subseteq Candidates \union ListReady)

(* A step that leaves phase and round alone, and does not start a new round. *)
LEMMA SameCourse ==
    ASSUME Progressed, UNCHANGED <<phase, round>> PROVE Course
BY DEF Course, Candidates

-----------------------------------------------------------------------------
\* The requests

(* Taking a container from the pool or starting one moves one claim.         *)
LEMMA AllocateKind ==
    ASSUME TypeInv, NEW r \in Requests, NEW k \in Keys, NEW shape \in AllShapes,
           Acquiring(r), ~HandedOut(r), Allocate(r, k, shape),
           UNCHANGED <<registryVars, recovered, used>>
    PROVE  Kind
<1>1. CASE shape = "plain" /\ PoolContainerIds # {}
  <2>1. PICK c \in Containers : Popped(r, c)
    BY <1>1 DEF Allocate, Popped, engineVars
  <2> QED
    BY <2>1 DEF Kind
<1>2. CASE ~(shape = "plain" /\ PoolContainerIds # {})
  <2>1. PICK c \in Absent : Started(r, c)
    BY <1>2 DEF Allocate, ColdStart, Started
  <2>2. c \in Containers
    BY DEF Absent
  <2> QED
    BY <2>1, <2>2 DEF Kind
<1> QED
  BY <1>1, <1>2

(* So does looking for a sandbox to reuse, or it is quiet.                   *)
LEMMA LookupKind ==
    ASSUME TypeInv, NEW r \in Requests, NEW k \in Keys, NEW shape \in AllShapes,
           Acquiring(r), ~HandedOut(r), Lookup(r, k, shape), UNCHANGED <<recovered, used>>
    PROVE  Kind /\ Progressed
<1>1. CASE FindActive(k) = None
  <2>1. Allocate(r, k, shape) /\ UNCHANGED registryVars
    BY <1>1 DEF Lookup
  <2> QED
    BY <2>1, AllocateKind, RegistryQuiet
<1>2. CASE FindActive(k) # None
  <2> DEFINE s == FindActive(k)
  <2>1. s \in Sandboxes
    BY <1>2 DEF FindActive, ListReady
  <2>2. UNCHANGED poolVars
        /\ \E pc \in {"evicting", "reuse"} :
              requests' = [requests EXCEPT ![r] =
                  [pc |-> pc, key |-> k, shape |-> shape, sandbox |-> s, container |-> ContainerOf(s)]]
    BY <1>2 DEF Lookup
  <2>3. QuietRequests
    BY <2>2 DEF QuietRequests, HandedOut, Acquiring, TypeInv, TypeOK
  <2>4. QuietEngine /\ QuietRegistry /\ Progressed /\ Absent' = Absent
    <3>1. CASE DestroySandbox(s)
      BY <2>1, <3>1, EngineQuiet, RegistryQuiet DEF DestroySandbox
    <3>2. CASE UNCHANGED <<engineVars, registryVars>>
      BY <3>2, EngineQuiet, RegistryQuiet
    <3> QED
      BY <1>2, <3>1, <3>2 DEF Lookup
  <2> QED
    BY <2>2, <2>3, <2>4, PoolQuiet DEF Kind, Quiet, OneThing
<1> QED
  BY <1>1, <1>2

(* An acquire arrives ...                                                    *)
LEMMA ArriveKind ==
    ASSUME TypeInv, NEW r \in Requests, NEW k \in Keys, NEW shape \in Shapes, Arrive(r, k, shape)
    PROVE  Kind /\ Course
<1>1. /\ UNCHANGED <<recovered, used, phase, round>> /\ phase = "serving" /\ Acquiring(r)
      /\ shape \in AllShapes /\ ~HandedOut(r)
  BY EngineAssumption DEF Arrive, Acquiring, HandedOut
<1>2. CASE Lookup(r, k, shape)
  BY <1>1, <1>2, LookupKind, SameCourse
<1>3. CASE ~Lookup(r, k, shape)
  <2>1. UNCHANGED <<engineVars, registryVars, poolVars>>
    BY <1>3 DEF Arrive
  <2>2. CASE Await(r, "failed")
    BY <1>1, <2>1, <2>2, EngineQuiet, RegistryQuiet, PoolQuiet, RequestQuiet, SameCourse
       DEF Kind, Quiet, OneThing
  <2>3. CASE ~Await(r, "failed")
    <3>1. \E pc \in {"probing", "preparing"} :
             requests' = [requests EXCEPT ![r] =
                 [pc |-> pc, key |-> k, shape |-> shape, sandbox |-> None, container |-> None]]
      BY <1>3, <2>3 DEF Arrive
    <3>2. QuietRequests
      BY <1>1, <3>1 DEF QuietRequests, HandedOut, Acquiring, TypeInv, TypeOK
    <3> QED
      BY <1>1, <2>1, <3>2, EngineQuiet, RegistryQuiet, PoolQuiet, SameCourse DEF Kind, Quiet, OneThing
  <2> QED
    BY <2>2, <2>3
<1> QED
  BY <1>2, <1>3

(* ... and goes on.                                                          *)
LEMMA AcquireKind ==
    ASSUME TypeInv, NEW r \in Requests, AcquireStep(r)
    PROVE  Kind /\ Course
<1>1. UNCHANGED <<recovered, used, phase, round>> /\ requests[r].pc \in inFlight
  BY DEF AcquireStep, CandidateProbed, Prepared, ReuseOk, ReuseFails, Retry, CheckOk, CheckFails,
         ColdOk, ColdFails, inFlight
<1>2. Acquiring(r) /\ requests[r].key \in Keys /\ requests[r].shape \in AllShapes
  BY <1>1 DEF Acquiring, TypeInv, TypeOK, RequestsTyped, Request
<1>3. CASE Prepared(r) /\ Lookup(r, requests[r].key, requests[r].shape)
  BY <1>1, <1>2, <1>3, LookupKind, SameCourse DEF Prepared, HandedOut
<1>4. CASE CandidateProbed(r) \/ (Prepared(r) /\ Await(r, "failed")
                                  /\ UNCHANGED <<engineVars, registryVars, poolVars>>)
  BY <1>1, <1>4, EngineQuiet, RegistryQuiet, PoolQuiet, RequestQuiet, SameCourse
     DEF CandidateProbed, Kind, Quiet, OneThing
<1>5. CASE ReuseOk(r) \/ ReuseFails(r)
  <2>1. requests[r].sandbox \in Sandboxes
    BY <1>5 DEF ReuseOk, ReuseFails, TypeInv, RequestsTyped, Issued
  <2>2. QuietRegistry /\ Progressed /\ QuietEngine /\ Absent' = Absent
    BY <1>5, <2>1, EngineQuiet, RegistryQuiet DEF ReuseOk, ReuseFails, DestroySandbox
  <2>3. QuietRequests /\ UNCHANGED poolVars
    BY <1>1, <1>5, RequestQuiet DEF ReuseOk, ReuseFails
  <2> QED
    BY <1>1, <2>2, <2>3, PoolQuiet, SameCourse DEF Kind, Quiet, OneThing
<1>6. CASE Retry(r)
  BY <1>1, <1>2, <1>6, AllocateKind, RegistryQuiet, SameCourse DEF Retry, HandedOut
<1>7. CASE CheckOk(r) \/ ColdOk(r)
  <2>1. Assigned(r) /\ requests[r].container \in Containers
    BY <1>1, <1>7, TypeFacts DEF CheckOk, ColdOk, Assigned, HandedOut, ProbeOk, engineVars
  <2>2. Progressed
    BY <2>1 DEF Assigned, RegisterFor, Register, Progressed, TypeInv, TypeOK, RegistryTypeOK
  <2> QED
    BY <1>1, <2>1, <2>2, SameCourse DEF Kind
<1>8. CASE CheckFails(r) \/ ColdFails(r)
  <2>1. QuietRequests
    BY <1>1, <1>8, RequestQuiet DEF CheckFails, ColdFails
  <2> QED
    BY <1>1, <1>8, <2>1, EngineQuiet, RegistryQuiet, PoolQuiet, SameCourse
       DEF CheckFails, ColdFails, Kind, Quiet, OneThing
<1> QED
  BY <1>3, <1>4, <1>5, <1>6, <1>7, <1>8 DEF AcquireStep, Prepared

(* A release hands one container back; the other requests are quiet.         *)
LEMMA OtherRequestKind ==
    ASSUME TypeInv, NEW s \in Sandboxes,
           \/ Release(s) \/ Proxy(s) \/ ProxyUnreachable(s) \/ PolicyApply
           \/ SuspectAlive(s) \/ SuspectDead(s) \/ PolicyStep(s)
    PROVE  Kind /\ Course
<1>1. UNCHANGED <<requests, phase, round, recovered>>
  BY DEF Release, Proxy, ProxyUnreachable, PolicyApply, SuspectAlive, SuspectDead, PolicyStep, hubVars
<1>2. CASE Release(s)
  <2>1. QuietRegistry /\ Progressed /\ ListReady' \subseteq ListReady \ {s}
    BY <1>2, RegistryQuiet
       DEF Release, MarkReleased, QuietRegistry, ListReady, TypeInv, TypeOK, RegistryTypeOK, Record
  <2>2. HandedBack(s)
    BY <1>1, <1>2, <2>1 DEF Release, MarkReleased, HandedBack, QuietRegistry, hubVars
  <2> QED
    BY <1>1, <2>1, <2>2, SameCourse DEF Kind
<1>3. CASE Proxy(s) \/ ProxyUnreachable(s)
  <2>1. /\ Touch(s) /\ UNCHANGED <<engineVars, poolVars>>
        /\ used' \subseteq used \union {ContainerOf(t) : t \in ListReady}
    BY <1>3 DEF Proxy, ProxyUnreachable
  <2>2. Proxied(s) \/ used' = used
    BY <1>1, <1>3 DEF Proxy, ProxyUnreachable, Proxied, engineVars
  <2> QED
    BY <1>1, <2>1, <2>2, EngineQuiet, RegistryQuiet, PoolQuiet, RequestQuiet, SameCourse
       DEF Kind, Quiet, OneThing
<1>4. CASE PolicyApply \/ SuspectAlive(s) \/ SuspectDead(s) \/ PolicyStep(s)
  <2>1. /\ DestroySandbox(s) \/ UNCHANGED <<engineVars, registryVars>>
        /\ UNCHANGED <<poolVars, used>>
    BY <1>4 DEF PolicyApply, SuspectAlive, SuspectDead, PolicyStep
  <2>2. QuietEngine /\ QuietRegistry /\ Progressed /\ Absent' = Absent
    BY <2>1, EngineQuiet, RegistryQuiet DEF DestroySandbox
  <2> QED
    BY <1>1, <2>1, <2>2, PoolQuiet, RequestQuiet, SameCourse DEF Kind, Quiet, OneThing
<1> QED
  BY <1>2, <1>3, <1>4

-----------------------------------------------------------------------------
\* The background tasks

(* A pool task pools one container or gives it up; the engine is quiet.      *)
LEMMA PoolTaskKind ==
    ASSUME TypeInv, NEW c \in Containers, PoolTask(c) \/ Refill \/ EngineStep(c)
    PROVE  Kind /\ Course
<1>1. UNCHANGED <<registryVars, requests, phase, round, recovered>>
  BY DEF PoolTask, CleanOk, CleanFails, WarmOk, WarmFails, Refill, EngineStep, hubVars
<1>2. Course
  BY <1>1, RegistryQuiet, SameCourse
<1>3. CASE CleanOk(c) \/ WarmOk(c)
  <2>1. Pooled(c)
    BY <1>1, <1>3 DEF CleanOk, WarmOk, WarmAppend, Pooled, ProbeOk, engineVars, hubVars
  <2> QED
    BY <1>2, <2>1 DEF Kind
<1>4. CASE CleanFails(c) \/ WarmFails(c) \/ EngineStep(c)
  <2>1. QuietEngine /\ QuietPool /\ UNCHANGED used /\ (Absent' = Absent \/ UNCHANGED poolVars)
    BY <1>4, EngineQuiet, PoolQuiet DEF CleanFails, WarmFails, EngineStep, hubVars
  <2> QED
    BY <1>1, <1>2, <2>1, RegistryQuiet, RequestQuiet DEF Kind, Quiet, OneThing
<1>5. CASE Refill
  <2>1. PICK cs \in SUBSET Absent : RefillStart(cs) /\ Create(cs, "plain")
    BY <1>5 DEF Refill
  <2>2. Warmed(cs) /\ cs \in SUBSET Containers
    BY <1>1, <1>5, <2>1 DEF Refill, RefillStart, Refilling, Warmed, Absent, hubVars
  <2> QED
    BY <1>2, <2>2 DEF Kind
<1> QED
  BY <1>3, <1>4, <1>5 DEF PoolTask

(* A step of the drain is quiet.                                             *)
LEMMA DrainKind ==
    ASSUME TypeInv, DrainBegin \/ DrainStep \/ Undrain
    PROVE  Kind /\ Course
<1>1. UNCHANGED drainRest
  BY DEF DrainBegin, DrainStep, Undrain, DrainEmptied, DrainProbe, DrainIdle, DrainBusy,
         DrainDestroyed, DrainAgain, DrainForce, DrainForced
<1>2. QuietPool
  <2>1. UNCHANGED <<pool, cleaning, warming>> => QuietPool
    BY TypeFacts DEF QuietPool
  <2> QED
    BY <2>1, PoolQuiet DEF DrainBegin, DrainStep, Undrain, DrainEmptied, DrainProbe, DrainIdle, DrainBusy,
       DrainDestroyed, DrainAgain, DrainForce, DrainForced
<1>3. /\ UNCHANGED engineVars \/ \E cs : Remove(cs)
      /\ UNCHANGED registryVars \/ \E s \in Sandboxes : Evict(s)
  BY DEF DrainBegin, DrainStep, Undrain, DrainEmptied, DrainProbe, DrainIdle, DrainBusy,
         DrainDestroyed, DrainAgain, DrainForce, DrainForced, DestroySandbox, TypeInv, TasksTyped, Issued
<1>4. QuietEngine /\ QuietRegistry /\ Progressed /\ Absent' = Absent
  BY <1>3, EngineQuiet, RegistryQuiet
<1> QED
  BY <1>1, <1>2, <1>4, RequestQuiet, SameCourse DEF drainRest, Kind, Quiet, OneThing

\* What steps 1 to 3 of a reconciler's round come down to.
Sweeping ==
    /\ QuietEngine /\ Absent' = Absent /\ QuietPool /\ QuietRegistry
    /\ round'.pc \in {"stopped", "orphans", "missing", "relist"}

(* Steps 1 to 3 of a round only give claims up.                              *)
LEMMA SweepQuiet ==
    ASSUME TypeInv, RoundListed \/ RoundForgot \/ RoundDestroyed \/ RoundEvicted PROVE Sweeping
<1> USE DEF Sweeping
<1>0. round \in Round
  BY DEF TypeInv, RoundTyped
<1>1. ASSUME NEW todo \in SUBSET Sandboxes, EvictMissing(todo) PROVE Sweeping
  <2>1. QuietRegistry
    BY <1>1, RegistryQuiet DEF EvictMissing
  <2>2. QuietEngine /\ Absent' = Absent /\ QuietPool
    BY <1>1, EngineQuiet, PoolQuiet DEF EvictMissing
  <2> QED
    BY <1>0, <1>1, <2>1, <2>2 DEF EvictMissing, Round
<1>2. ASSUME NEW todo \in SUBSET Containers, DestroyOrphans(todo) PROVE Sweeping
  <2>1. CASE todo = {}
    BY <1>1, <1>2, <2>1 DEF DestroyOrphans, Missing, ListReady
  <2>2. CASE todo # {}
    <3>1. QuietEngine /\ Absent' = Absent /\ QuietPool /\ QuietRegistry
      BY <1>2, <2>2, EngineQuiet, PoolQuiet, RegistryQuiet DEF DestroyOrphans
    <3> QED
      BY <1>0, <1>2, <2>2, <3>1 DEF DestroyOrphans, Round
  <2> QED
    BY <2>1, <2>2
<1>3. ASSUME NEW todo \in SUBSET Containers, ForgetStopped(todo) PROVE Sweeping
  <2>1. CASE todo = {}
    BY <1>0, <1>2, <1>3, <2>1 DEF ForgetStopped, Orphans, Round
  <2>2. CASE todo # {}
    <3>1. PICK c \in todo :
            /\ EvictAll({s \in ListReady : ContainerOf(s) = c})
            /\ PoolRemoveById({c})
            /\ Remove({c})
            /\ round' = [round EXCEPT !.pc = "stopped", !.todo = todo \ {c}, !.at = c]
      BY <1>3, <2>2 DEF ForgetStopped, EvictAll
    <3>2. {s \in ListReady : ContainerOf(s) = c} \in SUBSET Sandboxes
      BY DEF ListReady
    <3>3. QuietEngine /\ Absent' = Absent /\ QuietPool /\ QuietRegistry
      BY <3>1, <3>2, EngineQuiet, PoolQuiet, RegistryQuiet
    <3> QED
      BY <1>0, <3>1, <3>3 DEF Round
  <2> QED
    BY <2>1, <2>2
<1>4. /\ round.exited \in SUBSET Containers
      /\ round.pc \in {"stopped", "orphans"} => round.todo \in SUBSET Containers
      /\ round.pc = "missing" => round.todo \in SUBSET Sandboxes
  BY <1>0 DEF TypeInv, RoundTyped, Round
<1> QED
  BY <1>1, <1>2, <1>3, <1>4 DEF RoundListed, RoundForgot, RoundDestroyed, RoundEvicted

(* A round hands back what it reclaims, and is quiet otherwise. Only one that *)
(* begins makes a record look inactive, and it has no candidates yet.        *)
LEMMA RoundKind ==
    ASSUME TypeInv, RoundList \/ RoundStep
    PROVE  Kind /\ Course
<1>1. UNCHANGED roundRest /\ round \in Round
  BY DEF RoundList, RoundStep, RoundListed, RoundForgot, RoundDestroyed, RoundEvicted, RoundRelist,
         RoundRelisted, RoundProbe, RoundBusy, RoundReclaim, RoundReclaimed, RoundPrune,
         TypeInv, RoundTyped
<1>2. round.pc = "idle" => phase = "serving"
  BY DEF RoundList, RoundStep, RoundListed, RoundForgot, RoundDestroyed, RoundEvicted, RoundRelist,
         RoundRelisted, RoundProbe, RoundBusy, RoundReclaim, RoundReclaimed, RoundPrune
<1>3. QuietEngine /\ Absent' = Absent /\ QuietPool /\ QuietRegistry => Quiet
  BY <1>1, RequestQuiet DEF Quiet, OneThing, roundRest
<1>4. UNCHANGED <<engineVars, poolVars>> => QuietEngine /\ Absent' = Absent /\ QuietPool
  BY EngineQuiet, PoolQuiet
<1> USE DEF Kind, Course, roundRest
<1>5. CASE RoundList
  <2>1. Candidates' = {}
    BY <1>5 DEF RoundList, NoRound, Candidates
  <2> QED
    BY <1>1, <1>2, <1>3, <1>4, <1>5, <2>1, RegistryQuiet DEF RoundList
<1>6. CASE RoundListed \/ RoundForgot \/ RoundDestroyed \/ RoundEvicted
  <2>1. Sweeping
    BY <1>6, SweepQuiet
  <2>2. Candidates' = {}
    BY <2>1 DEF Sweeping, Candidates
  <2> QED
    BY <1>1, <1>2, <1>3, <2>1, <2>2 DEF Sweeping
<1>7. CASE RoundRelist
  <2>1. Candidates' = {}
    BY <1>1, <1>7 DEF RoundRelist, Candidates, Round
  <2> QED
    BY <1>1, <1>2, <1>3, <1>4, <1>7, <2>1, RegistryQuiet DEF RoundRelist
<1>8. CASE RoundRelisted
  <2>1. Candidates' \subseteq ListReady
    BY <1>1, <1>8 DEF RoundRelisted, Candidates, Round
  <2>2. QuietEngine /\ Absent' = Absent /\ QuietPool /\ QuietRegistry /\ Progressed
    BY <1>8, EngineQuiet, PoolQuiet, RegistryQuiet DEF RoundRelisted
  <2> QED
    BY <1>1, <1>2, <1>3, <2>1, <2>2
<1>9. CASE RoundBusy \/ RoundReclaimed \/ RoundPrune \/ \E s \in Sandboxes : RoundProbe(s)
  <2>1. Candidates' \subseteq Candidates
    <3>1. CASE RoundBusy
      BY <1>1, <3>1 DEF RoundBusy, Candidates, Round
    <3>2. CASE RoundReclaimed
      BY <1>1, <3>2 DEF RoundReclaimed, Candidates, Round
    <3>4. CASE RoundPrune
      BY <3>4 DEF RoundPrune, NoRound, Candidates
    <3>3. ASSUME NEW s \in Sandboxes, RoundProbe(s) PROVE Candidates' \subseteq Candidates
      BY <1>1, <3>3 DEF RoundProbe, Candidates, Round
    <3> QED
      BY <1>9, <3>1, <3>2, <3>3, <3>4
  <2>2. /\ UNCHANGED <<engineVars, poolVars>>
        /\ \/ UNCHANGED registryVars
           \/ \E s \in Sandboxes : Touch(s)
           \/ \E ss \in SUBSET Sandboxes : PruneReleased(ss)
    BY <1>9 DEF RoundBusy, RoundReclaimed, RoundPrune, RoundProbe, TypeInv, RoundTyped, Registered
  <2> QED
    BY <1>1, <1>2, <1>3, <1>4, <2>1, <2>2, RegistryQuiet
<1>10. CASE RoundReclaim
  <2>1. round.at \in Candidates /\ round.at \in Sandboxes
    BY <1>10 DEF RoundReclaim, Candidates, TypeInv, RoundTyped
  <2>2. Candidates' \subseteq Candidates
    BY <1>1, <1>10 DEF RoundReclaim, Candidates, Round
  <2>3. CASE EvictIsCurrent(round.at)
    <3>1. Evict(round.at) /\ ReleaseToPool(ContainerOf(round.at))
      BY <1>10, <2>3 DEF RoundReclaim
    <3>2. QuietRegistry /\ Progressed /\ ListReady' \subseteq ListReady \ {round.at}
      <4>1. QuietRegistry /\ Progressed
        BY <2>1, <3>1, RegistryQuiet
      <4>2. round.at \notin ListReady'
        BY <2>1, <3>1 DEF Evict, Dropped, ListReady, Registered
      <4> QED
        BY <4>1, <4>2 DEF QuietRegistry
    <3>3. HandedBack(round.at)
      BY <1>1, <2>1, <2>3, <3>1, <3>2 DEF HandedBack, EvictIsCurrent, QuietRegistry
    <3> QED
      BY <1>1, <1>2, <2>1, <2>2, <3>2, <3>3
  <2>4. CASE ~EvictIsCurrent(round.at)
    BY <1>1, <1>2, <1>3, <1>4, <1>10, <2>2, <2>4, RegistryQuiet DEF RoundReclaim
  <2> QED
    BY <2>3, <2>4
<1> QED
  BY <1>5, <1>6, <1>7, <1>8, <1>9, <1>10 DEF RoundStep

-----------------------------------------------------------------------------
\* Before it serves and after it has stopped, the process holds no claims.

(* A step that leaves the phase alone keeps that, and a candidate for reclaim *)
(* that was released has been active.                                        *)
LEMMA CourseKept ==
    ASSUME Typed, NotServing, CandidateMoved, Kind, ~RecoverList, Course
    PROVE  NotServing' /\ CandidateMoved'
<1>1. CandidateMoved'
  BY DEF CandidateMoved, Course, Progressed, Candidates, ListReady
<1>2. recovered' \subseteq recovered /\ phase' = phase
  BY DEF Kind, Quiet, Popped, Started, Assigned, HandedBack, Pooled, Warmed, Course
<1>3. CASE phase \notin {"down", "starting", "recovering"}
  <2>1. recovered = {}
    BY <1>3 DEF NotServing
  <2>2. recovered' = {} /\ phase' \notin {"down", "starting", "recovering"}
    BY <1>2, <1>3, <2>1
  <2> QED
    BY <1>1, <2>2 DEF NotServing
<1>4. CASE phase \in {"down", "starting", "recovering"}
  <2>1. /\ warming = {} /\ Registered = {} /\ round.pc = "idle"
        /\ \A c \in Containers : cleaning[c] = 0
        /\ \A r \in Requests : requests[r].pc \notin inFlight /\ ~Acquiring(r) /\ ~HandedOut(r)
        /\ phase \in {"down", "starting"} => PoolContainerIds = {}
        /\ phase # "recovering" => recovered = {}
        /\ recovered \intersect PoolContainerIds = {}
        /\ phase # "serving"
    BY <1>4 DEF NotServing, Acquiring, HandedOut, inFlight
  <2>2. round'.pc = "idle"
    BY <2>1 DEF Course
  <2>3. CASE Quiet
    <3>1. \A c \in Containers : cleaning'[c] = 0 /\ (pool'[c] > 0 => pool[c] > 0)
      BY <2>1, <2>3, TypeFacts DEF Quiet, QuietPool, Typed, TypeInv, TypeOK, PoolTypeOK
    <3>2. PoolContainerIds' \subseteq PoolContainerIds
      BY <3>1 DEF PoolContainerIds
    <3>3. /\ warming' = {} /\ Registered' = {}
          /\ \A r \in Requests : requests'[r].pc \notin inFlight
      BY <2>1, <2>3 DEF Quiet, QuietPool, QuietRegistry, QuietRequests
    <3>4. /\ phase' \in {"down", "starting"} => PoolContainerIds' = {}
          /\ phase' # "recovering" => recovered' = {}
          /\ recovered' \intersect PoolContainerIds' = {}
      BY <1>2, <2>1, <3>2
    <3> QED
      BY <1>1, <2>2, <3>1, <3>3, <3>4 DEF NotServing
  <2>4. ASSUME NEW c \in Containers, Pooled(c) PROVE NotServing'
    <3>1. /\ phase = "recovering" /\ c \in recovered /\ recovered' = recovered \ {c}
          /\ PoolRestore(c)
      BY <2>1, <2>4 DEF Pooled, CleanAppend, WarmAppend
    <3>2. PoolContainerIds' \subseteq PoolContainerIds \union {c}
      BY <3>1, TypeFacts DEF PoolRestore, PoolContainerIds, Typed
    <3>3. UNCHANGED <<cleaning, warming, requests>> /\ Registered' = Registered
      BY <2>4, <3>1 DEF Pooled, PoolRestore, registryVars, Registered
    <3> QED
      BY <1>2, <2>1, <2>2, <3>1, <3>2, <3>3 DEF NotServing
  <2>5. /\ \A r \in Requests, c \in Containers : ~Popped(r, c) /\ ~Started(r, c) /\ ~Assigned(r)
        /\ \A s \in Sandboxes : ~HandedBack(s)
        /\ \A cs \in SUBSET Containers : ~Warmed(cs)
    BY <2>1 DEF Popped, Started, Assigned, HandedBack, Warmed
  <2> QED
    BY <1>1, <2>3, <2>4, <2>5 DEF Kind
<1> QED
  BY <1>1, <1>3, <1>4

(* Recovery, shutdown, exit, restart and crash keep it too.                  *)
LEMMA LifeKind ==
    ASSUME Typed, NotServing, CandidateMoved,
           RecoverList \/ Serve \/ Crash \/ Shutdown \/ Exit \/ Restart
    PROVE  Kind /\ NotServing' /\ CandidateMoved'
<1>0. TypeInv /\ TypeInv'
  BY DEF Typed
<1>1. CASE RecoverList \/ Serve \/ Restart
  <2>1. UNCHANGED <<engineVars, registryVars, poolVars, requests, round, used>>
    BY <1>1 DEF RecoverList, Serve, Restart
  <2>2. CandidateMoved'
    BY <2>1 DEF registryVars, CandidateMoved, Candidates
  <2>3. Kind
    <3>1. CASE Serve \/ Restart
      <4>1. recovered' = recovered
        BY <3>1 DEF Serve, Restart
      <4> QED
        BY <1>0, <2>1, <4>1, EngineQuiet, PoolQuiet, RegistryQuiet, RequestQuiet DEF Kind, Quiet, OneThing
    <3> QED
      BY <1>1, <3>1 DEF Kind
  <2>4. UNCHANGED <<cleaning, warming, requests, round>>
        /\ Registered' = Registered /\ PoolContainerIds' = PoolContainerIds
    BY <2>1 DEF poolVars, registryVars, Registered, PoolContainerIds
  <2>5. NotServing'
    BY <1>1, <2>4 DEF RecoverList, Serve, Restart, NotServing
  <2> QED
    BY <2>2, <2>3, <2>5
<1>2. CASE Crash \/ Exit
  <2>1. MemoryLost
    BY <1>2 DEF Crash, Exit
  <2>2. QuietEngine /\ Absent' = Absent /\ QuietPool /\ QuietRegistry
    BY <1>0, <2>1, EngineQuiet, PoolQuiet, RegistryQuiet DEF MemoryLost
  <2>3. QuietRequests /\ \A r \in Requests : requests'[r].pc \notin inFlight
    <3>1. \A r \in Requests : requests'[r].pc \notin inFlight
      BY <1>0, <2>1 DEF MemoryLost, TypeInv, TypeOK, Request, inFlight
    <3> QED
      BY <3>1 DEF QuietRequests, HandedOut, inFlight
  <2>4. Registered' = {} /\ PoolContainerIds' = {} /\ warming' = {} /\ recovered' = {}
        /\ round' = NoRound /\ (\A c \in Containers : cleaning'[c] = 0) /\ used' = used
    BY <1>0, <2>1 DEF MemoryLost, RegistryCleared, Dropped, PoolLost, Registered, PoolContainerIds,
                      TypeInv, TypeOK, RegistryTypeOK, Record
  <2>5. Kind
    BY <2>2, <2>3, <2>4 DEF Kind, Quiet, OneThing
  <2>6. NotServing' /\ CandidateMoved'
    BY <2>3, <2>4 DEF NotServing, NoRound, CandidateMoved, Candidates
  <2> QED
    BY <2>5, <2>6
<1>3. CASE Shutdown
  <2>1. QuietEngine /\ Absent' = Absent /\ QuietRegistry /\ QuietRequests
    BY <1>0, <1>3, EngineQuiet, RegistryQuiet, RequestQuiet DEF Shutdown
  <2>2. QuietPool
    BY <1>0, <1>3, TypeFacts DEF Shutdown, QuietPool
  <2>3. recovered' = recovered /\ used' = used /\ phase = "serving" /\ phase' = "stopping"
        /\ round' = NoRound
    BY <1>3 DEF Shutdown
  <2>4. Kind
    BY <2>1, <2>2, <2>3 DEF Kind, Quiet, OneThing
  <2>5. NotServing' /\ CandidateMoved'
    BY <2>3 DEF NotServing, NoRound, CandidateMoved, Candidates
  <2> QED
    BY <2>4, <2>5
<1> QED
  BY <1>1, <1>2, <1>3

(* What start-up recovery finds is adopted, or removed.                      *)
LEMMA RecoverKind ==
    ASSUME TypeInv, NEW c \in Containers, RecoverRemove(c) \/ RecoverAdopt(c)
    PROVE  Kind /\ Course
<1>1. UNCHANGED <<registryVars, requests, phase, round>>
  BY DEF RecoverRemove, RecoverAdopt
<1>2. Course
  BY <1>1, RegistryQuiet, SameCourse
<1>3. CASE RecoverRemove(c)
  BY <1>1, <1>2, <1>3, EngineQuiet, PoolQuiet, RegistryQuiet, RequestQuiet
     DEF RecoverRemove, Kind, Quiet, OneThing
<1>4. CASE RecoverAdopt(c)
  <2>1. Pooled(c)
    BY <1>1, <1>4 DEF RecoverAdopt, Pooled, ProbeOk, engineVars
  <2> QED
    BY <1>2, <2>1 DEF Kind
<1> QED
  BY <1>3, <1>4

-----------------------------------------------------------------------------
(* Every step of the Hub is of one of the kinds; all but recovery's survey   *)
(* and the life of the process follow the course.                            *)
LEMMA StepKind ==
    ASSUME Typed, NotServing, CandidateMoved, [Next]_vars
    PROVE  Kind /\ NotServing' /\ CandidateMoved'
<1>0. TypeInv
  BY DEF Typed
<1>1. Kind /\ Course => NotServing' /\ CandidateMoved'
  <2>1. RecoverList /\ Course => FALSE
    BY DEF RecoverList, Course
  <2> QED
    BY <2>1, CourseKept
<1>2. CASE UNCHANGED vars
  <2>1. UNCHANGED <<engineVars, registryVars, poolVars, requests, phase, round, recovered, used>>
    BY <1>2 DEF vars, hubVars
  <2>2. Kind /\ Course
    BY <1>0, <2>1, EngineQuiet, RegistryQuiet, PoolQuiet, RequestQuiet, SameCourse DEF Kind, Quiet, OneThing
  <2> QED
    BY <1>1, <2>2
<1>3. CASE \/ \E r \in Requests : AcquireStep(r)
           \/ \E r \in Requests, k \in Keys, shape \in Shapes : Arrive(r, k, shape)
  BY <1>0, <1>1, <1>3, ArriveKind, AcquireKind
<1>4. CASE \E s \in Sandboxes : \/ Release(s) \/ Proxy(s) \/ ProxyUnreachable(s) \/ PolicyApply
                                \/ SuspectAlive(s) \/ SuspectDead(s) \/ PolicyStep(s)
  BY <1>0, <1>1, <1>4, OtherRequestKind
<1>5. CASE \E c \in Containers : EngineStep(c) \/ PoolTask(c) \/ Refill
  BY <1>0, <1>1, <1>5, PoolTaskKind
<1>6. CASE RoundList \/ RoundStep
  BY <1>0, <1>1, <1>6, RoundKind
<1>7. CASE DrainBegin \/ DrainStep \/ Undrain
  BY <1>0, <1>1, <1>7, DrainKind
<1>8. CASE \E c \in Containers : RecoverRemove(c) \/ RecoverAdopt(c)
  BY <1>0, <1>1, <1>8, RecoverKind
<1>9. CASE RecoverList \/ Serve \/ Crash \/ Shutdown \/ Exit \/ Restart
  BY <1>9, LifeKind
<1>10. CASE PolicyApply
  <2>1. Kind /\ Course
    BY <1>0, <1>10, EngineQuiet, RegistryQuiet, PoolQuiet, RequestQuiet, SameCourse
       DEF PolicyApply, Kind, Quiet, OneThing
  <2> QED
    BY <1>1, <2>1
<1>11. Refill => \E c \in Containers : Refill
  BY DEF Refill, RefillStart, Absent
<1> QED
  BY <1>2, <1>3, <1>4, <1>5, <1>6, <1>7, <1>8, <1>9, <1>10, <1>11 DEF Next

(* The Hub starts without a claim.                                           *)
LEMMA InitIsolated == Init => NotServing /\ CandidateMoved /\ OriginInv /\ Apart /\ CleanInv
<1> SUFFICES ASSUME Init PROVE NotServing /\ CandidateMoved /\ OriginInv /\ Apart /\ CleanInv
  OBVIOUS
<1>1. /\ ListReady = {} /\ Registered = {} /\ Issued = {} /\ PoolContainerIds = {}
      /\ \A c \in Containers : pool[c] = 0 /\ cleaning[c] = 0
      /\ warming = {} /\ recovered = {} /\ used = {} /\ round.pc = "idle"
      /\ \A r \in Requests : ~HandedOut(r) /\ requests[r].pc \notin inFlight
  BY DEF Init, RegistryInit, Unused, PoolInit, NoRound, NewRequest, ListReady, Registered, Issued,
         PoolContainerIds, HandedOut, inFlight
<1>2. NotServing /\ CandidateMoved
  BY <1>1 DEF NotServing, CandidateMoved, Candidates
<1>3. OriginInv
  BY <1>1 DEF OriginInv, FreshUnclaimed, WarmingIsPlain, DedicatedNeverShared, HandedOut, Absent
<1>4. Apart /\ CleanInv
  BY <1>1 DEF Apart, PoolApart, ReadyApart, HandedOutApart, Claims, CleanInv, PooledIsReset
<1> QED
  BY <1>2, <1>3, <1>4

-----------------------------------------------------------------------------
\* The theorems

CourseInv == TypeInv /\ NotServing /\ CandidateMoved /\ OriginInv

(* A process that starts holds no claims; a sandbox released while a round    *)
(* was deciding on it was active meanwhile; and what the pool, a clean-up or   *)
(* a refill holds was created, and created plain.                             *)
THEOREM CourseInvariant == Spec => []CourseInv
<1>1. Init => CourseInv
  BY InitTyped, InitIsolated DEF CourseInv
<1>2. CourseInv /\ TypeInv' /\ [Next]_vars => CourseInv'
  BY StepKind, OriginAlways DEF CourseInv, Typed
<1> QED
  BY <1>1, <1>2, TypeInvariant, PTL DEF Spec

(* A container with a tenant's workspace, variables or files is never in the *)
(* pool nor on its way into it, for every instance and whatever goes wrong.   *)
THEOREM DedicatedStaysOut == Spec => []DedicatedNeverShared
<1>1. CourseInv => DedicatedNeverShared
  BY DEF CourseInv, OriginInv
<1> QED
  BY <1>1, CourseInvariant, PTL

(* If no caller releases a sandbox that it has already released, no container *)
(* is ever held, cleaned, pooled or handed out for two tenants, whatever      *)
(* else goes wrong.                                                          *)
THEOREM TenantsStayApart ==
    ASSUME "again" \notin Adversity PROVE Spec => []TenantsApart
<1>1. Init => Apart
  BY InitIsolated
<1>2. CourseInv /\ CourseInv' /\ Apart /\ [Next]_vars => Apart'
  BY StepKind, ApartAlways DEF CourseInv, OriginInv, ClaimInv, Typed, May
<1>3. CourseInv /\ Apart => TenantsApart
  BY ApartMeans DEF CourseInv
<1> QED
  BY <1>1, <1>2, <1>3, CourseInvariant, PTL DEF Spec

(* If moreover a reset that is answered has happened, no container in the     *)
(* pool holds what an earlier tenant left, also across restarts.              *)
THEOREM PoolStaysReset ==
    ASSUME "again" \notin Adversity, "soft" \notin Adversity PROVE Spec => []PooledIsReset
<1>1. Init => Apart /\ CleanInv
  BY InitIsolated
<1>2. CourseInv /\ CourseInv' /\ Apart /\ CleanInv /\ [Next]_vars => Apart' /\ CleanInv'
  BY StepKind, ApartAlways, CleanAlways DEF CourseInv, OriginInv, ClaimInv, Typed, May
<1>3. CleanInv => PooledIsReset
  BY DEF CleanInv
<1> QED
  BY <1>1, <1>2, <1>3, CourseInvariant, PTL DEF Spec

-----------------------------------------------------------------------------
\* The Hub implements TenantIsolation: each kind of step is one of its steps.

\* An id that docker run was not yet called for is plain.
AbsentPlain == \A c \in Absent : ~Dedicated(c)

\* The container may be given to a tenant.
Fit(c) == pool[c] > 0 \/ InTransit(c) # {}

RefineInv == TypeInv /\ FreshUnclaimed /\ AbsentPlain /\ WarmingIsPlain /\ DedicatedNeverShared
             /\ NotServing /\ TenantsApart /\ Apart /\ CandidateMoved /\ CleanInv

(* What an absent container is to the abstract specification.                *)
LEMMA AbsentPlace ==
    ASSUME FreshUnclaimed, NEW c \in Absent
    PROVE  ReadyOn(c) = {} /\ ~Fit(c) /\ Place(c) = "none"
<1>1. ReadyOn(c) = {}
  BY DEF FreshUnclaimed, ReadyOn, ListReady, Issued
<1>2. ~Fit(c)
  BY DEF FreshUnclaimed, Fit, InTransit
<1> QED
  BY <1>1, <1>2 DEF Place, Fit, Absent

(* The only element of a set is the one chosen from it.                      *)
LEMMA OnlyChoice ==
    ASSUME NEW S, NEW s \in S, \A t \in S : t = s PROVE (CHOOSE t \in S : TRUE) = s
OBVIOUS

(* Giving up sandboxes, pool entries and calls withdraws containers.         *)
LEMMA GivingUpWithdraws ==
    ASSUME RefineInv, kind' = kind, used' = used, Absent' = Absent,
           ListReady' \subseteq ListReady,
           \A s \in ListReady : /\ records'[s].container = records[s].container
                                /\ records'[s].key = records[s].key,
           \A c \in Containers : Fit(c)' => Fit(c)
    PROVE  \E cs \in SUBSET Containers : Isolation!Withdraw(cs)
<1> DEFINE cs == {c \in Containers : Place(c)' # Place(c)}
<1>1. ASSUME NEW c \in Containers PROVE ReadyOn(c)' \subseteq ReadyOn(c)
  BY DEF ReadyOn, ContainerOf
<1>2. ASSUME NEW c \in Containers PROVE ReadyOn(c) # {} => ~Fit(c)
  BY DEF RefineInv, TenantsApart, Fit, TypeInv, TypeOK, PoolTypeOK
<1>3. ASSUME NEW c \in cs PROVE Place(c) # "none" /\ Place(c)' = "out"
  <2>1. c \in Containers /\ Place(c)' # Place(c)
    OBVIOUS
  <2>2. c \notin Absent
    <3> SUFFICES ASSUME c \in Absent PROVE FALSE
      OBVIOUS
    <3>1. ReadyOn(c) = {} /\ ~Fit(c) /\ Place(c) = "none"
      BY AbsentPlace DEF RefineInv
    <3>2. ReadyOn(c)' = {} /\ ~Fit(c)' /\ docker'[c] = "none"
      BY <1>1, <2>1, <3>1 DEF Absent
    <3> QED
      BY <2>1, <3>1, <3>2 DEF Place, Fit
  <2>3. docker[c] # "none" /\ docker'[c] # "none"
    BY <2>1, <2>2 DEF Absent
  <2> QED
    BY <1>1, <1>2, <2>1, <2>3 DEF Place, Fit
<1>4. ASSUME NEW c \in Containers
      PROVE  Tenant(c)' = IF c \in cs THEN None ELSE Tenant(c)
  <2>1. CASE ReadyOn(c)' = {}
    <3>1. c \in cs \/ ReadyOn(c) = {}
      BY <2>1 DEF Place
    <3> QED
      BY <2>1, <3>1 DEF Tenant
  <2>2. CASE ReadyOn(c)' # {}
    <3>1. PICK s : s \in ReadyOn(c)'
      BY <2>2
    <3>2. s \in ReadyOn(c) /\ s \in ListReady
      BY <1>1, <3>1 DEF ReadyOn
    <3>3. \A t \in ReadyOn(c) : t = s
      BY <3>2 DEF RefineInv, TenantsApart
    <3>4. \A t \in ReadyOn(c)' : t = s
      BY <1>1, <3>3
    <3>5. Tenant(c) = records[s].key
      BY <3>2, <3>3, OnlyChoice DEF Tenant, KeyOf
    <3>6. (CHOOSE t \in ReadyOn(c)' : TRUE) = s
      BY <3>1, <3>4, OnlyChoice
    <3>7. Tenant(c)' = records'[s].key
      BY <2>2, <3>6 DEF Tenant, KeyOf
    <3>8. c \notin cs
      BY <2>2, <3>2 DEF Place
    <3> QED
      BY <3>2, <3>5, <3>7, <3>8
  <2> QED
    BY <2>1, <2>2
<1>5. [c \in Containers |-> Place(c)]'
          = [c \in Containers |-> IF c \in cs THEN "out" ELSE [d \in Containers |-> Place(d)][c]]
  BY <1>3
<1>6. [c \in Containers |-> Tenant(c)]'
          = [c \in Containers |-> IF c \in cs THEN None ELSE [d \in Containers |-> Tenant(d)][c]]
  BY <1>4
<1>7. \A c \in cs : [d \in Containers |-> Place(d)][c] # "none"
  BY <1>3
<1>8. {c \in Containers : Dedicated(c)}' = {c \in Containers : Dedicated(c)}
  BY DEF Dedicated
<1>9. cs \in SUBSET Containers
  OBVIOUS
<1> HIDE DEF cs
<1> QED
  BY <1>5, <1>6, <1>7, <1>8, <1>9 DEF Isolation!Withdraw

\* Every sandbox and every call stays where it is.
SameHolders ==
    /\ \A s \in Sandboxes : /\ records'[s].status = records[s].status
                            /\ records'[s].container = records[s].container
                            /\ records'[s].key = records[s].key
    /\ requests' = requests

(* Then so do the tenants.                                                   *)
LEMMA SameTenants ==
    ASSUME SameHolders, NEW c \in Containers
    PROVE  ReadyOn(c)' = ReadyOn(c) /\ InTransit(c)' = InTransit(c) /\ Tenant(c)' = Tenant(c)
<1>1. ReadyOn(c)' = ReadyOn(c)
  BY DEF SameHolders, ReadyOn, ListReady, ContainerOf
<1>2. InTransit(c)' = InTransit(c)
  BY DEF SameHolders, InTransit
<1>3. CASE ReadyOn(c) = {}
  BY <1>1, <1>2, <1>3 DEF Tenant
<1>4. CASE ReadyOn(c) # {}
  <2>1. PICK s : s = (CHOOSE t \in ReadyOn(c) : TRUE)
    OBVIOUS
  <2>2. s \in ReadyOn(c) /\ s \in Sandboxes
    BY <1>4, <2>1 DEF ReadyOn, ListReady
  <2>3. Tenant(c) = records[s].key
    BY <1>4, <2>1 DEF Tenant, KeyOf
  <2>4. Tenant(c)' = records'[s].key
    BY <1>1, <1>4, <2>1 DEF Tenant, KeyOf
  <2> QED
    BY <1>1, <1>2, <2>2, <2>3, <2>4 DEF SameHolders
<1> QED
  BY <1>3, <1>4

(* What the engine does on its own, and a refill, make containers at most.   *)
LEMMA EngineMakes ==
    ASSUME RefineInv, SameHolders, UNCHANGED <<pool, used>>, Absent' \subseteq Absent,
           \A c \in Containers : Dedicated(c)' = Dedicated(c)
    PROVE  \E cs \in SUBSET Containers : Isolation!Make(cs)
<1> DEFINE cs == Absent \ Absent'
<1>1. cs \in SUBSET Containers
  BY DEF Absent
<1>2. ASSUME NEW c \in Containers
      PROVE  /\ Tenant(c)' = Tenant(c)
             /\ Place(c)' = IF c \in cs THEN "out" ELSE Place(c)
             /\ c \in cs => Place(c) = "none"
  <2>1. ReadyOn(c)' = ReadyOn(c) /\ InTransit(c)' = InTransit(c) /\ Tenant(c)' = Tenant(c)
    BY SameTenants
  <2>2. CASE c \in cs
    BY <2>1, <2>2, AbsentPlace DEF RefineInv, Place, Fit, Absent
  <2>3. CASE c \notin cs
    <3>1. docker[c] = "none" <=> docker'[c] = "none"
      BY <2>3 DEF Absent
    <3> QED
      BY <2>1, <2>3, <3>1 DEF Place
  <2> QED
    BY <2>1, <2>2, <2>3
<1> HIDE DEF cs
<1>3. /\ [c \in Containers |-> Place(c)]'
             = [c \in Containers |-> IF c \in cs THEN "out" ELSE [d \in Containers |-> Place(d)][c]]
      /\ [c \in Containers |-> Tenant(c)]' = [c \in Containers |-> Tenant(c)]
      /\ \A c \in cs : [d \in Containers |-> Place(d)][c] = "none"
  BY <1>1, <1>2
<1>4. {c \in Containers : Dedicated(c)}' = {c \in Containers : Dedicated(c)}
  OBVIOUS
<1> QED
  BY <1>1, <1>3, <1>4 DEF Isolation!Make

(* A proxied request uses its container.                                     *)
LEMMA ProxyUses ==
    ASSUME RefineInv, NEW s \in Sandboxes, Proxied(s)
    PROVE  \E c \in Containers : Isolation!Use(c)
<1> DEFINE c == ContainerOf(s)
<1>1. c \in Containers /\ s \in ListReady /\ used' = used \union {c}
  BY TypeFacts DEF Proxied, RefineInv
<1>2. SameHolders /\ UNCHANGED <<docker, kind, pool>>
  BY DEF Proxied, Touch, SameHolders, poolVars, RefineInv, TypeInv, TypeOK, RegistryTypeOK, Record
<1>3. \A d \in Containers : Place(d)' = Place(d) /\ Tenant(d)' = Tenant(d)
  BY <1>2, SameTenants DEF Place
<1>4. Place(c) = "held"
  BY <1>1 DEF Place, ReadyOn
<1> HIDE DEF c
<1>5. /\ [d \in Containers |-> Place(d)]' = [d \in Containers |-> Place(d)]
      /\ [d \in Containers |-> Tenant(d)]' = [d \in Containers |-> Tenant(d)]
      /\ {d \in Containers : Dedicated(d)}' = {d \in Containers : Dedicated(d)}
      /\ [d \in Containers |-> Place(d)][c] = "held"
  BY <1>1, <1>2, <1>3, <1>4 DEF Dedicated
<1> QED
  BY <1>1, <1>5 DEF Isolation!Use

(* A container that joins the pool is supplied, clean.                       *)
LEMMA PoolingSupplies ==
    ASSUME RefineInv, ~May("soft"), NEW c \in Containers, Pooled(c)
    PROVE  Isolation!Supply(c)
<1> USE DEF RefineInv
<1>1. /\ pool \in [Containers -> Nat] /\ cleaning \in [Containers -> Nat]
      /\ \A d \in Containers : pool[d] \in Nat /\ cleaning[d] \in Nat
  BY TypeFacts
<1>2. /\ pool' = [pool EXCEPT ![c] = @ + 1]
      /\ UNCHANGED <<docker, kind, registryVars, requests>>
      /\ docker[c] = "running"
  BY DEF Pooled, CleanAppend, WarmAppend, PoolRestore
<1>3. SameHolders
  BY <1>2 DEF SameHolders, registryVars
<1>4. pool[c] = 0 /\ ReadyOn(c) = {} /\ InTransit(c) = {} /\ ~Dedicated(c)
  <2>1. CASE cleaning[c] > 0
    <3>1. pool[c] + cleaning[c] <= 1 /\ (ReadyOn(c) \union InTransit(c) # {} => pool[c] + cleaning[c] = 0)
      BY DEF TenantsApart
    <3>2. ~Dedicated(c)
      BY <2>1 DEF DedicatedNeverShared
    <3> QED
      BY <1>1, <2>1, <3>1, <3>2
  <2>2. CASE c \in warming
    <3>1. pool[c] = 0
      BY <1>1, <2>2 DEF Apart, PoolApart, Claims
    <3>2. ReadyOn(c) = {} /\ InTransit(c) = {}
      BY <2>2 DEF Apart, ReadyApart, HandedOutApart, ReadyOn, InTransit, HandedOut
    <3> QED
      BY <2>2, <3>1, <3>2 DEF WarmingIsPlain
  <2>3. CASE phase = "recovering" /\ c \in recovered /\ ~Dedicated(c)
    <3>1. pool[c] = 0
      BY <1>1, <2>3 DEF NotServing, PoolContainerIds
    <3>2. ReadyOn(c) = {} /\ InTransit(c) = {}
      BY <2>3 DEF NotServing, ReadyOn, ListReady, Registered, InTransit, inFlight
    <3> QED
      BY <2>3, <3>1, <3>2
  <2> QED
    BY <2>1, <2>2, <2>3 DEF Pooled, CleanAppend, WarmAppend
<1>5. used' = used \ {c}
  BY DEF Pooled, CleanInv
<1>6. ASSUME NEW d \in Containers
      PROVE  Tenant(d)' = Tenant(d) /\ Place(d)' = IF d = c THEN "clean" ELSE Place(d)
  <2>1. ReadyOn(d)' = ReadyOn(d) /\ InTransit(d)' = InTransit(d) /\ Tenant(d)' = Tenant(d)
    BY <1>3, SameTenants
  <2>2. pool'[d] = IF d = c THEN 1 ELSE pool[d]
    BY <1>1, <1>2, <1>4
  <2> QED
    BY <1>2, <1>4, <2>1, <2>2 DEF Place
<1>7. Place(c) = "out"
  BY <1>2, <1>4 DEF Place
<1>8. /\ [d \in Containers |-> Place(d)]' = [[d \in Containers |-> Place(d)] EXCEPT ![c] = "clean"]
      /\ [d \in Containers |-> Tenant(d)]' = [d \in Containers |-> Tenant(d)]
      /\ {d \in Containers : Dedicated(d)}' = {d \in Containers : Dedicated(d)}
      /\ [d \in Containers |-> Place(d)][c] = "out"
      /\ c \notin {d \in Containers : Dedicated(d)}
  BY <1>2, <1>4, <1>6, <1>7 DEF Dedicated
<1> QED
  BY <1>5, <1>8 DEF Isolation!Supply

(* A cold start makes a container for the tenant that waits for it.          *)
LEMMA StartingMakesFor ==
    ASSUME RefineInv, NEW r \in Requests, NEW c \in Containers, Started(r, c)
    PROVE  Isolation!MakeFor(c)
<1> USE DEF RefineInv
<1>1. PICK k \in Keys, shape \in AllShapes :
         /\ Create({c}, shape)
         /\ requests' = [requests EXCEPT ![r] =
                [pc |-> "cold", key |-> k, shape |-> shape, sandbox |-> None, container |-> c]]
  BY DEF Started
<1>2. ~HandedOut(r) /\ c \in Absent /\ UNCHANGED <<poolVars, registryVars, used>>
  BY DEF Started
<1>3. requests'[r].pc = "cold" /\ requests'[r].container = c
      /\ \A q \in Requests \ {r} : requests'[q] = requests[q]
  BY <1>1 DEF TypeInv, TypeOK
<1>4. ASSUME NEW d \in Containers
      PROVE  /\ InTransit(d)' = IF d = c THEN InTransit(d) \union {r} ELSE InTransit(d)
             /\ ReadyOn(d)' = ReadyOn(d)
             /\ Tenant(d)' = Tenant(d)
  <2>1. InTransit(d)' = IF d = c THEN InTransit(d) \union {r} ELSE InTransit(d)
    BY <1>2, <1>3 DEF InTransit, HandedOut
  <2>2. ReadyOn(d)' = ReadyOn(d) /\ Tenant(d)' = Tenant(d)
    BY <1>2 DEF registryVars, ReadyOn, ListReady, ContainerOf, Tenant, KeyOf
  <2> QED
    BY <2>1, <2>2
<1>5. ReadyOn(c) = {} /\ Place(c) = "none"
  BY <1>2, AbsentPlace
<1>6. ASSUME NEW d \in Containers PROVE Place(d)' = IF d = c THEN "clean" ELSE Place(d)
  BY <1>1, <1>2, <1>4, <1>5 DEF Place, Create, poolVars
<1>7. {d \in Containers : Dedicated(d)}'
          \in {{d \in Containers : Dedicated(d)}, {d \in Containers : Dedicated(d)} \union {c}}
  BY <1>1, <1>2 DEF Create, Dedicated, AbsentPlain
<1>8. /\ [d \in Containers |-> Place(d)]' = [[d \in Containers |-> Place(d)] EXCEPT ![c] = "clean"]
      /\ [d \in Containers |-> Tenant(d)]' = [d \in Containers |-> Tenant(d)]
      /\ [d \in Containers |-> Place(d)][c] = "none"
  BY <1>4, <1>5, <1>6
<1> QED
  BY <1>2, <1>7, <1>8 DEF Isolation!MakeFor

(* An acquire that registers its container assigns it to its pair.           *)
LEMMA RegisteringAssigns ==
    ASSUME RefineInv, NEW r \in Requests, Assigned(r)
    PROVE  \E c \in Containers, k \in Keys : Isolation!Assign(c, k)
<1> USE DEF RefineInv
<1>0. HandedOut(r) /\ requests[r].container \in Containers /\ requests[r].key \in Keys
  BY TypeFacts DEF Assigned, HandedOut, TypeInv, RequestsTyped, inFlight
<1>1. PICK c \in Containers, k \in Keys : c = requests[r].container /\ k = requests[r].key
  BY <1>0
<1>2. PICK s \in Sandboxes :
         /\ Register(s, c, k)
         /\ requests' = [requests EXCEPT ![r].pc = "served", ![r].sandbox = s]
  BY <1>1 DEF Assigned, RegisterFor
<1>3. UNCHANGED <<docker, kind, pool, used>>
  BY DEF Assigned, poolVars
<1>4. r \in InTransit(c)
  BY <1>0, <1>1 DEF InTransit, HandedOut
<1>5. ReadyOn(c) = {} /\ InTransit(c) = {r}
  BY <1>1, <1>4 DEF TenantsApart
<1>6. /\ s \notin ListReady
      /\ \A t \in Sandboxes : t # s => records'[t] = records[t]
      /\ records'[s].status = "ready" /\ records'[s].container = c /\ records'[s].key = k
  BY <1>2 DEF Register, ListReady, TypeInv, TypeOK, RegistryTypeOK
<1>7. requests'[r].pc = "served" /\ \A q \in Requests \ {r} : requests'[q] = requests[q]
  BY <1>2 DEF TypeInv, TypeOK, Request
<1>8. Place(c) = "clean"
  BY <1>1, <1>4, <1>5 DEF Place
<1>9. ASSUME NEW d \in Containers
      PROVE  /\ Place(d)' = IF d = c THEN "held" ELSE Place(d)
             /\ Tenant(d)' = IF d = c THEN k ELSE Tenant(d)
  <2>1. CASE d = c
    <3>1. ReadyOn(c)' = {s}
      BY <1>5, <1>6 DEF ReadyOn, ListReady, ContainerOf
    <3>2. (CHOOSE t \in ReadyOn(c)' : TRUE) = s
      BY <3>1
    <3>3. Place(c)' = "held"
      BY <3>1 DEF Place
    <3>4. Tenant(c)' = records'[s].key
      <4>1. ReadyOn(c)' # {}
        BY <3>1
      <4> QED
        BY <3>2, <4>1 DEF Tenant, KeyOf
    <3> QED
      BY <1>6, <2>1, <3>3, <3>4
  <2>2. CASE d # c
    <3>1. ReadyOn(d)' = ReadyOn(d)
      BY <1>6, <2>2 DEF ReadyOn, ListReady, ContainerOf
    <3>2. InTransit(d)' = InTransit(d)
      BY <1>1, <1>7, <2>2 DEF InTransit
    <3>3. Place(d)' = Place(d)
      BY <1>3, <3>1, <3>2 DEF Place
    <3>4. Tenant(d)' = Tenant(d)
      <4>1. CASE ReadyOn(d) = {}
        BY <3>1, <4>1 DEF Tenant
      <4>2. CASE ReadyOn(d) # {}
        <5>1. PICK t : t = (CHOOSE u \in ReadyOn(d) : TRUE)
          OBVIOUS
        <5>2. t \in ListReady /\ t \in Sandboxes
          BY <4>2, <5>1 DEF ReadyOn, ListReady
        <5>3. Tenant(d) = records[t].key /\ Tenant(d)' = records'[t].key
          BY <3>1, <4>2, <5>1 DEF Tenant, KeyOf
        <5> QED
          BY <1>6, <5>2, <5>3
      <4> QED
        BY <4>1, <4>2
    <3> QED
      BY <2>2, <3>3, <3>4
  <2> QED
    BY <2>1, <2>2
<1>10. /\ [d \in Containers |-> Place(d)]' = [[d \in Containers |-> Place(d)] EXCEPT ![c] = "held"]
       /\ [d \in Containers |-> Tenant(d)]' = [[d \in Containers |-> Tenant(d)] EXCEPT ![c] = k]
       /\ {d \in Containers : Dedicated(d)}' = {d \in Containers : Dedicated(d)}
       /\ [d \in Containers |-> Place(d)][c] = "clean"
  BY <1>1, <1>3, <1>8, <1>9 DEF Dedicated
<1> QED
  BY <1>1, <1>3, <1>10 DEF Isolation!Assign

(* Free ids stay plain, whatever the step.                                   *)
LEMMA AbsentStaysPlain == ASSUME AbsentPlain, Kind PROVE AbsentPlain'
<1> USE DEF AbsentPlain, Dedicated
<1>1. CASE Quiet
  BY <1>1 DEF Quiet, QuietEngine
<1>2. ASSUME NEW r \in Requests, NEW c \in Containers, Popped(r, c) \/ Started(r, c) \/ Assigned(r)
      PROVE  AbsentPlain'
  <2>1. CASE Started(r, c)
    BY <2>1 DEF Started, Create, Absent
  <2>2. CASE Popped(r, c) \/ Assigned(r)
    BY <2>2 DEF Popped, Assigned, Absent
  <2> QED
    BY <1>2, <2>1, <2>2
<1>3. ASSUME NEW s \in Sandboxes, HandedBack(s) PROVE AbsentPlain'
  BY <1>3 DEF HandedBack, ReleaseToPool, Remove, engineVars, Absent
<1>4. ASSUME NEW c \in Containers, Pooled(c) PROVE AbsentPlain'
  BY <1>4 DEF Pooled, Absent
<1>5. ASSUME NEW cs \in SUBSET Containers, Warmed(cs) PROVE AbsentPlain'
  BY <1>5 DEF Warmed, Create, Absent
<1>6. CASE RecoverList
  BY <1>6 DEF RecoverList, engineVars, Absent
<1> QED
  BY <1>1, <1>2, <1>3, <1>4, <1>5, <1>6 DEF Kind

(* Each kind of step is a step of the abstract specification.                *)
LEMMA StepRefines ==
    ASSUME RefineInv, TypeInv', Kind, ~May("again"), ~May("soft")
    PROVE  Isolation!Next
<1>0. TypeInv
  BY DEF RefineInv
<1>1. \A s \in ListReady : s \in Issued /\ s \in Sandboxes
  BY DEF ListReady, Issued
<1>2. \A c \in Containers : pool[c] \in Nat /\ pool'[c] \in Nat
  BY <1>0 DEF TypeInv, TypeOK, PoolTypeOK
<1>3. CASE Quiet
  <2>1. /\ kind' = kind /\ Absent' \subseteq Absent /\ ListReady' \subseteq ListReady
        /\ \A s \in ListReady : /\ records'[s].container = records[s].container
                                /\ records'[s].key = records[s].key
    BY <1>1, <1>3 DEF Quiet, QuietEngine, QuietRegistry
  <2>2. \A c \in Containers : Fit(c)' => Fit(c)
    <3>1. \A c \in Containers : pool'[c] > 0 => pool[c] > 0
      BY <1>2, <1>3 DEF Quiet, QuietPool
    <3>2. \A c \in Containers : InTransit(c)' \subseteq InTransit(c)
      BY <1>3 DEF Quiet, QuietRequests, HandedOut, InTransit
    <3> QED
      BY <3>1, <3>2 DEF Fit
  <2>3. CASE Absent' = Absent /\ used' = used
    <3>1. \E cs \in SUBSET Containers : Isolation!Withdraw(cs)
      BY <2>1, <2>2, <2>3, GivingUpWithdraws
    <3> QED
      BY <3>1 DEF Isolation!Next
  <2>4. CASE UNCHANGED <<poolVars, registryVars, requests, used>>
    <3>1. SameHolders /\ UNCHANGED <<pool, used>> /\ \A c \in Containers : Dedicated(c)' = Dedicated(c)
      BY <2>1, <2>4 DEF SameHolders, poolVars, registryVars, Dedicated
    <3>2. \E cs \in SUBSET Containers : Isolation!Make(cs)
      BY <2>1, <3>1, EngineMakes
    <3> QED
      BY <3>2 DEF Isolation!Next
  <2>5. CASE \E s \in Sandboxes : Proxied(s)
    <3>1. \E c \in Containers : Isolation!Use(c)
      BY <2>5, ProxyUses
    <3> QED
      BY <3>1 DEF Isolation!Next
  <2> QED
    BY <1>3, <2>3, <2>4, <2>5 DEF Quiet, OneThing
<1>4. ASSUME NEW r \in Requests, NEW c \in Containers, Popped(r, c) PROVE Isolation!Next
  <2>1. /\ UNCHANGED <<docker, kind, registryVars, used>> /\ PoolPop(c)
        /\ requests'[r].container = c
        /\ \A q \in Requests \ {r} : requests'[q] = requests[q]
    BY <1>0, <1>4 DEF Popped, TypeInv, TypeOK
  <2>2. \A d \in Containers : pool'[d] > 0 => pool[d] > 0
    BY <1>0, <1>2, <2>1, TypeFacts DEF PoolPop
  <2>3. \A d \in Containers : InTransit(d)' \subseteq InTransit(d) \union (IF d = c THEN {r} ELSE {})
    BY <2>1 DEF InTransit
  <2>4. \A d \in Containers : Fit(d)' => Fit(d)
    BY <2>1, <2>2, <2>3 DEF Fit, PoolPop
  <2>5. Absent' = Absent /\ UNCHANGED <<ListReady, records>>
    BY <2>1 DEF Absent, registryVars, ListReady
  <2>6. \E cs \in SUBSET Containers : Isolation!Withdraw(cs)
    BY <2>1, <2>4, <2>5, GivingUpWithdraws
  <2> QED
    BY <2>6 DEF Isolation!Next
<1>5. ASSUME NEW r \in Requests, NEW c \in Containers, Started(r, c) PROVE Isolation!Next
  <2>1. Isolation!MakeFor(c)
    BY <1>5, StartingMakesFor
  <2> QED
    BY <2>1 DEF Isolation!Next
<1>6. ASSUME NEW r \in Requests, Assigned(r) PROVE Isolation!Next
  <2>1. \E c \in Containers, k \in Keys : Isolation!Assign(c, k)
    BY <1>6, RegisteringAssigns
  <2> QED
    BY <2>1 DEF Isolation!Next
<1>7. ASSUME NEW s \in Sandboxes, HandedBack(s) PROVE Isolation!Next
  <2>1. /\ UNCHANGED <<docker, kind, pool, requests, used>> /\ ListReady' \subseteq ListReady
        /\ \A t \in ListReady : /\ records'[t].container = records[t].container
                                /\ records'[t].key = records[t].key
    BY <1>1, <1>7 DEF HandedBack, ReleaseToPool, Remove, CleanStart, engineVars, poolVars
  <2>2. \A c \in Containers : Fit(c)' => Fit(c)
    BY <2>1 DEF Fit, InTransit
  <2>3. Absent' = Absent
    BY <2>1 DEF Absent
  <2>4. \E cs \in SUBSET Containers : Isolation!Withdraw(cs)
    BY <2>1, <2>2, <2>3, GivingUpWithdraws
  <2> QED
    BY <2>4 DEF Isolation!Next
<1>8. ASSUME NEW c \in Containers, Pooled(c) PROVE Isolation!Next
  <2>1. Isolation!Supply(c)
    BY <1>8, PoolingSupplies
  <2> QED
    BY <2>1 DEF Isolation!Next
<1>9. ASSUME NEW cs \in SUBSET Containers, Warmed(cs) PROVE Isolation!Next
  <2>1. SameHolders /\ UNCHANGED <<pool, used>> /\ Absent' \subseteq Absent
    BY <1>9 DEF Warmed, Create, SameHolders, registryVars, Absent
  <2>2. \A c \in Containers : Dedicated(c)' = Dedicated(c)
    BY <1>9 DEF RefineInv, AbsentPlain, Warmed, Create, Dedicated
  <2>3. \E ds \in SUBSET Containers : Isolation!Make(ds)
    BY <2>1, <2>2, EngineMakes
  <2> QED
    BY <2>3 DEF Isolation!Next
<1>10. CASE RecoverList
  <2>1. UNCHANGED <<engineVars, registryVars, poolVars, requests, used>>
    BY <1>10 DEF RecoverList
  <2>2. SameHolders /\ UNCHANGED <<pool, used>> /\ Absent' = Absent
        /\ \A c \in Containers : Dedicated(c)' = Dedicated(c)
    BY <2>1 DEF engineVars, registryVars, poolVars, SameHolders, Absent, Dedicated
  <2>3. \E cs \in SUBSET Containers : Isolation!Make(cs)
    BY <2>2, EngineMakes
  <2> QED
    BY <2>3 DEF Isolation!Next
<1> QED
  BY <1>3, <1>4, <1>5, <1>6, <1>7, <1>8, <1>9, <1>10 DEF Kind

(* The Hub starts where the abstract specification starts.                   *)
LEMMA InitRefines == ASSUME Init PROVE Isolation!Init /\ AbsentPlain
<1>1. /\ ListReady = {} /\ \A c \in Containers : pool[c] = 0 /\ docker[c] = "none" /\ kind[c] = "plain"
      /\ used = {} /\ \A r \in Requests : requests[r].pc = "new"
  BY DEF Init, RegistryInit, Unused, EngineInit, PoolInit, NewRequest, ListReady
<1>2. \A c \in Containers : ReadyOn(c) = {} /\ InTransit(c) = {}
  BY <1>1 DEF ReadyOn, InTransit
<1>3. ASSUME NEW c \in Containers PROVE Place(c) = "none" /\ Tenant(c) = None /\ ~Dedicated(c)
  <2>1. Place(c) = "none"
    BY <1>1, <1>2 DEF Place
  <2>2. Tenant(c) = None
    BY <1>2 DEF Tenant
  <2>3. ~Dedicated(c)
    BY <1>1 DEF Dedicated
  <2> QED
    BY <2>1, <2>2, <2>3
<1> QED
  BY <1>1, <1>3 DEF Isolation!Init, AbsentPlain, Absent

(* Seen from outside, the Hub is the abstract TenantIsolation: a container    *)
(* that held one pair is withdrawn and reset before it holds another, one     *)
(* made for a tenant is never supplied again, and no round, drain, failed     *)
(* listing, crash or restart does anything else to a container. Callers       *)
(* release a sandbox once, and a reset that is answered has happened.         *)
THEOREM HubImplementsIsolation ==
    ASSUME "again" \notin Adversity, "soft" \notin Adversity PROVE Spec => KeepsTenantsApart
<1>1. Init => Isolation!Init /\ AbsentPlain /\ Apart /\ CleanInv
  BY InitRefines, InitIsolated
<1>2. /\ CourseInv /\ CourseInv' /\ AbsentPlain /\ Apart /\ CleanInv /\ [Next]_vars
      => /\ AbsentPlain' /\ Apart' /\ CleanInv'
         /\ [Isolation!Next]_(Isolation!vars)
  <2> SUFFICES ASSUME CourseInv, CourseInv', AbsentPlain, Apart, CleanInv, [Next]_vars
               PROVE  AbsentPlain' /\ Apart' /\ CleanInv' /\ Isolation!Next
    OBVIOUS
  <2> USE DEF CourseInv, OriginInv
  <2>1. Kind /\ ~May("again") /\ ~May("soft")
    BY StepKind DEF Typed, May
  <2>2. AbsentPlain' /\ Apart' /\ CleanInv'
    BY <2>1, AbsentStaysPlain, ApartAlways, CleanAlways DEF ClaimInv, Typed
  <2>3. RefineInv
    BY ApartMeans DEF RefineInv
  <2> QED
    BY <2>1, <2>2, <2>3, StepRefines
<1> QED
  BY <1>1, <1>2, CourseInvariant, PTL DEF Spec, KeepsTenantsApart, Isolation!Spec
=============================================================================
