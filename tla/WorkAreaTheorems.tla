-------------------------- MODULE WorkAreaTheorems --------------------------
(***************************************************************************)
(* The v2 instance service, for any number of areas, calls, instances and   *)
(* crashes: its registry stays sound and its limits hold; calls, instances, *)
(* directories and files have owners; role directories are counted exactly.  *)
(***************************************************************************)
EXTENDS WorkAreaProofs

-----------------------------------------------------------------------------
\* What the registry's soundness rests on.

\* A call has its area's lock to itself.
LockHeldOnce ==
    \A c, d \in Calls : Holds(c) /\ Holds(d) /\ calls[c].area = calls[d].area => c = d

\* Calls are only made to a process that serves.
CallsServed == hub # "up" => \A c \in Calls : calls[c].pc \in {"idle", "done"}

\* While an acquire looks at the instance it has found, nobody puts another in
\* its place; once it discards it, the place is empty.
PlaceKept ==
    \A c \in Calls : calls[c].op = "acquire" =>
        /\ calls[c].pc \in {"probe", "alive", "busy"} =>
             byArea[calls[c].area] \in {None, calls[c].inst}
        /\ calls[c].pc = "discard" => byArea[calls[c].area] = None

\* A registered instance was reserved or adopted, and there are finitely many.
RegisteredMade ==
    /\ \A i \in reg : inst[i].status # "none"
    /\ IsFiniteSet(reg)

RegistryInv ==
    TypeInv /\ LockHeldOnce /\ CallsServed /\ PlaceKept /\ RegisteredMade /\ RegistrySound

-----------------------------------------------------------------------------
\* Every step is of one of these kinds for the registry.

\* What is registered stays what it is.
Steady ==
    \A j \in reg : /\ inst'[j].area = inst[j].area /\ inst'[j].owner = inst[j].owner
                   /\ inst[j].status # "none" => inst'[j].status # "none"

Unmoved == UNCHANGED <<reg, byArea>> /\ Steady /\ past'.adopted = past.adopted

TakenOff == (\E i : Remove(i)) /\ Steady /\ past'.adopted = past.adopted

TakenOn(c, i) ==
    /\ Enter(i, calls[c].area) /\ byArea[calls[c].area] = None
    /\ inst[i].status = "none" /\ inst'[i].status # "none"
    /\ inst'[i].area = calls[c].area /\ inst'[i].owner = calls[c].owner
    /\ ~AtLimit(calls[c].owner)
    /\ calls[c].area \in Areas
    /\ Steady /\ past'.adopted = past.adopted
    /\ calls'[c].pc = "create" /\ calls'[c].area = calls[c].area

Adopted(i) ==
    /\ Enter(i, inst[i].area) /\ byArea[inst[i].area] = None
    /\ inst'[i].area = inst[i].area /\ inst'[i].status # "none"
    /\ Steady /\ past'.adopted = past.adopted \union {i}
    /\ hub' # "up"

Forgotten == reg' = {} /\ byArea' = [a \in Areas |-> None]

Kinds ==
    \/ Unmoved \/ TakenOff \/ Forgotten
    \/ \E c \in Calls, i \in Instances : TakenOn(c, i)
    \/ \E i \in Instances : Adopted(i)

(* A discard takes at most one instance off, and changes no other.           *)
LEMMA OffKind ==
    ASSUME TypeInv, NEW i, Remove(i), inst' = inst \/ inst' = Unheld(i),
           past'.adopted = past.adopted
    PROVE  TakenOff
BY DEF TakenOff, Steady, Unheld, TypeInv, RegistryTyped, Instance

(* An acquire that reserves takes an instance on where none is.              *)
LEMMA ReserveKind ==
    ASSUME TypeInv, NEW c \in Calls, calls[c].op = "acquire", byArea[calls[c].area] = None,
           RegisteredMade, NEW known, known = inst \/ \E i : known = Unheld(i),
           Reserve(c, known), past'.adopted = past.adopted
    PROVE  Kinds
<1> USE DEF TypeInv
<1>1. \A j \in Instances : /\ known[j].area = inst[j].area /\ known[j].owner = inst[j].owner
                           /\ known[j].status = inst[j].status
  BY DEF Unheld, RegistryTyped, Instance
<1>2. known \in [Instances -> Instance]
  BY UnheldTyped DEF RegistryTyped
<1>3. CASE inst' = known /\ UNCHANGED <<reg, byArea>>
  BY <1>1, <1>3 DEF Kinds, Unmoved, Steady, RegistryTyped
<1>4. ASSUME NEW i \in Instances, inst[i].status = "none", ~AtLimit(calls[c].owner),
             inst' = [known EXCEPT ![i] = [NoInst EXCEPT !.area = calls[c].area,
                        !.owner = calls[c].owner, !.shape = calls[c].shape, !.status = "starting"]],
             Enter(i, calls[c].area),
             calls' = [calls EXCEPT ![c].inst = i, ![c].pc = "create"]
      PROVE  Kinds
  <2>1. i \notin reg
    BY <1>4 DEF RegisteredMade
  <2>2. Steady
    BY <1>1, <1>2, <1>4, <2>1 DEF Steady, RegistryTyped
  <2>3. inst'[i].status # "none" /\ inst'[i].area = calls[c].area /\ inst'[i].owner = calls[c].owner
    BY <1>2, <1>4 DEF NoInst
  <2>4. calls[c].area \in Areas /\ calls[c] \in Call
    BY DEF CallsTyped, OnArea
  <2>5. calls'[c].pc = "create" /\ calls'[c].area = calls[c].area
    BY <1>4, <2>4 DEF CallsTyped, Call
  <2>6. TakenOn(c, i)
    BY <1>4, <2>2, <2>3, <2>4, <2>5 DEF TakenOn
  <2> QED
    BY <2>6 DEF Kinds
<1> QED
  BY <1>3, <1>4 DEF Reserve

(* A step that leaves registry and history alone is no step for them.        *)
LEMMA StillKind ==
    ASSUME UNCHANGED <<inst, reg, byArea>>, past'.adopted = past.adopted
    PROVE  Kinds
BY DEF Kinds, Unmoved, Steady

(* The steps of a call.                                                      *)
LEMMA CallKind ==
    ASSUME RegistryInv, NEW c \in Calls, CallStep(c)
    PROVE  Kinds
<1> USE DEF RegistryInv, TypeInv
<1>0. past \in History
  BY DEF ProcessTyped
<1>1. ASSUME \/ \E a \in Areas, o \in Owners, s \in Shapes : Acquire(c, a, o, s)
             \/ \E op \in {"release", "quiesce", "update"}, i \in Instances : OnInstance(c, op, i)
             \/ \E op \in {"delete", "force_delete"}, a \in Areas : Delete(c, op, a)
      PROVE  Kinds
  BY <1>1, StillKind DEF Acquire, OnInstance, Delete, Arrive
<1>2. ASSUME Lock(c) PROVE Kinds
  <2>1. past' = past
    BY <1>2 DEF Lock
  <2>2. ASSUME NEW e, DiscardBegin(e), UNCHANGED inst PROVE Kinds
    BY <2>1, <2>2, OffKind DEF DiscardBegin, Kinds
  <2>3. CASE LockAcquire(c)
    <3>1. CASE byArea[calls[c].area] = None /\ Reserve(c, inst)
      BY <2>1, <2>3, <3>1, ReserveKind DEF LockAcquire
    <3>2. CASE UNCHANGED <<inst, reg, byArea>>
      BY <2>1, <3>2, StillKind
    <3> QED
      BY <2>2, <2>3, <3>1, <3>2 DEF LockAcquire
  <2>4. CASE LockInstance(c)
    BY <2>1, <2>2, <2>4, StillKind DEF LockInstance
  <2>5. CASE LockDelete(c)
    BY <2>1, <2>2, <2>5, StillKind DEF LockDelete
  <2> QED
    BY <1>2, <2>3, <2>4, <2>5 DEF Lock
<1>3. ASSUME Reuse(c) PROVE Kinds
  <2>1. CASE Rebuild(c)
    BY <2>1, OffKind DEF Rebuild, DiscardBegin, Kinds
  <2>2. CASE UNCHANGED <<still, past>>
    BY <2>2, StillKind DEF still
  <2> QED
    BY <1>3, <2>1, <2>2 DEF Reuse
<1>4. ASSUME Discarded(c) PROVE Kinds
  <2>1. past'.adopted = past.adopted
    BY <1>0, <1>4 DEF Discarded, Forgive, Lose, History
  <2>2. CASE calls[c].op = "acquire"
    BY <1>4, <2>1, <2>2, ReserveKind DEF Discarded, PlaceKept
  <2>3. CASE calls[c].op # "acquire"
    <3>1. inst' = Unheld(calls[c].inst) /\ UNCHANGED <<reg, byArea>>
      BY <1>4, <2>3 DEF Discarded
    <3>2. Unmoved
      BY <2>1, <3>1 DEF Unmoved, Steady, Unheld, RegistryTyped, Instance
    <3> QED
      BY <3>2 DEF Kinds
  <2> QED
    BY <2>2, <2>3
<1>5. ASSUME NEW k \in MountKeys, MountOne(c, k) \/ MountOver(c, k) PROVE Kinds
  BY <1>5, StillKind DEF MountOne, MountOver, still
<1>6. ASSUME CreateDirs(c) \/ Start(c) \/ Update(c) \/ RemoveFiles(c) PROVE Kinds
  BY <1>6, StillKind DEF CreateDirs, Start, Update, RemoveFiles
<1>7. ASSUME RollBack(c) \/ CreateFails(c) PROVE Kinds
  <2>1. past'.adopted = past.adopted
    BY <1>0, <1>7 DEF RollBack, CreateFails, Forgive, Lose, History
  <2> QED
    BY <1>7, <2>1, OffKind DEF RollBack, CreateFails, DiscardNow, Kinds
<1>8. ASSUME Mounted(c) \/ Started(c) \/ Quiesce(c) PROVE Kinds
  <2>1. UNCHANGED <<reg, byArea, past>>
    BY <1>8 DEF Mounted, Started, Quiesce
  <2>2. Steady
    <3>1. CASE Mounted(c)
      BY <3>1 DEF Mounted, Steady, RegistryTyped, Instance
    <3>2. CASE Started(c)
      BY <3>2 DEF Started, Steady, RegistryTyped, Instance
    <3>3. CASE Quiesce(c)
      BY <3>3 DEF Quiesce, Steady, RegistryTyped, Instance
    <3> QED
      BY <1>8, <3>1, <3>2, <3>3
  <2> QED
    BY <2>1, <2>2 DEF Kinds, Unmoved
<1>9. ASSUME Cancel(c) PROVE Kinds
  <2>1. past'.adopted = past.adopted
    BY <1>0, <1>9 DEF Cancel, Lose, History
  <2> QED
    BY <1>9, <2>1, StillKind DEF Cancel
<1> QED
  BY <1>1, <1>2, <1>3, <1>4, <1>5, <1>6, <1>7, <1>8, <1>9 DEF CallStep

(* The steps of the reconciler, the process and its surroundings.            *)
LEMMA OtherKind ==
    ASSUME RegistryInv,
           \/ Round \/ Crash \/ Boot \/ Booted \/ MountEvent
           \/ \E i \in Instances : BootAdopt(i) \/ BootRemove(i) \/ ContainerDies(i)
    PROVE  Kinds
<1> USE DEF RegistryInv, TypeInv
<1>0. past \in History
  BY DEF ProcessTyped
<1>1. ASSUME NEW i \in Instances, RoundDiscard(i) PROVE Kinds
  <2>1. past'.adopted = past.adopted
    BY <1>0, <1>1 DEF RoundDiscard, Reap, History
  <2> QED
    BY <1>1, <2>1, OffKind DEF RoundDiscard, DiscardBegin, DiscardNow, Kinds
<1>2. ASSUME NEW i \in Instances, RoundEach(i) PROVE Kinds
  <2>1. past'.adopted = past.adopted /\ inst' = inst
    BY <1>0, <1>2 DEF RoundEach, Reap, History
  <2> QED
    BY <1>2, <2>1, OffKind, StillKind DEF RoundEach, DiscardBegin, Kinds
<1>3. ASSUME RoundDiscarded PROVE Kinds
  <2>1. Steady
    BY <1>3 DEF RoundDiscarded, Steady, Unheld, RegistryTyped, Instance
  <2> QED
    BY <1>3, <2>1 DEF RoundDiscarded, Kinds, Unmoved
<1>4. ASSUME RoundBegin \/ RoundReset \/ RoundList \/ RoundDead \/ RoundOrphans \/ RoundUnmount
             \/ RoundEnd \/ \E k \in MountKeys : RoundSweep(k)
      PROVE  Kinds
  <2>1. UNCHANGED <<inst, reg, byArea>>
    BY <1>4 DEF RoundBegin, RoundReset, RoundList, RoundDead, RoundOrphans, RoundUnmount, RoundEnd,
       RoundSweep, still
  <2>2. past'.adopted = past.adopted
    BY <1>0, <1>4 DEF RoundBegin, RoundReset, RoundList, RoundDead, RoundOrphans, RoundUnmount,
       RoundEnd, RoundSweep, History
  <2> QED
    BY <2>1, <2>2, StillKind
<1>5. ASSUME Crash PROVE Kinds
  BY <1>5 DEF Crash, Kinds, Forgotten
<1>6. ASSUME Boot \/ Booted \/ MountEvent PROVE Kinds
  BY <1>0, <1>6, StillKind DEF Boot, Booted, MountEvent, still, History
<1>7. ASSUME NEW i \in Instances, BootAdopt(i) PROVE Kinds
  <2>1. Steady /\ inst'[i].area = inst[i].area /\ inst'[i].status = "ready"
    BY <1>7 DEF BootAdopt, Steady, RegistryTyped, Instance
  <2>2. past'.adopted = past.adopted \union {i}
    BY <1>0, <1>7 DEF BootAdopt, History
  <2> QED
    BY <1>7, <2>1, <2>2 DEF BootAdopt, Kinds, Adopted
<1>8. ASSUME NEW i \in Instances, BootRemove(i) \/ ContainerDies(i) PROVE Kinds
  BY <1>0, <1>8, StillKind DEF BootRemove, ContainerDies, Forgive, Lose, History
<1> QED
  BY <1>1, <1>2, <1>3, <1>4, <1>5, <1>6, <1>7, <1>8 DEF Round

(* Every step of the service is of one of the kinds.                         *)
LEMMA StepKind ==
    ASSUME RegistryInv, [Next]_vars
    PROVE  Kinds
<1>1. CASE UNCHANGED vars
  BY <1>1, StillKind DEF vars, wvars
<1> QED
  BY <1>1, CallKind, OtherKind DEF Next

-----------------------------------------------------------------------------
\* Locks: who holds one after a step held it before, or has found it free.

Acting(c) ==
    /\ \A d \in Calls : d # c => calls'[d] = calls[d]
    /\ Holds(c)' => /\ calls'[c].area = calls[c].area
                    /\ Holds(c) \/ ~Locked(calls[c].area)
    /\ calls'[c].pc \notin {"idle", "done"} => hub = "up" \/ calls[c].pc \notin {"idle", "done"}

(* A call that arrives waits for its lock, and no other is touched.          *)
LEMMA ArrivalWaits ==
    ASSUME CallsTyped, NEW c \in Calls,
           \/ \E a \in Areas, o \in Owners, s \in Shapes : Acquire(c, a, o, s)
           \/ \E op \in {"release", "quiesce", "update"}, i \in Instances : OnInstance(c, op, i)
           \/ \E op \in {"delete", "force_delete"}, a \in Areas : Delete(c, op, a)
    PROVE  /\ hub = "up" /\ hub' = hub /\ calls'[c].pc = "lock"
           /\ \A d \in Calls : d # c => calls'[d] = calls[d]
<1>0. calls \in [Calls -> Call]
  BY DEF CallsTyped
<1>1. ASSUME NEW a \in Areas, NEW o \in Owners, NEW s \in Shapes, Acquire(c, a, o, s)
      PROVE  calls'[c].pc = "lock"
  BY <1>0, <1>1 DEF Acquire, Arrive, NoCall
<1>2. ASSUME NEW op \in {"release", "quiesce", "update"}, NEW i \in Instances, OnInstance(c, op, i)
      PROVE  calls'[c].pc = "lock"
  BY <1>0, <1>2 DEF OnInstance, Arrive, NoCall
<1>3. ASSUME NEW op \in {"delete", "force_delete"}, NEW a \in Areas, Delete(c, op, a)
      PROVE  calls'[c].pc = "lock"
  BY <1>0, <1>3 DEF Delete, Arrive, NoCall
<1>4. hub = "up" /\ hub' = hub /\ \E call : calls' = [calls EXCEPT ![c] = call]
  BY DEF Acquire, OnInstance, Delete, Arrive
<1> QED
  BY <1>0, <1>1, <1>2, <1>3, <1>4

(* A call that is settled or goes on acts on itself only.                    *)
LEMMA MovedActs ==
    ASSUME CallsTyped, NEW c \in Calls,
           \/ Settled(c)
           \/ \E pc : Reach(c, pc) /\ calls[c].pc \notin {"idle", "done"}
                        /\ (Holds(c) \/ ~Locked(calls[c].area))
           \/ \E i, pc : calls' = [calls EXCEPT ![c].inst = i, ![c].pc = pc]
                           /\ calls[c].pc \notin {"idle", "done"}
                           /\ (Holds(c) \/ ~Locked(calls[c].area))
    PROVE  Acting(c)
<1>0. calls \in [Calls -> Call] /\ calls[c] \in Call
  BY DEF CallsTyped
<1>1. CASE Settled(c)
  BY <1>0, <1>1 DEF Settled, NoCall, Acting, Holds
<1>2. ASSUME NEW pc, Reach(c, pc), calls[c].pc \notin {"idle", "done"},
             Holds(c) \/ ~Locked(calls[c].area)
      PROVE  Acting(c)
  <2>1. calls'[c].area = calls[c].area /\ \A d \in Calls : d # c => calls'[d] = calls[d]
    BY <1>0, <1>2 DEF Reach, Call
  <2> QED
    BY <1>2, <2>1 DEF Acting
<1>3. ASSUME NEW i, NEW pc, calls' = [calls EXCEPT ![c].inst = i, ![c].pc = pc],
             calls[c].pc \notin {"idle", "done"}, Holds(c) \/ ~Locked(calls[c].area)
      PROVE  Acting(c)
  <2>1. calls'[c].area = calls[c].area /\ \A d \in Calls : d # c => calls'[d] = calls[d]
    BY <1>0, <1>3 DEF Call
  <2> QED
    BY <1>3, <2>1 DEF Acting
<1> QED
  BY <1>1, <1>2, <1>3

(* So does every step of a call.                                             *)
LEMMA CallActs ==
    ASSUME TypeInv, NEW c \in Calls, CallStep(c)
    PROVE  Acting(c) /\ hub' = hub
<1> USE DEF TypeInv
<1>0. calls \in [Calls -> Call] /\ calls[c] \in Call
  BY DEF CallsTyped
<1>1. ASSUME \/ \E a \in Areas, o \in Owners, s \in Shapes : Acquire(c, a, o, s)
             \/ \E op \in {"release", "quiesce", "update"}, i \in Instances : OnInstance(c, op, i)
             \/ \E op \in {"delete", "force_delete"}, a \in Areas : Delete(c, op, a)
      PROVE  Acting(c) /\ hub' = hub
  <2>1. hub = "up" /\ hub' = hub /\ calls'[c].pc = "lock" /\ \A d \in Calls : d # c => calls'[d] = calls[d]
    BY <1>1, ArrivalWaits
  <2> QED
    BY <2>1 DEF Acting, Holds
<1>2. ASSUME Lock(c) PROVE Acting(c) /\ hub' = hub
  <2>1. calls[c].pc = "lock" /\ ~Locked(calls[c].area) /\ hub' = hub
    BY <1>2 DEF Lock
  <2>2. CASE LockAcquire(c)
    <3>1. \/ Settled(c)
          \/ \E i \in Instances : calls' = [calls EXCEPT ![c].inst = i, ![c].pc = "create"]
          \/ \E pc \in {"probe", "discard"} :
               calls' = [calls EXCEPT ![c].inst = byArea[calls[c].area], ![c].pc = pc]
      <4> USE DEF LockAcquire
      <4>1. CASE Reserve(c, inst)
        BY <4>1, Zenon DEF Reserve
      <4>2. CASE ~Reserve(c, inst)
        BY <2>2, <4>2
      <4> QED
        BY <4>1, <4>2
    <3> QED
      BY <2>1, <3>1, MovedActs
  <2>3. CASE LockInstance(c)
    BY <2>1, <2>3, MovedActs DEF LockInstance
  <2>4. CASE LockDelete(c)
    BY <2>1, <2>4, MovedActs DEF LockDelete
  <2> QED
    BY <1>2, <2>1, <2>2, <2>3, <2>4 DEF Lock
<1>3. ASSUME Reuse(c) PROVE Acting(c) /\ hub' = hub
  <2>1. Holds(c) /\ hub' = hub /\ calls[c].pc \notin {"idle", "done"}
    BY <1>3 DEF Reuse, Holds
  <2> QED
    BY <1>3, <2>1, MovedActs DEF Reuse, Rebuild
<1>4. ASSUME Discarded(c) PROVE Acting(c) /\ hub' = hub
  <2>1. Holds(c) /\ hub' = hub /\ calls[c].pc \notin {"idle", "done"}
    BY <1>4 DEF Discarded, Holds
  <2> QED
    BY <1>4, <2>1, MovedActs DEF Discarded, Reserve
<1>5. ASSUME NEW k \in MountKeys, MountOne(c, k) \/ MountOver(c, k)
      PROVE  Acting(c) /\ hub' = hub
  <2>1. CASE Settled(c) /\ hub' = hub
    BY <2>1, MovedActs
  <2>2. CASE ~Settled(c)
    <3>1. hub' = hub /\ calls'[c].area = calls[c].area /\ \A d \in Calls : d # c => calls'[d] = calls[d]
      BY <1>0, <1>5, <2>2 DEF MountOne, MountOver, Call
    <3>2. calls'[c].pc = calls[c].pc \/ calls[c].pc \in {"create", "mount"}
      BY <1>0, <1>5, <2>2 DEF MountOne, MountOver, Call
    <3> QED
      BY <3>1, <3>2 DEF Acting, Holds
  <2> QED
    BY <1>5, <2>1, <2>2 DEF MountOne, MountOver
<1>6. ASSUME Cancel(c) \/ CreateDirs(c) \/ Mounted(c)
      PROVE  Acting(c) /\ hub' = hub
  <2>1. CASE Settled(c) /\ hub' = hub
    BY <2>1, MovedActs
  <2>2. CASE ~Settled(c)
    <3>1. hub' = hub /\ calls'[c].area = calls[c].area /\ \A d \in Calls : d # c => calls'[d] = calls[d]
      BY <1>0, <1>6, <2>2 DEF Cancel, CreateDirs, Mounted, Call
    <3>2. calls'[c].pc = calls[c].pc \/ calls[c].pc \in {"create", "mount"}
      BY <1>0, <1>6, <2>2 DEF Cancel, CreateDirs, Mounted, Call
    <3> QED
      BY <3>1, <3>2 DEF Acting, Holds
  <2> QED
    BY <1>6, <2>1, <2>2 DEF Cancel, CreateDirs, Mounted
<1>7. ASSUME RollBack(c) \/ CreateFails(c) \/ Update(c) \/ RemoveFiles(c) PROVE Acting(c) /\ hub' = hub
  <2>1. Settled(c) /\ hub' = hub
    BY <1>7 DEF RollBack, CreateFails, Update, RemoveFiles
  <2> QED
    BY <2>1, MovedActs
<1>8. ASSUME Start(c) \/ Started(c) \/ Quiesce(c) PROVE Acting(c) /\ hub' = hub
  <2>1. Holds(c) /\ hub' = hub /\ calls[c].pc \notin {"idle", "done"}
    BY <1>8 DEF Start, Started, Quiesce, Holds
  <2> QED
    BY <1>8, <2>1, MovedActs DEF Start, Started, Quiesce
<1> QED
  BY <1>1, <1>2, <1>3, <1>4, <1>5, <1>6, <1>7, <1>8 DEF CallStep

(* The process serves from the end of its start to its next crash.           *)
LEMMA ServedKept ==
    ASSUME RegistryInv, [Next]_vars
    PROVE  CallsServed'
<1> USE DEF RegistryInv, TypeInv
<1>0. calls \in [Calls -> Call]
  BY DEF CallsTyped
<1>1. ASSUME NEW c \in Calls, CallStep(c) PROVE CallsServed'
  BY <1>1, CallActs DEF Acting, CallsServed
<1>2. CASE Crash
  BY <1>2 DEF Crash, NoCall, CallsServed
<1>3. CASE UNCHANGED calls /\ (hub' # "up" => hub # "up")
  BY <1>3 DEF CallsServed
<1>4. CASE Round
  <2>1. UNCHANGED <<calls, hub>>
    BY <1>4 DEF Round, RoundBegin, RoundReset, RoundList, RoundDead, RoundDiscarded, RoundOrphans,
       RoundUnmount, RoundEnd, RoundDiscard, RoundEach, RoundSweep, RoundStill
  <2> QED
    BY <1>3, <2>1
<1>5. CASE Boot \/ Booted \/ MountEvent
           \/ \E i \in Instances : BootAdopt(i) \/ BootRemove(i) \/ ContainerDies(i)
  BY <1>3, <1>5 DEF Boot, Booted, MountEvent, BootAdopt, BootRemove, ContainerDies
<1> QED
  BY <1>1, <1>2, <1>3, <1>4, <1>5 DEF Next, vars, wvars

\* Who moves: one call, or none; a crash settles them all.
Moves ==
    \/ \E c \in Calls : CallStep(c)
    \/ UNCHANGED calls
    \/ \A c \in Calls : calls'[c].pc = "done" \/ (calls'[c] = calls[c] /\ calls[c].pc = "idle")

(* Every step is one call's, nobody's or a crash.                            *)
LEMMA StepMoves ==
    ASSUME [Next]_vars
    PROVE  Moves
<1>1. CASE Crash
  <2>1. calls' = [c \in Calls |-> IF calls[c].pc = "idle" THEN calls[c]
                                 ELSE [NoCall EXCEPT !.pc = "done"]]
    BY <1>1 DEF Crash
  <2>2. \A c \in Calls : calls'[c].pc = "done" \/ (calls'[c] = calls[c] /\ calls[c].pc = "idle")
    BY <2>1 DEF NoCall
  <2> QED
    BY <2>2 DEF Moves
<1>2. CASE Round
  BY <1>2 DEF Moves, Round, RoundBegin, RoundReset, RoundList, RoundDead, RoundDiscarded,
     RoundOrphans, RoundUnmount, RoundEnd, RoundDiscard, RoundEach, RoundSweep, RoundStill
<1>3. CASE Boot \/ Booted \/ MountEvent
           \/ \E i \in Instances : BootAdopt(i) \/ BootRemove(i) \/ ContainerDies(i)
  BY <1>3 DEF Moves, Boot, Booted, MountEvent, BootAdopt, BootRemove, ContainerDies
<1> QED
  BY <1>1, <1>2, <1>3 DEF Moves, Next, vars, wvars

(* The lock of an area is granted to one call at a time.                     *)
LEMMA LockKept ==
    ASSUME RegistryInv, Moves
    PROVE  LockHeldOnce'
<1> USE DEF RegistryInv
<1>1. ASSUME NEW c \in Calls, CallStep(c) PROVE LockHeldOnce'
  <2>1. Acting(c)
    BY <1>1, CallActs
  <2>2. \A d \in Calls : d # c => (Holds(d)' <=> Holds(d)) /\ calls'[d].area = calls[d].area
    BY <2>1 DEF Acting, Holds
  <2>3. ASSUME NEW d \in Calls, d # c, Holds(c)', Holds(d)' PROVE calls'[c].area # calls'[d].area
    BY <2>1, <2>2, <2>3 DEF Acting, Locked, LockHeldOnce
  <2>4. ASSUME NEW d \in Calls, NEW e \in Calls, d # c, e # c,
               Holds(d)', Holds(e)', calls'[d].area = calls'[e].area
        PROVE  d = e
    BY <2>2, <2>4 DEF LockHeldOnce
  <2> QED
    BY <2>3, <2>4 DEF LockHeldOnce
<1>2. CASE UNCHANGED calls
  BY <1>2 DEF LockHeldOnce, Holds
<1>3. CASE \A c \in Calls : calls'[c].pc = "done" \/ (calls'[c] = calls[c] /\ calls[c].pc = "idle")
  BY <1>3 DEF LockHeldOnce, Holds
<1> QED
  BY <1>1, <1>2, <1>3 DEF Moves

-----------------------------------------------------------------------------
\* The place in the index that an acquire relies on.

Placed(c) ==
    calls[c].op = "acquire" =>
        /\ calls[c].pc \in {"probe", "alive", "busy"} =>
             byArea[calls[c].area] \in {None, calls[c].inst}
        /\ calls[c].pc = "discard" => byArea[calls[c].area] = None

(* Discarding the instance that an area names empties its place.             *)
LEMMA RemoveEmpties ==
    ASSUME RegistryInv, NEW a \in Areas, NEW i \in Instances, byArea[a] \in {None, i}, Remove(i)
    PROVE  byArea'[a] = None
BY DEF Remove, RegistryInv, RegistrySound

(* A call's own step keeps its place.                                        *)
LEMMA OwnPlaceKept ==
    ASSUME RegistryInv, NEW c \in Calls, CallStep(c)
    PROVE  Placed(c)'
<1> USE DEF RegistryInv, TypeInv
<1>0. calls \in [Calls -> Call] /\ calls[c] \in Call
  BY DEF CallsTyped
<1>1. ASSUME calls'[c].pc \notin {"probe", "alive", "busy", "discard"} PROVE Placed(c)'
  BY <1>1 DEF Placed
<1>2. CASE Settled(c)
  BY <1>0, <1>1, <1>2 DEF Settled, NoCall
<1>3. ASSUME NEW pc, Reach(c, pc), pc \notin {"probe", "alive", "busy", "discard"}
      PROVE  Placed(c)'
  BY <1>0, <1>1, <1>3 DEF Reach
<1>4. CASE \E i \in Instances : calls' = [calls EXCEPT ![c].inst = i, ![c].pc = "create"]
  <2>1. calls'[c].pc = "create"
    BY <1>0, <1>4
  <2> QED
    BY <1>1, <2>1
<1>5. ASSUME \/ \E a \in Areas, o \in Owners, s \in Shapes : Acquire(c, a, o, s)
             \/ \E op \in {"release", "quiesce", "update"}, i \in Instances : OnInstance(c, op, i)
             \/ \E op \in {"delete", "force_delete"}, a \in Areas : Delete(c, op, a)
      PROVE  Placed(c)'
  <2>1. calls'[c].pc = "lock"
    BY <1>5, ArrivalWaits
  <2> QED
    BY <1>1, <2>1
<1>6. ASSUME Lock(c) PROVE Placed(c)'
  <2>1. CASE LockAcquire(c)
    <3>1. calls[c].area \in Areas
      BY <1>0, <2>1 DEF LockAcquire, CallsTyped, OnArea
    <3>3. CASE /\ calls' = [calls EXCEPT ![c].inst = byArea[calls[c].area], ![c].pc = "probe"]
               /\ UNCHANGED byArea
      BY <1>0, <3>3 DEF Placed, Call
    <3>4. CASE /\ calls' = [calls EXCEPT ![c].inst = byArea[calls[c].area], ![c].pc = "discard"]
               /\ byArea[calls[c].area] # None
               /\ DiscardBegin(byArea[calls[c].area])
      <4>1. byArea'[calls[c].area] = None
        BY <3>1, <3>4, RemoveEmpties DEF DiscardBegin, RegistryTyped
      <4> QED
        BY <1>0, <3>4, <4>1 DEF Placed, Call
    <3> QED
      BY <1>2, <1>4, <2>1, <3>3, <3>4 DEF LockAcquire, Reserve
  <2>2. CASE LockInstance(c)
    <3>1. calls[c].op # "acquire"
      BY <2>2 DEF LockInstance
    <3>2. CASE \E pc : Reach(c, pc)
      BY <1>0, <3>1, <3>2 DEF Reach, Placed, Call
    <3> QED
      BY <1>2, <2>2, <3>2 DEF LockInstance
  <2>3. CASE LockDelete(c)
    <3>1. calls[c].op # "acquire"
      BY <2>3 DEF LockDelete
    <3>2. CASE \E pc : Reach(c, pc)
      BY <1>0, <3>1, <3>2 DEF Reach, Placed, Call
    <3>3. CASE calls' = [calls EXCEPT ![c].inst = byArea[calls[c].area], ![c].pc = "discard"]
      BY <1>0, <3>1, <3>3 DEF Placed, Call
    <3> QED
      BY <1>2, <2>3, <3>2, <3>3 DEF LockDelete
  <2> QED
    BY <1>6, <2>1, <2>2, <2>3 DEF Lock
<1>7. ASSUME Reuse(c) PROVE Placed(c)'
  <2>1. calls[c].pc \in {"probe", "alive", "busy", "switch"}
    BY <1>7 DEF Reuse
  <2>2. CASE calls[c].pc \in {"probe", "alive", "busy"} /\ Rebuild(c)
    <3>1. ASSUME calls[c].op = "acquire" PROVE byArea'[calls[c].area] = None
      <4>1. calls[c].area \in Areas /\ calls[c].inst \in Instances
        BY <2>2, <3>1 DEF CallsTyped, OnArea, Working
      <4> QED
        BY <2>2, <3>1, <4>1, RemoveEmpties DEF Rebuild, DiscardBegin, PlaceKept
    <3>2. calls'[c].area = calls[c].area /\ calls'[c].op = calls[c].op /\ calls'[c].pc = "discard"
      BY <1>0, <2>2 DEF Rebuild, Reach, Call
    <3> QED
      BY <3>1, <3>2 DEF Placed
  <2>3. CASE /\ calls[c].pc = "probe" /\ UNCHANGED byArea
             /\ \E pc \in {"alive", "busy"} : Reach(c, pc)
    <3>1. PICK pc \in {"alive", "busy"} : Reach(c, pc)
      BY <2>3
    <3>2. /\ calls'[c].area = calls[c].area /\ calls'[c].op = calls[c].op
          /\ calls'[c].inst = calls[c].inst /\ calls'[c].pc = pc
      BY <1>0, <3>1 DEF Reach, Call
    <3> QED
      BY <2>3, <3>1, <3>2 DEF Placed, PlaceKept
  <2>4. CASE \E pc \in {"switch", "answered"} : Reach(c, pc)
    BY <1>3, <2>4
  <2> QED
    BY <1>2, <1>7, <2>2, <2>3, <2>4 DEF Reuse, still
<1>8. ASSUME Discarded(c) PROVE Placed(c)'
  BY <1>2, <1>3, <1>4, <1>8 DEF Discarded, Reserve
<1>9. ASSUME NEW k \in MountKeys, MountOne(c, k) \/ MountOver(c, k) PROVE Placed(c)'
  <2>1. CASE calls[c].pc = "mount"
    BY <1>0, <1>1, <1>9, <2>1 DEF MountOne, MountOver, Call
  <2>2. CASE calls[c].pc # "mount"
    <3>1. /\ calls'[c].area = calls[c].area /\ calls'[c].op = calls[c].op
          /\ calls'[c].inst = calls[c].inst /\ calls'[c].pc = calls[c].pc
      BY <1>0, <1>9, <2>2 DEF MountOne, MountOver, Call
    <3>2. byArea' = byArea
      BY <1>9 DEF MountOne, MountOver, still
    <3> QED
      BY <3>1, <3>2 DEF Placed, PlaceKept
  <2> QED
    BY <2>1, <2>2
<1>10. ASSUME RollBack(c) \/ CreateFails(c) \/ Update(c) \/ RemoveFiles(c) PROVE Placed(c)'
  BY <1>2, <1>10 DEF RollBack, CreateFails, Update, RemoveFiles
<1>11. ASSUME Start(c) \/ Started(c) \/ Quiesce(c) PROVE Placed(c)'
  BY <1>2, <1>3, <1>11 DEF Start, Started, Quiesce
<1>12. ASSUME Cancel(c) \/ CreateDirs(c) \/ Mounted(c) PROVE Placed(c)'
  <2>1. Settled(c) \/ calls'[c].pc \in {"mount", "start"}
    BY <1>0, <1>12 DEF Cancel, CreateDirs, Mounted, Call
  <2> QED
    BY <1>1, <1>2, <2>1
<1> QED
  BY <1>5, <1>6, <1>7, <1>8, <1>9, <1>10, <1>11, <1>12 DEF CallStep

(* Nobody else puts an instance where a call relies on its place.            *)
LEMMA OtherPlaceKept ==
    ASSUME RegistryInv, Kinds, LockHeldOnce', CallsServed', TypeInv',
           NEW d \in Calls, calls'[d] = calls[d]
    PROVE  Placed(d)'
<1> SUFFICES ASSUME calls[d].op = "acquire", calls[d].pc \in {"probe", "alive", "busy", "discard"}
             PROVE  byArea'[calls[d].area] \in {None, byArea[calls[d].area]}
  BY DEF Placed, RegistryInv, PlaceKept
<1> USE DEF RegistryInv, TypeInv
<1>1. calls[d].area \in Areas
  BY DEF CallsTyped, OnArea
<1>2. CASE Unmoved
  BY <1>2 DEF Unmoved
<1>3. CASE TakenOff
  BY <1>1, <1>3 DEF TakenOff, Remove
<1>4. CASE Forgotten
  BY <1>1, <1>4 DEF Forgotten
<1>5. ASSUME NEW c \in Calls, NEW i \in Instances, TakenOn(c, i)
      PROVE  byArea'[calls[d].area] = byArea[calls[d].area]
  <2>1. calls'[c].pc = "create" /\ calls'[c].area = calls[c].area
    BY <1>5 DEF TakenOn
  <2>2. Holds(c)' /\ Holds(d)' /\ c # d
    BY <2>1 DEF Holds
  <2>3. calls[c].area # calls[d].area
    BY <2>1, <2>2 DEF LockHeldOnce
  <2> QED
    BY <1>1, <1>5, <2>3 DEF TakenOn, Enter, RegistryTyped
<1>6. ASSUME NEW i \in Instances, Adopted(i) PROVE FALSE
  BY <1>6 DEF Adopted, CallsServed
<1> QED
  BY <1>2, <1>3, <1>4, <1>5, <1>6 DEF Kinds

(* Every acquire keeps its place.                                            *)
LEMMA PlacesKept ==
    ASSUME RegistryInv, Kinds, Moves, LockHeldOnce', CallsServed', TypeInv'
    PROVE  PlaceKept'
<1> SUFFICES \A d \in Calls : Placed(d)'
  BY DEF Placed, PlaceKept
<1>1. ASSUME NEW c \in Calls, CallStep(c) PROVE \A d \in Calls : Placed(d)'
  <2>1. Acting(c)
    BY <1>1, CallActs DEF RegistryInv
  <2> QED
    BY <1>1, <2>1, OwnPlaceKept, OtherPlaceKept DEF Acting
<1>2. CASE UNCHANGED calls
  BY <1>2, OtherPlaceKept
<1>3. CASE \A c \in Calls : calls'[c].pc = "done" \/ (calls'[c] = calls[c] /\ calls[c].pc = "idle")
  BY <1>3 DEF Placed
<1> QED
  BY <1>1, <1>2, <1>3 DEF Moves

-----------------------------------------------------------------------------
\* Index and records.

(* What is registered was made, and is finite, after every step.             *)
LEMMA MadeKept ==
    ASSUME RegistryInv, Kinds
    PROVE  RegisteredMade'
<1> USE DEF RegistryInv, RegisteredMade
<1>1. CASE Unmoved
  BY <1>1 DEF Unmoved, Steady
<1>2. CASE TakenOff
  <2>1. reg' \subseteq reg
    BY <1>2 DEF TakenOff, Remove
  <2> QED
    BY <1>2, <2>1, FS_Subset DEF TakenOff, Steady
<1>3. CASE Forgotten
  BY <1>3, FS_EmptySet DEF Forgotten
<1>4. ASSUME NEW i \in Instances, reg' = reg \union {i}, inst'[i].status # "none", Steady
      PROVE  RegisteredMade'
  <2>1. IsFiniteSet(reg')
    BY <1>4, FS_AddElement
  <2> QED
    BY <1>4, <2>1 DEF Steady
<1> QED
  BY <1>1, <1>2, <1>3, <1>4 DEF Kinds, TakenOn, Adopted, Enter

(* An instance that enters where none is becomes its area's one.             *)
LEMMA EnterSound ==
    ASSUME RegistryInv, NEW i \in Instances, NEW a, Enter(i, a), byArea[a] = None,
           i \in reg => inst[i].area = a, inst'[i].area = a, Steady
    PROVE  RegistrySound'
<1> USE DEF RegistryInv, TypeInv, RegistryTyped
<1> SUFFICES ASSUME NEW b \in Areas, NEW j \in Instances
             PROVE  byArea'[b] = j <=> j \in reg' /\ inst'[j].area = b
  BY DEF RegistrySound
<1>1. byArea[b] = j <=> j \in reg /\ inst[j].area = b
  BY DEF RegistrySound
<1>2. j # None
  BY AreasAssumption
<1>3. byArea'[b] = (IF b = a THEN i ELSE byArea[b]) /\ reg' = reg \union {i}
  BY DEF Enter
<1>4. j \in reg => inst'[j].area = inst[j].area
  BY DEF Steady
<1> QED
  BY <1>1, <1>2, <1>3, <1>4

(* Index and records name each other after every step.                       *)
LEMMA SoundKept ==
    ASSUME RegistryInv, Kinds
    PROVE  RegistrySound'
<1> USE DEF RegistryInv, TypeInv, RegistryTyped
<1>1. CASE Unmoved
  BY <1>1 DEF Unmoved, Steady, RegistrySound
<1>2. ASSUME NEW i, Remove(i), Steady PROVE RegistrySound'
  <2> SUFFICES ASSUME NEW b \in Areas, NEW j \in Instances
               PROVE  byArea'[b] = j <=> j \in reg' /\ inst'[j].area = b
    BY DEF RegistrySound
  <2>1. byArea[b] = j <=> j \in reg /\ inst[j].area = b
    BY DEF RegistrySound
  <2>2. j # None
    BY AreasAssumption
  <2>3. j \in reg => inst'[j].area = inst[j].area
    BY <1>2 DEF Steady
  <2>4. /\ reg' = reg \ {i}
        /\ byArea'[b] = (IF i \in reg /\ b = inst[i].area /\ byArea[b] = i THEN None ELSE byArea[b])
    BY <1>2 DEF Remove
  <2> QED
    BY <2>1, <2>2, <2>3, <2>4
<1>3. CASE Forgotten
  BY <1>3, AreasAssumption DEF Forgotten, RegistrySound
<1>4. ASSUME NEW c \in Calls, NEW i \in Instances, TakenOn(c, i) PROVE RegistrySound'
  <2>1. i \notin reg
    BY <1>4 DEF TakenOn, RegisteredMade
  <2> QED
    BY <1>4, <2>1, EnterSound DEF TakenOn
<1>5. ASSUME NEW i \in Instances, Adopted(i) PROVE RegistrySound'
  BY <1>5, EnterSound DEF Adopted
<1> QED
  BY <1>1, <1>2, <1>3, <1>4, <1>5 DEF Kinds, TakenOff

(* The registry's invariant is inductive.                                    *)
LEMMA RegistryInductive ==
    ASSUME RegistryInv, [Next]_vars
    PROVE  RegistryInv'
<1>1. Kinds /\ Moves
  BY StepKind, StepMoves
<1>2. TypeInv'
  BY StepTyped DEF RegistryInv
<1>3. LockHeldOnce' /\ CallsServed'
  BY <1>1, LockKept, ServedKept
<1>4. PlaceKept'
  BY <1>1, <1>2, <1>3, PlacesKept
<1>5. RegisteredMade' /\ RegistrySound'
  BY <1>1, MadeKept, SoundKept
<1> QED
  BY <1>2, <1>3, <1>4, <1>5 DEF RegistryInv

(* It holds when the Hub starts: nothing is registered, nobody calls.        *)
LEMMA RegistryStarts == Init => RegistryInv
<1> SUFFICES ASSUME Init PROVE RegistryInv
  OBVIOUS
<1>1. TypeInv
  BY InitTyped
<1>2. /\ reg = {} /\ byArea = [a \in Areas |-> None] /\ calls = [c \in Calls |-> NoCall]
  BY DEF Init
<1>3. LockHeldOnce /\ CallsServed /\ PlaceKept
  BY <1>2 DEF LockHeldOnce, CallsServed, PlaceKept, Holds, NoCall
<1>4. RegisteredMade
  BY <1>2, FS_EmptySet DEF RegisteredMade
<1>5. RegistrySound
  BY <1>2, AreasAssumption DEF RegistrySound
<1> QED
  BY <1>1, <1>3, <1>4, <1>5 DEF RegistryInv

(* What the soundness rests on holds in every reachable state: two calls     *)
(* never work on one area at a time, and while one looks at the instance it  *)
(* has found nobody puts another in its place, though the reconciler, which  *)
(* takes no lock, may take it away.                                          *)
THEOREM RegistryInvariant == Spec => []RegistryInv
<1>1. Init => RegistryInv
  BY RegistryStarts
<1>2. RegistryInv /\ [Next]_vars => RegistryInv'
  BY RegistryInductive
<1> QED
  BY <1>1, <1>2, PTL DEF Spec

(* Index and records of the v2 registry name each other in every reachable   *)
(* state: every acquire finds the one registered instance of its area.       *)
THEOREM RegistryAlwaysSound == Spec => []RegistrySound
<1>1. RegistryInv => RegistrySound
  BY DEF RegistryInv
<1> QED
  BY <1>1, RegistryInvariant, PTL

-----------------------------------------------------------------------------
\* The limits.

(* A set that loses members, or gains one below its limit, keeps within it.  *)
LEMMA WithinLimit ==
    ASSUME NEW max \in Nat, NEW S, NEW T, NEW U, IsFiniteSet(S),
           \/ T \subseteq U /\ U \subseteq S /\ Cardinality(U) <= max
           \/ Cardinality(S) < max /\ \E i : T \subseteq S \union {i}
    PROVE  Cardinality(T) <= max
<1>1. CASE T \subseteq U /\ U \subseteq S /\ Cardinality(U) <= max
  <2>1. IsFiniteSet(U)
    BY <1>1, FS_Subset
  <2>2. Cardinality(T) \in Nat /\ Cardinality(U) \in Nat /\ Cardinality(T) <= Cardinality(U)
    BY <1>1, <2>1, FS_Subset, FS_CardinalityType
  <2> QED
    BY <1>1, <2>2
<1>2. ASSUME Cardinality(S) < max, NEW i, T \subseteq S \union {i}
      PROVE  Cardinality(T) <= max
  <2>1. IsFiniteSet(S \union {i})
    BY FS_AddElement
  <2>2. Cardinality(S) \in Nat /\ Cardinality(S \union {i}) \in {Cardinality(S), Cardinality(S) + 1}
    BY FS_AddElement, FS_CardinalityType
  <2>3. Cardinality(T) \in Nat /\ Cardinality(T) <= Cardinality(S \union {i})
    BY <1>2, <2>1, FS_Subset, FS_CardinalityType
  <2> QED
    BY <1>2, <2>2, <2>3
<1> QED
  BY <1>1, <1>2

\* Who counts against a limit of o: those not adopted.
CountedUser(o) == SameUser(o) \ past.adopted
CountedRole(o) == SameRole(o) \ past.adopted

(* What counts grows by a reservation below the limit, and by nothing else.  *)
LEMMA CountsGrow ==
    ASSUME RegistryInv, Kinds, NEW o
    PROVE  /\ \/ CountedUser(o)' \subseteq CountedUser(o)
              \/ /\ MaxPerUser > 0 => Cardinality(SameUser(o)) < MaxPerUser
                 /\ \E i : CountedUser(o)' \subseteq SameUser(o) \union {i}
           /\ \/ CountedRole(o)' \subseteq CountedRole(o)
              \/ /\ MaxPerRole > 0 => Cardinality(SameRole(o)) < MaxPerRole
                 /\ \E i : CountedRole(o)' \subseteq SameRole(o) \union {i}
<1>1. CASE CountedUser(o)' \subseteq CountedUser(o) /\ CountedRole(o)' \subseteq CountedRole(o)
  BY <1>1
<1>2. CASE Unmoved
  BY <1>1, <1>2 DEF Unmoved, Steady, CountedUser, CountedRole, SameUser, SameRole
<1>3. CASE TakenOff
  BY <1>1, <1>3 DEF TakenOff, Remove, Steady, CountedUser, CountedRole, SameUser, SameRole
<1>4. CASE Forgotten
  BY <1>1, <1>4 DEF Forgotten, CountedUser, CountedRole, SameUser, SameRole
<1>5. ASSUME NEW i \in Instances, Adopted(i)
      PROVE  CountedUser(o)' \subseteq CountedUser(o) /\ CountedRole(o)' \subseteq CountedRole(o)
  BY <1>5 DEF Adopted, Enter, Steady, CountedUser, CountedRole, SameUser, SameRole
<1>6. ASSUME NEW c \in Calls, NEW i \in Instances, TakenOn(c, i)
      PROVE  /\ \/ CountedUser(o)' \subseteq CountedUser(o)
                \/ /\ MaxPerUser > 0 => Cardinality(SameUser(o)) < MaxPerUser
                   /\ CountedUser(o)' \subseteq SameUser(o) \union {i}
             /\ \/ CountedRole(o)' \subseteq CountedRole(o)
                \/ /\ MaxPerRole > 0 => Cardinality(SameRole(o)) < MaxPerRole
                   /\ CountedRole(o)' \subseteq SameRole(o) \union {i}
  <2> DEFINE p == calls[c].owner
  <2>1. /\ reg' = reg \union {i} /\ inst'[i].owner = p
        /\ \A j \in reg : inst'[j].owner = inst[j].owner
        /\ past'.adopted = past.adopted
    BY <1>6 DEF TakenOn, Enter, Steady
  <2>2. IsFiniteSet(SameUser(p)) /\ IsFiniteSet(SameRole(p))
    BY FS_Subset DEF SameUser, SameRole, RegistryInv, RegisteredMade
  <2>3. /\ MaxPerUser > 0 => Cardinality(SameUser(p)) < MaxPerUser
        /\ MaxPerRole > 0 => Cardinality(SameRole(p)) < MaxPerRole
    <3>1. Cardinality(SameUser(p)) \in Nat /\ Cardinality(SameRole(p)) \in Nat
      BY <2>2, FS_CardinalityType
    <3> QED
      BY <1>6, <3>1, AreasAssumption DEF TakenOn, AtLimit
  <2>4. /\ CountedUser(o)' \subseteq CountedUser(o) \/ p.user = o.user
        /\ CountedRole(o)' \subseteq CountedRole(o) \/ (p.user = o.user /\ p.role = o.role)
    BY <2>1 DEF CountedUser, CountedRole, SameUser, SameRole
  <2>5. /\ CountedUser(o)' \subseteq SameUser(o) \union {i}
        /\ CountedRole(o)' \subseteq SameRole(o) \union {i}
    BY <2>1 DEF CountedUser, CountedRole, SameUser, SameRole
  <2>6. p.user = o.user => SameUser(p) = SameUser(o)
    BY DEF SameUser
  <2>7. p.user = o.user /\ p.role = o.role => SameRole(p) = SameRole(o)
    BY DEF SameUser, SameRole
  <2> QED
    BY <2>3, <2>4, <2>5, <2>6, <2>7
<1> QED
  BY <1>1, <1>2, <1>3, <1>4, <1>5, <1>6 DEF Kinds

(* Limits that hold keep holding.                                            *)
LEMMA LimitsKept ==
    ASSUME RegistryInv, Kinds, LimitsHold
    PROVE  LimitsHold'
<1> SUFFICES ASSUME NEW o \in Owners
             PROVE  /\ MaxPerRole > 0 => Cardinality(CountedRole(o)') <= MaxPerRole
                    /\ MaxPerUser > 0 => Cardinality(CountedUser(o)') <= MaxPerUser
  BY DEF LimitsHold, CountedRole, CountedUser
<1>1. IsFiniteSet(SameUser(o)) /\ IsFiniteSet(SameRole(o))
  BY FS_Subset DEF SameUser, SameRole, RegistryInv, RegisteredMade
<1>2. CountedUser(o) \subseteq SameUser(o) /\ CountedRole(o) \subseteq SameRole(o)
  BY DEF CountedUser, CountedRole
<1>3. /\ MaxPerRole > 0 => Cardinality(CountedRole(o)) <= MaxPerRole
      /\ MaxPerUser > 0 => Cardinality(CountedUser(o)) <= MaxPerUser
  BY DEF LimitsHold, CountedRole, CountedUser
<1>4. MaxPerUser > 0 => Cardinality(CountedUser(o)') <= MaxPerUser
  BY <1>1, <1>2, <1>3, CountsGrow, WithinLimit, AreasAssumption
<1>5. MaxPerRole > 0 => Cardinality(CountedRole(o)') <= MaxPerRole
  BY <1>1, <1>2, <1>3, CountsGrow, WithinLimit, AreasAssumption
<1> QED
  BY <1>4, <1>5

(* However many acquires are creating at once, no role and no user ever has  *)
(* more instances than the configured limit, apart from adopted ones.        *)
THEOREM LimitsAlwaysHold == Spec => []LimitsHold
<1>1. Init => RegistryInv /\ LimitsHold
  <2> SUFFICES ASSUME Init, NEW o \in Owners
               PROVE  /\ RegistryInv
                      /\ MaxPerRole > 0 => Cardinality(SameRole(o) \ past.adopted) <= MaxPerRole
                      /\ MaxPerUser > 0 => Cardinality(SameUser(o) \ past.adopted) <= MaxPerUser
    BY RegistryStarts DEF LimitsHold
  <2>1. SameRole(o) \ past.adopted = {} /\ SameUser(o) \ past.adopted = {}
    BY DEF Init, SameRole, SameUser
  <2>2. Cardinality({}) = 0 /\ IsFiniteSet({})
    BY FS_EmptySet
  <2>3. /\ Cardinality(SameRole(o) \ past.adopted) = 0
        /\ Cardinality(SameUser(o) \ past.adopted) = 0
    BY <2>1, <2>2
  <2>4. /\ MaxPerRole > 0 => 0 <= MaxPerRole
        /\ MaxPerUser > 0 => 0 <= MaxPerUser
    BY AreasAssumption
  <2>5. RegistryInv
    BY RegistryStarts
  <2> QED
    BY <2>3, <2>4, <2>5
<1>2. RegistryInv /\ LimitsHold /\ [Next]_vars => (RegistryInv /\ LimitsHold)'
  BY RegistryInductive, StepKind, LimitsKept
<1> QED
  BY <1>1, <1>2, PTL DEF Spec

-----------------------------------------------------------------------------
\* What calls and instances owe each other.

Unfinished(i) == i \in reg \/ i \in past.reaped

\* What a call relies on while it holds its area's lock: its instance belongs
\* to the area, it is what the call has found or made it, and only the
\* reconciler takes it away; a call that discards or deletes finds the area empty.
Serves(c) ==
    /\ calls[c].inst # None =>
         inst[calls[c].inst].area = calls[c].area /\ inst[calls[c].inst].status # "none"
    /\ calls[c].pc \in Creating =>
         inst[calls[c].inst].status = "starting" /\ Unfinished(calls[c].inst)
    /\ calls[c].pc \in {"create", "mount", "start"} => cont[calls[c].inst] = "absent"
    /\ calls[c].pc \in {"mount", "start", "wait"} => calls[c].area \in exists
    /\ calls[c].pc \in {"probe", "alive", "busy", "switch"} =>
         \/ calls[c].inst \in reg /\ inst[calls[c].inst].status = "ready"
         \/ calls[c].inst \in past.reaped
    /\ calls[c].pc \in {"probe", "alive", "busy", "switch"} => calls[c].op = "acquire"
    /\ calls[c].pc = "update" => Unfinished(calls[c].inst)
    /\ calls[c].pc \in {"update", "quiesce", "quiesced"} => calls[c].op \in {"update", "quiesce"}
    /\ calls[c].op \in {"release", "quiesce", "update"} =>
         calls[c].inst # None /\ inst[calls[c].inst].status \in {"ready", "quiesced"}
    /\ calls[c].pc \in {"discard", "rmwa"} =>
         calls[c].area \in Areas /\ byArea[calls[c].area] = None

CallsServe == \A c \in Calls : Serves(c)

\* What exists of an instance that was made; nothing of one that was not.
Made(i) ==
    IF inst[i].status = "none" THEN cont[i] = "absent" /\ i \notin dirs
                               ELSE inst[i].area \in Areas

\* A place is taken by a call that creates.
Creator(i) ==
    i \in reg /\ i \notin past.lost /\ inst[i].status = "starting" =>
        \E c \in Calls : calls[c].inst = i /\ calls[c].pc \in Creating

\* The area of a finished instance is there.
Furnished(i) ==
    i \in reg /\ i \notin past.stale /\ inst[i].status # "starting" => inst[i].area \in exists

\* Directories and containers outside the register are being discarded.
Excused(i) == hub # "up" \/ i \in past.reaped \/ i \in past.lost

DirOwned(i) == i \in dirs => i \in reg \/ i \in discarding \/ Excused(i)

Attended(i) ==
    cont[i] = "running" =>
        \/ i \in reg \/ Excused(i)
        \/ \E c \in Calls : calls[c].inst = i /\ calls[c].pc = "discard"

Owned(i) == Made(i) /\ Creator(i) /\ Furnished(i) /\ DirOwned(i) /\ Attended(i)

InstancesOwned == \A i \in Instances : Owned(i)

\* A start has the containers it has still to see on its list.
StartSound ==
    /\ hub # "up" => rec.pc = "idle"
    /\ hub = "down" => reg = {}
    /\ hub = "boot" => \A i \in Instances :
         cont[i] = "running" => i \in reg \/ i \in rec.seen \/ i \in past.lost

ServeInv == RegistryInv /\ CallsServe /\ InstancesOwned /\ StartSound

(* A call that is over relies on nothing.                                    *)
LEMMA SettledServes ==
    ASSUME TypeInv, NEW c \in Calls, Settled(c)
    PROVE  Serves(c)'
<1>1. calls'[c] = [NoCall EXCEPT !.pc = "done"]
  BY DEF Settled, TypeInv, CallsTyped
<1>2. calls'[c].inst = None /\ calls'[c].pc = "done" /\ calls'[c].op = "none"
  BY <1>1 DEF NoCall
<1> QED
  BY <1>2 DEF Serves, Creating

\* What a step leaves of an instance it does not work on: its container and
\* directory may only go, and who attends to it goes on.
Attends(c, i) ==
    /\ calls[c].inst = i /\ calls[c].pc \in Creating =>
         calls'[c].inst = i /\ calls'[c].pc \in Creating
    /\ calls[c].inst = i /\ calls[c].pc = "discard" =>
         calls'[c].inst = i /\ calls'[c].pc = "discard"

Spared(i) ==
    /\ inst'[i].status = inst[i].status /\ inst'[i].area = inst[i].area
    /\ i \in reg' <=> i \in reg
    /\ cont'[i] = cont[i] \/ cont'[i] = "absent" \/ (cont[i] = "running" /\ cont'[i] = "exited")
    /\ i \in dirs' => i \in dirs /\ (i \in discarding => i \in discarding')
    /\ i \in reg /\ inst[i].area \in exists => inst[i].area \in exists'
    /\ \A c \in Calls : Attends(c, i)

\* The history only grows.
Remembered ==
    /\ past.reaped \subseteq past'.reaped /\ past.lost \subseteq past'.lost
    /\ past.stale \subseteq past'.stale

(* An instance that a step spares is owned as before.                        *)
LEMMA SparedOwned ==
    ASSUME NEW i \in Instances, Owned(i), Spared(i), Remembered, hub' = hub
    PROVE  Owned(i)'
<1> USE DEF Owned, Spared, Remembered
<1>1. Made(i)'
  BY DEF Made
<1>2. Creator(i)'
  BY DEF Creator, Attends
<1>3. Furnished(i)'
  BY DEF Furnished
<1>4. DirOwned(i)'
  BY DEF DirOwned, Excused
<1>5. Attended(i)'
  BY DEF Attended, Excused, Attends
<1> QED
  BY <1>1, <1>2, <1>3, <1>4, <1>5

-----------------------------------------------------------------------------
\* What a step of a call does to instances, places and files.

Alike(i) ==
    /\ inst'[i] = inst[i] /\ cont'[i] = cont[i]
    /\ i \in reg' <=> i \in reg
    /\ i \in dirs' <=> i \in dirs
    /\ i \in discarding' <=> i \in discarding

\* An instance a call works on is new or belongs to its area, and stays owned.
Handled(c, i) ==
    /\ inst[i].status = "none" \/ inst[i].area = calls[c].area
    /\ Owned(i)'

Elsewhere(c) ==
    \A a \in Areas : a # calls[c].area =>
        byArea'[a] = byArea[a] /\ (a \in exists' <=> a \in exists)

\* Only who has the lock changes anything.
Entitled(c) ==
    Holds(c) \/ ~Locked(calls[c].area) \/ UNCHANGED <<inst, reg, byArea, cont, dirs, exists>>

Deed(c) ==
    /\ Serves(c)' /\ Entitled(c) /\ Elsewhere(c)
    /\ \A i \in Instances : (Alike(i) /\ Attends(c, i)) \/ Handled(c, i)
    /\ \A i \in reg : inst[i].area \in exists => inst[i].area \in exists'
    /\ past'.reaped = past.reaped /\ past'.stale = past.stale
    /\ past.lost \subseteq past'.lost
    /\ rec' = rec

(* A step of a call that changes nothing but the call.                       *)
LEMMA StillDeed ==
    ASSUME NEW c \in Calls, UNCHANGED <<inst, reg, byArea, cont, dirs, exists, discarding, past, rec>>,
           Serves(c)', \A i \in Instances : Attends(c, i)
    PROVE  Deed(c)
BY DEF Deed, Alike, Elsewhere, Entitled

(* An arrival.                                                               *)
LEMMA ArrivalDeed ==
    ASSUME ServeInv, NEW c \in Calls,
           \/ \E a \in Areas, o \in Owners, s \in Shapes : Acquire(c, a, o, s)
           \/ \E op \in {"release", "quiesce", "update"}, i \in Instances : OnInstance(c, op, i)
           \/ \E op \in {"delete", "force_delete"}, a \in Areas : Delete(c, op, a)
    PROVE  Deed(c)
<1> USE DEF ServeInv, RegistryInv, TypeInv
<1>0. calls \in [Calls -> Call]
  BY DEF CallsTyped
<1>1. calls[c].pc = "idle" /\ UNCHANGED <<inst, reg, byArea, cont, dirs, exists, discarding, past, rec>>
  BY DEF Acquire, OnInstance, Delete, Arrive
<1>2. ASSUME NEW a \in Areas, NEW o \in Owners, NEW s \in Shapes, Acquire(c, a, o, s)
      PROVE  Serves(c)'
  <2>1. calls'[c].inst = None /\ calls'[c].pc = "lock" /\ calls'[c].op = "acquire"
    BY <1>0, <1>2 DEF Acquire, Arrive, NoCall
  <2> QED
    BY <2>1 DEF Serves, Creating
<1>3. ASSUME NEW op \in {"release", "quiesce", "update"}, NEW i \in Instances, OnInstance(c, op, i)
      PROVE  Serves(c)'
  <2>1. /\ calls'[c].inst = i /\ calls'[c].pc = "lock" /\ calls'[c].op = op
        /\ calls'[c].area = inst[i].area
    BY <1>0, <1>3 DEF OnInstance, Arrive, NoCall
  <2>2. inst[i].status \in {"ready", "quiesced"}
    BY <1>3 DEF OnInstance
  <2> QED
    BY <1>1, <2>1, <2>2, AreasAssumption DEF Serves, Creating
<1>4. ASSUME NEW op \in {"delete", "force_delete"}, NEW a \in Areas, Delete(c, op, a)
      PROVE  Serves(c)'
  <2>1. calls'[c].inst = None /\ calls'[c].pc = "lock" /\ calls'[c].op = op
    BY <1>0, <1>4 DEF Delete, Arrive, NoCall
  <2> QED
    BY <2>1 DEF Serves, Creating
<1>5. \A i \in Instances : Attends(c, i)
  BY <1>1 DEF Attends, Creating
<1> QED
  BY <1>1, <1>2, <1>3, <1>4, <1>5, StillDeed

(* What an area's index names is registered and belongs to the area.         *)
LEMMA FoundInArea ==
    ASSUME ServeInv, NEW a \in Areas, byArea[a] # None
    PROVE  /\ byArea[a] \in Instances /\ byArea[a] \in reg /\ inst[byArea[a]].area = a
           /\ inst[byArea[a]].status # "none"
BY DEF ServeInv, RegistryInv, TypeInv, RegistryTyped, RegistrySound, RegisteredMade

(* A registered instance belongs to an area, which names it.                 *)
LEMMA RegisteredInArea ==
    ASSUME ServeInv, NEW i \in reg
    PROVE  /\ i \in Instances /\ inst[i].status # "none"
           /\ inst[i].area \in Areas /\ byArea[inst[i].area] = i
BY DEF ServeInv, RegistryInv, TypeInv, RegistryTyped, RegistrySound, RegisteredMade,
   InstancesOwned, Owned, Made

(* A call that begins to discard the instance of its area.                   *)
LEMMA BegunDeed ==
    ASSUME ServeInv, NEW c \in Calls, NEW i \in Instances,
           inst[i].area = calls[c].area, inst[i].status # "none", calls[c].area \in Areas,
           byArea[calls[c].area] \in {None, i}, DiscardBegin(i),
           calls[c].pc \notin Creating \union {"discard"}, Entitled(c),
           calls[c].op \in {"release", "quiesce", "update"} => calls[c].inst = i,
           calls'[c].inst = i, calls'[c].pc = "discard",
           calls'[c].area = calls[c].area, calls'[c].op = calls[c].op,
           UNCHANGED <<inst, cont, dirs, exists, past, rec>>
    PROVE  Deed(c)
<1> USE DEF ServeInv
<1>1. /\ reg' = reg \ {i} /\ discarding' = discarding \union {i}
      /\ \A a \in Areas : byArea'[a] = IF i \in reg /\ a = inst[i].area /\ byArea[a] = i
                                       THEN None ELSE byArea[a]
  BY DEF DiscardBegin, Remove
<1>2. byArea'[calls[c].area] = None
  BY RemoveEmpties DEF DiscardBegin
<1>3. Serves(c)'
  BY <1>2 DEF Serves, Creating, CallsServe
<1>4. Owned(i)'
  <2>1. Made(i)'
    BY DEF InstancesOwned, Owned, Made
  <2>2. Creator(i)' /\ Furnished(i)' /\ DirOwned(i)'
    BY <1>1 DEF Creator, Furnished, DirOwned
  <2>3. Attended(i)'
    BY DEF Attended
  <2> QED
    BY <2>1, <2>2, <2>3 DEF Owned
<1>5. \A j \in Instances : (Alike(j) /\ Attends(c, j)) \/ Handled(c, j)
  BY <1>1, <1>4 DEF Alike, Attends, Handled
<1>6. Elsewhere(c)
  BY <1>1 DEF Elsewhere
<1> QED
  BY <1>3, <1>5, <1>6 DEF Deed

(* A new instance is owned by the call that creates it.                      *)
LEMMA NewOwned ==
    ASSUME NEW c \in Calls, NEW j \in Instances, calls'[c].inst = j, calls'[c].pc = "create",
           calls'[c].op = "acquire", calls'[c].area \in Areas,
           inst'[j].area = calls'[c].area, inst'[j].status = "starting",
           j \in reg', cont'[j] = "absent", j \notin dirs'
    PROVE  Owned(j)' /\ Serves(c)'
<1>1. Made(j)' /\ Creator(j)' /\ Furnished(j)' /\ DirOwned(j)' /\ Attended(j)'
  BY DEF Made, Creator, Furnished, DirOwned, Attended, Creating
<1>2. Serves(c)'
  BY DEF Serves, Unfinished, Creating
<1> QED
  BY <1>1, <1>2 DEF Owned

(* An acquire that reserves: refused, or with a new instance of its own.     *)
LEMMA ReservedCall ==
    ASSUME ServeInv, NEW c \in Calls, NEW known \in [Instances -> Instance], Reserve(c, known)
    PROVE  \/ Settled(c) /\ inst' = known /\ UNCHANGED <<reg, byArea>>
           \/ \E j \in Instances :
                /\ inst'[j].status = "starting" /\ inst'[j].area = calls[c].area
                /\ \A i \in Instances : i # j => inst'[i] = known[i]
                /\ Enter(j, calls[c].area) /\ inst[j].status = "none"
                /\ calls'[c].inst = j /\ calls'[c].pc = "create"
                /\ calls'[c].area = calls[c].area /\ calls'[c].op = calls[c].op
<1>1. calls \in [Calls -> Call] /\ calls[c] \in Call
  BY DEF ServeInv, RegistryInv, TypeInv, CallsTyped
<1>2. CASE Settled(c) /\ inst' = known /\ UNCHANGED <<reg, byArea>>
  BY <1>2
<1>3. ASSUME NEW j \in Instances, inst[j].status = "none",
             inst' = [known EXCEPT ![j] = [NoInst EXCEPT !.area = calls[c].area,
                        !.owner = calls[c].owner, !.shape = calls[c].shape, !.status = "starting"]],
             Enter(j, calls[c].area),
             calls' = [calls EXCEPT ![c].inst = j, ![c].pc = "create"]
      PROVE  /\ inst'[j].status = "starting" /\ inst'[j].area = calls[c].area
             /\ \A i \in Instances : i # j => inst'[i] = known[i]
             /\ calls'[c].inst = j /\ calls'[c].pc = "create"
             /\ calls'[c].area = calls[c].area /\ calls'[c].op = calls[c].op
  BY <1>1, <1>3 DEF NoInst, Call
<1> QED
  BY <1>2, <1>3 DEF Reserve

(* The lock is granted to a call.                                            *)
LEMMA LockDeed ==
    ASSUME ServeInv, NEW c \in Calls, Lock(c)
    PROVE  Deed(c)
<1> USE DEF ServeInv, RegistryInv, TypeInv
<1>0. calls \in [Calls -> Call] /\ calls[c] \in Call
  BY DEF CallsTyped
<1>1. /\ calls[c].pc = "lock" /\ ~Locked(calls[c].area)
      /\ UNCHANGED <<cont, dirs, exists, rec, past>>
  BY DEF Lock
<1>2. Entitled(c) /\ \A i \in Instances : Attends(c, i)
  BY <1>1 DEF Entitled, Attends, Creating
<1>3. ASSUME UNCHANGED <<inst, reg, byArea, discarding>>, Serves(c)' PROVE Deed(c)
  BY <1>1, <1>2, <1>3, StillDeed
<1>4. ASSUME Settled(c), UNCHANGED <<inst, reg, byArea, discarding>> PROVE Deed(c)
  BY <1>3, <1>4, SettledServes
<1>5. \A pc : Reach(c, pc) => /\ calls'[c].inst = calls[c].inst /\ calls'[c].pc = pc
                              /\ calls'[c].area = calls[c].area /\ calls'[c].op = calls[c].op
  BY <1>0 DEF Reach, Call
<1>6. \A i, pc : calls' = [calls EXCEPT ![c].inst = i, ![c].pc = pc] =>
                   /\ calls'[c].inst = i /\ calls'[c].pc = pc
                   /\ calls'[c].area = calls[c].area /\ calls'[c].op = calls[c].op
  BY <1>0 DEF Call
<1>7. calls[c].pc \notin Creating \union {"discard"}
  BY <1>1 DEF Creating
<1>8. CASE LockAcquire(c)
  <2> DEFINE e == byArea[calls[c].area]
  <2>0. calls[c].area \in Areas /\ calls[c].op = "acquire"
    BY <1>8 DEF LockAcquire, CallsTyped, OnArea
  <2>1. CASE Settled(c) /\ UNCHANGED <<inst, reg, byArea, discarding>>
    BY <1>4, <2>1
  <2>2. CASE e = None /\ Reserve(c, inst) /\ UNCHANGED discarding
    <3>1. CASE Settled(c) /\ UNCHANGED <<inst, reg, byArea>>
      BY <1>4, <2>2, <3>1
    <3>2. ASSUME NEW j \in Instances, inst'[j].status = "starting", inst'[j].area = calls[c].area,
                 \A i \in Instances : i # j => inst'[i] = inst[i],
                 Enter(j, calls[c].area), inst[j].status = "none",
                 calls'[c].inst = j, calls'[c].pc = "create",
                 calls'[c].area = calls[c].area, calls'[c].op = calls[c].op
          PROVE  Deed(c)
      <4>1. reg' = reg \union {j} /\ byArea' = [byArea EXCEPT ![calls[c].area] = j]
        BY <3>2 DEF Enter
      <4>2. cont[j] = "absent" /\ j \notin dirs
        BY <3>2 DEF InstancesOwned, Owned, Made
      <4>3. Owned(j)' /\ Serves(c)'
        BY <1>1, <2>0, <3>2, <4>1, <4>2, NewOwned
      <4>4. \A i \in Instances : (Alike(i) /\ Attends(c, i)) \/ Handled(c, i)
        BY <1>1, <1>2, <2>2, <3>2, <4>1, <4>3 DEF Alike, Handled
      <4>5. Elsewhere(c)
        BY <1>1, <4>1 DEF Elsewhere, RegistryTyped
      <4> QED
        BY <1>1, <1>2, <4>3, <4>4, <4>5 DEF Deed
    <3>3. inst \in [Instances -> Instance]
      BY DEF RegistryTyped
    <3> QED
      BY <2>2, <3>1, <3>2, <3>3, ReservedCall
  <2>3. CASE /\ e # None /\ inst[e].status = "ready"
             /\ calls' = [calls EXCEPT ![c].inst = e, ![c].pc = "probe"]
             /\ UNCHANGED <<inst, reg, byArea, discarding>>
    <3>1. e \in reg /\ inst[e].area = calls[c].area
      BY <2>0, <2>3, FoundInArea
    <3>2. /\ calls'[c].inst = e /\ calls'[c].pc = "probe"
          /\ calls'[c].area = calls[c].area /\ calls'[c].op = "acquire"
      BY <1>6, <2>0, <2>3
    <3>3. Serves(c)'
      BY <2>3, <3>1, <3>2 DEF Serves, Creating
    <3> QED
      BY <1>3, <2>3, <3>3
  <2>4. CASE /\ e # None /\ calls' = [calls EXCEPT ![c].inst = e, ![c].pc = "discard"]
             /\ DiscardBegin(e) /\ UNCHANGED inst
    <3>1. e \in Instances /\ inst[e].area = calls[c].area /\ inst[e].status # "none"
      BY <2>0, <2>4, FoundInArea
    <3>2. /\ calls'[c].inst = e /\ calls'[c].pc = "discard"
          /\ calls'[c].area = calls[c].area /\ calls'[c].op = calls[c].op
      BY <1>6, <2>4
    <3> HIDE DEF e
    <3> QED
      BY <1>1, <1>2, <1>7, <2>0, <2>4, <3>1, <3>2, BegunDeed DEF e
  <2> QED
    BY <1>8, <2>1, <2>2, <2>3, <2>4 DEF LockAcquire
<1>9. CASE LockInstance(c)
  <2> DEFINE i == calls[c].inst
  <2>0. calls[c].op \in {"release", "quiesce", "update"} /\ UNCHANGED inst
    BY <1>9 DEF LockInstance
  <2>1. i # None /\ i \in Instances /\ inst[i].status \in {"ready", "quiesced"}
         /\ inst[i].area = calls[c].area
    BY <1>0, <2>0 DEF CallsServe, Serves, Call
  <2>2. CASE Settled(c) /\ UNCHANGED <<reg, byArea, discarding>>
    BY <1>4, <2>0, <2>2
  <2>3. CASE i \in reg /\ Reach(c, "discard") /\ DiscardBegin(i)
    <3>1. calls[c].area \in Areas /\ byArea[calls[c].area] = i
      BY <2>1, <2>3, RegisteredInArea
    <3>2. /\ calls'[c].inst = i /\ calls'[c].pc = "discard"
          /\ calls'[c].area = calls[c].area /\ calls'[c].op = calls[c].op
      BY <1>5, <2>3
    <3> HIDE DEF i
    <3> QED
      BY <1>1, <1>2, <1>7, <2>0, <2>1, <2>3, <3>1, <3>2, BegunDeed DEF i
  <2>4. CASE i \in reg /\ Reach(c, calls[c].op) /\ UNCHANGED <<reg, byArea, discarding>>
             /\ calls[c].op \in {"quiesce", "update"}
    <3>1. /\ calls'[c].inst = i /\ calls'[c].pc = calls[c].op
          /\ calls'[c].area = calls[c].area /\ calls'[c].op = calls[c].op
      BY <1>5, <2>4
    <3>2. Serves(c)'
      BY <2>0, <2>1, <2>4, <3>1 DEF Serves, Creating, Unfinished
    <3> QED
      BY <1>3, <2>0, <2>4, <3>2
  <2> QED
    BY <1>9, <2>2, <2>3, <2>4 DEF LockInstance
<1>10. CASE LockDelete(c)
  <2> DEFINE e == byArea[calls[c].area]
  <2>0. calls[c].area \in Areas /\ calls[c].op \in {"delete", "force_delete"} /\ UNCHANGED inst
    BY <1>10 DEF LockDelete, CallsTyped, OnArea
  <2>1. CASE e = None /\ Reach(c, "rmwa") /\ UNCHANGED <<reg, byArea, discarding>>
    <3>1. /\ calls'[c].inst = calls[c].inst /\ calls'[c].pc = "rmwa"
          /\ calls'[c].area = calls[c].area /\ calls'[c].op = calls[c].op
      BY <1>5, <2>1
    <3>2. Serves(c)'
      BY <2>0, <2>1, <3>1 DEF Serves, Creating, CallsServe
    <3> QED
      BY <1>3, <2>0, <2>1, <3>2
  <2>2. CASE Settled(c) /\ UNCHANGED <<reg, byArea, discarding>>
    BY <1>4, <2>0, <2>2
  <2>3. CASE /\ e # None /\ calls' = [calls EXCEPT ![c].inst = e, ![c].pc = "discard"]
             /\ DiscardBegin(e)
    <3>1. e \in Instances /\ inst[e].area = calls[c].area /\ inst[e].status # "none"
      BY <2>0, <2>3, FoundInArea
    <3>2. /\ calls'[c].inst = e /\ calls'[c].pc = "discard"
          /\ calls'[c].area = calls[c].area /\ calls'[c].op = calls[c].op
      BY <1>6, <2>3
    <3> HIDE DEF e
    <3> QED
      BY <1>1, <1>2, <1>7, <2>0, <2>3, <3>1, <3>2, BegunDeed DEF e
  <2> QED
    BY <1>10, <2>1, <2>2, <2>3 DEF LockDelete
<1> QED
  BY <1>8, <1>9, <1>10 DEF Lock

(* A call that only changes what it has mounted, or that goes on with its    *)
(* work on the same instance, serves as before.                              *)
LEMMA SameServes ==
    ASSUME NEW c \in Calls, Serves(c), UNCHANGED <<inst, reg, byArea, cont, exists, past>>,
           calls'[c].op = calls[c].op, calls'[c].area = calls[c].area,
           calls'[c].inst = calls[c].inst, calls'[c].pc = calls[c].pc
    PROVE  Serves(c)' /\ \A i : Attends(c, i)
BY DEF Serves, Unfinished, Attends

(* A call that looks at the instance it has found, or gives it up.           *)
LEMMA ReuseDeed ==
    ASSUME ServeInv, NEW c \in Calls, Reuse(c)
    PROVE  Deed(c)
<1> USE DEF ServeInv, RegistryInv, TypeInv
<1>0. calls \in [Calls -> Call] /\ calls[c] \in Call
  BY DEF CallsTyped
<1>1. calls[c].pc \in {"probe", "alive", "busy", "switch"} /\ rec' = rec
  BY DEF Reuse
<1>2. /\ Serves(c) /\ calls[c].op = "acquire" /\ calls[c].area \in Areas
      /\ calls[c].inst \in Instances /\ calls[c].inst # None
  BY <1>1, AreasAssumption DEF CallsServe, Serves, CallsTyped, OnArea, Working
<1>3. \A i \in Instances : Attends(c, i)
  BY <1>1 DEF Attends, Creating
<1>4. \A pc : Reach(c, pc) => /\ calls'[c].inst = calls[c].inst /\ calls'[c].pc = pc
                              /\ calls'[c].area = calls[c].area /\ calls'[c].op = calls[c].op
  BY <1>0 DEF Reach, Call
<1>5. CASE Settled(c) /\ UNCHANGED <<still, past>>
  BY <1>1, <1>3, <1>5, SettledServes, StillDeed DEF still
<1>6. ASSUME NEW pc \in {"alive", "busy", "switch", "answered"}, Reach(c, pc),
             UNCHANGED <<still, past>>
      PROVE  Deed(c)
  <2>1. Serves(c)'
    BY <1>1, <1>2, <1>4, <1>6 DEF Serves, Creating, still
  <2> QED
    BY <1>1, <1>3, <1>6, <2>1, StillDeed DEF still
<1>7. CASE Rebuild(c) /\ calls[c].pc \in {"probe", "alive", "busy"}
  <2>1. /\ calls'[c].inst = calls[c].inst /\ calls'[c].pc = "discard"
        /\ calls'[c].area = calls[c].area /\ calls'[c].op = calls[c].op
    BY <1>4, <1>7 DEF Rebuild
  <2>2. /\ inst[calls[c].inst].area = calls[c].area /\ inst[calls[c].inst].status # "none"
        /\ byArea[calls[c].area] \in {None, calls[c].inst}
    BY <1>2, <1>7 DEF Serves, PlaceKept
  <2>3. Entitled(c) /\ calls[c].pc \notin Creating \union {"discard"}
    BY <1>7 DEF Entitled, Holds, Creating
  <2> QED
    BY <1>1, <1>2, <1>7, <2>1, <2>2, <2>3, BegunDeed DEF Rebuild
<1> QED
  BY <1>1, <1>5, <1>6, <1>7 DEF Reuse

(* What has been discarded is owned: it has neither place nor directory, and *)
(* its container is gone or lost.                                            *)
LEMMA EndedOwned ==
    ASSUME NEW i \in Instances, Made(i), inst[i].status # "none",
           inst'[i].status = inst[i].status, inst'[i].area = inst[i].area,
           i \notin reg', i \notin dirs', cont'[i] # "running" \/ i \in past'.lost
    PROVE  Owned(i)'
BY DEF Owned, Made, Creator, Furnished, DirOwned, Attended, Excused

(* The discard a call began comes to its end.                                *)
LEMMA DiscardedDeed ==
    ASSUME ServeInv, NEW c \in Calls, Discarded(c)
    PROVE  Deed(c)
<1> USE DEF ServeInv, RegistryInv, TypeInv
<1> PICK i \in Instances : i = calls[c].inst /\ i # None
  BY AreasAssumption DEF Discarded, CallsTyped, Working
<1>0. calls \in [Calls -> Call] /\ calls[c] \in Call /\ inst \in [Instances -> Instance]
      /\ past \in History
  BY DEF CallsTyped, RegistryTyped, ProcessTyped
<1>1. calls[c].pc = "discard" /\ UNCHANGED <<exists, rec>>
  BY DEF Discarded
<1>2. inst[i].area = calls[c].area /\ inst[i].status # "none" /\ byArea[calls[c].area] = None
  BY <1>1 DEF CallsServe, Serves
<1>3. Made(i) /\ calls[c].area \in Areas
  BY <1>1, <1>2 DEF InstancesOwned, Owned, Made
<1>4. i \notin reg
  BY <1>1, <1>2, <1>3, RegisteredInArea
<1>5. PICK gone \in BOOLEAN : DiscardEnd(i, gone) /\ Forgive(gone \/ cont[i] = "absent", i)
  BY DEF Discarded
<1>6. /\ cont' = [cont EXCEPT ![i] = IF gone THEN "absent" ELSE @]
      /\ dirs' = dirs \ {i} /\ discarding' = discarding \ {i}
  BY <1>5 DEF DiscardEnd
<1>7. /\ past'.reaped = past.reaped /\ past'.stale = past.stale /\ past.lost \subseteq past'.lost
      /\ gone \/ cont[i] = "absent" \/ i \in past'.lost
  BY <1>0, <1>5 DEF Forgive, Lose, History
<1>8. cont'[i] = "absent" \/ i \in past'.lost
  BY <1>1, <1>6, <1>7 DEF DiskTyped
<1>9. Unheld(i) \in [Instances -> Instance]
      /\ Unheld(i)[i].status = inst[i].status /\ Unheld(i)[i].area = inst[i].area
      /\ \A k \in Instances : k # i => Unheld(i)[k] = inst[k]
  <2>1. Unheld(i)[i] = [inst[i] EXCEPT !.held = FALSE]
    BY <1>0 DEF Unheld
  <2>2. \A k \in Instances : k # i => Unheld(i)[k] = inst[k]
    BY <1>0 DEF Unheld
  <2>3. inst[i] \in Instance
    BY <1>0
  <2> QED
    BY <2>1, <2>2, <2>3, UnheldTyped DEF Instance, RegistryTyped
<1>10. Entitled(c)
  BY <1>1 DEF Entitled, Holds
<1>11. \A k \in Instances : k # i => Attends(c, k)
  BY DEF Attends
<1>12. ASSUME inst' = Unheld(i), UNCHANGED <<reg, byArea>>, Serves(c)' PROVE Deed(c)
  <2>0. /\ inst'[i].status = inst[i].status /\ inst'[i].area = inst[i].area
        /\ \A k \in Instances : k # i => inst'[k] = inst[k]
    BY <1>9, <1>12
  <2>1. Owned(i)'
    <3>1. i \notin reg' /\ i \notin dirs' /\ (cont'[i] # "running" \/ i \in past'.lost)
      BY <1>4, <1>6, <1>8, <1>12
    <3> QED
      BY <1>1, <1>2, <1>3, <2>0, <3>1, EndedOwned
  <2>2. \A k \in Instances : (Alike(k) /\ Attends(c, k)) \/ Handled(c, k)
    BY <1>2, <1>6, <1>11, <1>12, <2>0, <2>1 DEF Alike, Handled, DiskTyped
  <2> QED
    BY <1>1, <1>7, <1>10, <1>12, <2>2 DEF Deed, Elsewhere
<1>13. CASE calls[c].op = "acquire"
  <2>1. Reserve(c, Unheld(i))
    BY <1>13 DEF Discarded
  <2>2. CASE Settled(c) /\ inst' = Unheld(i) /\ UNCHANGED <<reg, byArea>>
    BY <1>12, <2>2, SettledServes
  <2>3. ASSUME NEW j \in Instances, inst'[j].status = "starting", inst'[j].area = calls[c].area,
               \A k \in Instances : k # j => inst'[k] = Unheld(i)[k],
               Enter(j, calls[c].area), inst[j].status = "none",
               calls'[c].inst = j, calls'[c].pc = "create",
               calls'[c].area = calls[c].area, calls'[c].op = calls[c].op
        PROVE  Deed(c)
    <3>1. reg' = reg \union {j} /\ byArea' = [byArea EXCEPT ![calls[c].area] = j] /\ i # j
      BY <1>2, <2>3 DEF Enter
    <3>2. cont'[j] = "absent" /\ j \notin dirs'
      BY <1>6, <2>3, <3>1 DEF InstancesOwned, Owned, Made, DiskTyped
    <3>3. Owned(j)' /\ Serves(c)'
      BY <1>3, <1>13, <2>3, <3>1, <3>2, NewOwned
    <3>4. /\ inst'[i].status = inst[i].status /\ inst'[i].area = inst[i].area
          /\ \A k \in Instances : k # i /\ k # j => inst'[k] = inst[k]
      BY <1>1, <1>9, <2>3, <3>1
    <3>5. Owned(i)'
      <4>1. i \notin reg' /\ i \notin dirs' /\ (cont'[i] # "running" \/ i \in past'.lost)
        BY <1>4, <1>6, <1>8, <3>1
      <4> QED
        BY <1>1, <1>2, <1>3, <3>4, <4>1, EndedOwned
    <3>6. \A k \in Instances : (Alike(k) /\ Attends(c, k)) \/ Handled(c, k)
      BY <1>2, <1>6, <1>11, <2>3, <3>1, <3>3, <3>4, <3>5 DEF Alike, Handled, DiskTyped
    <3>7. Elsewhere(c)
      BY <1>1, <3>1 DEF Elsewhere, RegistryTyped
    <3> QED
      BY <1>1, <1>7, <1>10, <3>3, <3>6, <3>7 DEF Deed
  <2> QED
    BY <1>9, <2>1, <2>2, <2>3, ReservedCall
<1>14. CASE calls[c].op # "acquire"
  <2>1. inst' = Unheld(i) /\ UNCHANGED <<reg, byArea>>
    BY <1>14 DEF Discarded
  <2>2. CASE Settled(c)
    BY <1>12, <2>1, <2>2, SettledServes
  <2>3. CASE Reach(c, "rmwa") /\ calls[c].op # "release"
    <3>1. /\ calls'[c].inst = i /\ calls'[c].pc = "rmwa"
          /\ calls'[c].area = calls[c].area /\ calls'[c].op = calls[c].op
      BY <1>0, <2>3 DEF Reach, Call
    <3>2. Serves(c)'
      BY <1>1, <1>2, <1>3, <1>9, <2>1, <3>1 DEF Serves, Creating, CallsServe
    <3> QED
      BY <1>12, <2>1, <3>2
  <2> QED
    BY <1>14, <2>2, <2>3 DEF Discarded
<1> QED
  BY <1>13, <1>14

(* An instance that is on the register or was taken off by the reconciler    *)
(* is owned if its status is accounted for.                                  *)
LEMMA UnfinishedOwned ==
    ASSUME NEW i \in Instances, Unfinished(i)', inst'[i].area \in Areas, inst'[i].status # "none",
           \/ inst'[i].status = "starting" /\ \E c \in Calls : calls'[c].inst = i /\ calls'[c].pc \in Creating
           \/ inst'[i].status # "starting" /\ (i \in reg' /\ i \notin past'.stale => inst'[i].area \in exists')
    PROVE  Owned(i)'
BY DEF Unfinished, Owned, Made, Creator, Furnished, DirOwned, Attended, Excused

(* A call that goes on to the next step of its work.                         *)
LEMMA ReachGives ==
    ASSUME CallsTyped, NEW c \in Calls, NEW pc, Reach(c, pc)
    PROVE  /\ calls'[c].inst = calls[c].inst /\ calls'[c].pc = pc
           /\ calls'[c].area = calls[c].area /\ calls'[c].op = calls[c].op
BY DEF Reach, Call, CallsTyped

(* The steps of a creation that change only its own instance.                *)
LEMMA CreationDeed ==
    ASSUME ServeInv, NEW c \in Calls, CreateDirs(c) \/ Mounted(c) \/ Start(c) \/ Started(c)
    PROVE  Deed(c)
<1> USE DEF ServeInv, RegistryInv, TypeInv
<1>0. calls \in [Calls -> Call] /\ calls[c] \in Call /\ inst \in [Instances -> Instance]
      /\ cont \in [Instances -> {"absent", "running", "exited"}]
  BY DEF CallsTyped, RegistryTyped, DiskTyped
<1>1. /\ calls[c].pc \in Creating
      /\ UNCHANGED <<reg, byArea, discarding, past, rec>>
  BY DEF CreateDirs, Mounted, Start, Started, Creating
<1> PICK i \in Instances : i = calls[c].inst /\ i # None
  BY <1>1, AreasAssumption DEF CallsTyped, Working
<1>2. /\ Serves(c) /\ inst[i].area = calls[c].area /\ inst[i].status = "starting" /\ Unfinished(i)
      /\ calls[c].area \in Areas /\ calls[c].op = "acquire"
  BY <1>1 DEF CallsServe, Serves, CallsTyped, OnArea
<1>3. Entitled(c) /\ \A k \in Instances : k # i => Attends(c, k)
  BY <1>1 DEF Entitled, Holds, Creating, Attends
<1>4. Unfinished(i)'
  BY <1>1, <1>2 DEF Unfinished
<1>5. ASSUME Serves(c)', Owned(i)', inst'[i].area = inst[i].area,
             \A k \in Instances : k # i => Alike(k),
             \A a \in Areas : (a \in exists => a \in exists') /\ (a # calls[c].area => (a \in exists' <=> a \in exists))
      PROVE  Deed(c)
  <2>1. \A k \in Instances : (Alike(k) /\ Attends(c, k)) \/ Handled(c, k)
    BY <1>2, <1>3, <1>5 DEF Handled
  <2>2. \A k \in reg : inst[k].area \in exists => inst[k].area \in exists'
    BY <1>5, RegisteredInArea
  <2> QED
    BY <1>1, <1>3, <1>5, <2>1, <2>2 DEF Deed, Elsewhere
<1>6. CASE CreateDirs(c)
  <2>1. /\ calls'[c].inst = i /\ calls'[c].pc = "mount"
        /\ calls'[c].area = calls[c].area /\ calls'[c].op = "acquire"
    BY <1>0, <1>2, <1>6 DEF CreateDirs, Call
  <2>2. /\ UNCHANGED <<inst, cont>> /\ dirs' = dirs \union {i}
        /\ exists' = exists \union {calls[c].area} /\ calls[c].pc = "create"
    BY <1>6 DEF CreateDirs
  <2>3. Serves(c)'
    BY <1>1, <1>2, <2>1, <2>2 DEF Serves, Creating, Unfinished
  <2>4. Owned(i)'
    BY <1>2, <1>4, <2>1, <2>2, UnfinishedOwned DEF Creating
  <2> QED
    BY <1>1, <1>5, <2>2, <2>3, <2>4 DEF Alike
<1>7. CASE Mounted(c)
  <2>1. /\ calls'[c].inst = i /\ calls'[c].pc = "start"
        /\ calls'[c].area = calls[c].area /\ calls'[c].op = "acquire"
    BY <1>0, <1>2, <1>7 DEF Mounted, Call
  <2>2. /\ UNCHANGED <<cont, dirs, exists>> /\ calls[c].pc = "mount"
        /\ inst'[i].area = inst[i].area /\ inst'[i].status = inst[i].status
        /\ \A k \in Instances : k # i => inst'[k] = inst[k]
    BY <1>0, <1>7 DEF Mounted, Instance
  <2>3. Serves(c)'
    BY <1>1, <1>2, <2>1, <2>2 DEF Serves, Creating, Unfinished
  <2>4. Owned(i)'
    BY <1>2, <1>4, <2>1, <2>2, UnfinishedOwned DEF Creating
  <2> QED
    BY <1>1, <1>5, <2>2, <2>3, <2>4 DEF Alike
<1>8. CASE Start(c)
  <2>1. /\ calls'[c].inst = i /\ calls'[c].pc = "wait"
        /\ calls'[c].area = calls[c].area /\ calls'[c].op = "acquire"
    BY <1>2, <1>8, ReachGives DEF Start
  <2>2. /\ UNCHANGED <<inst, dirs, exists>> /\ calls[c].pc = "start"
        /\ \A k \in Instances : k # i => cont'[k] = cont[k]
    BY <1>0, <1>8 DEF Start
  <2>3. Serves(c)'
    BY <1>1, <1>2, <2>1, <2>2 DEF Serves, Creating, Unfinished
  <2>4. Owned(i)'
    BY <1>2, <1>4, <2>1, <2>2, UnfinishedOwned DEF Creating
  <2> QED
    BY <1>1, <1>5, <2>2, <2>3, <2>4 DEF Alike
<1>9. CASE Started(c)
  <2>1. /\ calls'[c].inst = i /\ calls'[c].pc = "answered"
        /\ calls'[c].area = calls[c].area /\ calls'[c].op = "acquire"
    BY <1>2, <1>9, ReachGives DEF Started
  <2>2. /\ UNCHANGED <<cont, dirs, exists>> /\ calls[c].pc = "wait"
        /\ inst'[i].area = inst[i].area /\ inst'[i].status = "ready"
        /\ \A k \in Instances : k # i => inst'[k] = inst[k]
    BY <1>0, <1>9 DEF Started, Instance
  <2>3. Serves(c)'
    BY <1>1, <1>2, <2>1, <2>2 DEF Serves, Creating, Unfinished
  <2>4. Owned(i)'
    BY <1>2, <1>4, <2>1, <2>2, UnfinishedOwned DEF Creating, Serves
  <2> QED
    BY <1>1, <1>5, <2>2, <2>3, <2>4 DEF Alike
<1> QED
  BY <1>6, <1>7, <1>8, <1>9

(* A creation that fails is undone at once.                                  *)
LEMMA UndoneDeed ==
    ASSUME ServeInv, NEW c \in Calls, RollBack(c) \/ CreateFails(c)
    PROVE  Deed(c)
<1> USE DEF ServeInv, RegistryInv, TypeInv
<1>0. /\ calls \in [Calls -> Call] /\ inst \in [Instances -> Instance] /\ past \in History
      /\ cont \in [Instances -> {"absent", "running", "exited"}]
  BY DEF CallsTyped, RegistryTyped, ProcessTyped, DiskTyped
<1>1. /\ calls[c].pc \in Creating /\ Settled(c)
      /\ UNCHANGED <<discarding, exists, rec>>
  BY DEF RollBack, CreateFails, DiscardNow, Creating
<1> PICK i \in Instances : i = calls[c].inst /\ i # None
  BY <1>1, AreasAssumption DEF CallsTyped, Working
<1>2. /\ Serves(c) /\ Made(i) /\ inst[i].area = calls[c].area /\ inst[i].status # "none"
  BY <1>1 DEF CallsServe, Serves, InstancesOwned, Owned
<1>3. Entitled(c) /\ Serves(c)' /\ \A k \in Instances : k # i => Attends(c, k)
  BY <1>1, SettledServes DEF Entitled, Holds, Creating, Attends
<1>4. Remove(i) /\ inst' = Unheld(i) /\ dirs' = dirs \ {i}
  BY DEF RollBack, CreateFails, DiscardNow
<1>5. /\ reg' = reg \ {i}
      /\ \A a \in Areas : a # inst[i].area => byArea'[a] = byArea[a]
  BY <1>4 DEF Remove
<1>6. /\ inst'[i].status = inst[i].status /\ inst'[i].area = inst[i].area
      /\ \A k \in Instances : k # i => inst'[k] = inst[k]
  BY <1>0, <1>4 DEF Unheld, Instance
<1>7. /\ past'.reaped = past.reaped /\ past'.stale = past.stale /\ past.lost \subseteq past'.lost
      /\ cont'[i] # "running" \/ i \in past'.lost
      /\ \A k \in Instances : k # i => cont'[k] = cont[k]
  <2>1. CASE RollBack(c)
    BY <1>2, <2>1 DEF RollBack, Serves
  <2>2. CASE CreateFails(c)
    BY <1>0, <2>2 DEF CreateFails, Forgive, Lose, History
  <2> QED
    BY <2>1, <2>2
<1>8. Owned(i)'
  BY <1>2, <1>4, <1>5, <1>6, <1>7, EndedOwned
<1>9. \A k \in Instances : (Alike(k) /\ Attends(c, k)) \/ Handled(c, k)
  BY <1>1, <1>2, <1>3, <1>4, <1>5, <1>6, <1>7, <1>8 DEF Alike, Handled
<1> QED
  BY <1>1, <1>2, <1>3, <1>5, <1>7, <1>9 DEF Deed, Elsewhere

(* A cancelled call: the mounts are told to stop, anything later is lost.    *)
LEMMA CancelDeed ==
    ASSUME ServeInv, NEW c \in Calls, Cancel(c)
    PROVE  Deed(c)
<1> USE DEF ServeInv, RegistryInv, TypeInv
<1>0. /\ calls \in [Calls -> Call] /\ past \in History
      /\ cont \in [Instances -> {"absent", "running", "exited"}]
  BY DEF CallsTyped, ProcessTyped, DiskTyped
<1>1. UNCHANGED <<inst, reg, byArea, dirs, exists, rec>> /\ Serves(c)
  BY DEF Cancel, CallsServe
<1>2. CASE calls[c].pc = "mount"
  <2>1. /\ UNCHANGED <<past, cont, discarding>>
        /\ calls'[c].op = calls[c].op /\ calls'[c].area = calls[c].area
        /\ calls'[c].inst = calls[c].inst /\ calls'[c].pc = calls[c].pc
    BY <1>0, <1>2 DEF Cancel, Call
  <2> QED
    BY <1>1, <2>1, SameServes, StillDeed
<1>3. CASE calls[c].pc \in {"create", "start", "wait", "discard"}
  <2> PICK i \in Instances : i = calls[c].inst /\ i # None
    BY <1>3, AreasAssumption DEF CallsTyped, Working, Creating
  <2>1. /\ Settled(c) /\ Lose(i)
        /\ \A k \in Instances : k # i => cont'[k] = cont[k] /\ (k \in discarding' <=> k \in discarding)
    BY <1>0, <1>3 DEF Cancel
  <2>2. /\ past'.reaped = past.reaped /\ past'.stale = past.stale /\ past.lost \subseteq past'.lost
        /\ i \in past'.lost
    BY <1>0, <2>1 DEF Lose, History
  <2>3. inst[i].area = calls[c].area /\ inst[i].status # "none" /\ Owned(i)
    BY <1>1 DEF Serves, InstancesOwned
  <2>4. Owned(i)'
    BY <1>1, <2>2, <2>3 DEF Owned, Made, Creator, Furnished, DirOwned, Attended, Excused
  <2>5. Entitled(c) /\ \A k \in Instances : k # i => Attends(c, k)
    BY <1>3 DEF Entitled, Holds, Attends
  <2>6. \A k \in Instances : (Alike(k) /\ Attends(c, k)) \/ Handled(c, k)
    BY <1>1, <2>1, <2>3, <2>4, <2>5 DEF Alike, Handled
  <2>7. Serves(c)'
    BY <2>1, SettledServes
  <2> QED
    BY <1>1, <2>2, <2>5, <2>6, <2>7 DEF Deed, Elsewhere
<1> QED
  BY <1>2, <1>3 DEF Cancel

(* The mounts of a creation.                                                 *)
LEMMA MountingDeed ==
    ASSUME ServeInv, NEW c \in Calls, NEW k \in MountKeys, MountOne(c, k) \/ MountOver(c, k)
    PROVE  Deed(c)
<1>1. calls \in [Calls -> Call] /\ Serves(c)
  BY DEF ServeInv, RegistryInv, TypeInv, CallsTyped, CallsServe
<1>2. /\ UNCHANGED <<inst, reg, byArea, cont, dirs, exists, discarding, past, rec>>
      /\ calls'[c].op = calls[c].op /\ calls'[c].area = calls[c].area
      /\ calls'[c].inst = calls[c].inst /\ calls'[c].pc = calls[c].pc
  BY <1>1 DEF MountOne, MountOver, still, Call
<1> QED
  BY <1>1, <1>2, SameServes, StillDeed

(* A call that quiesces or updates its instance.                             *)
LEMMA TendedDeed ==
    ASSUME ServeInv, NEW c \in Calls, Quiesce(c) \/ Update(c), hub' = hub
    PROVE  Deed(c)
<1> USE DEF ServeInv, RegistryInv, TypeInv
<1>0. /\ calls \in [Calls -> Call] /\ inst \in [Instances -> Instance]
      /\ cont \in [Instances -> {"absent", "running", "exited"}]
  BY DEF CallsTyped, RegistryTyped, DiskTyped
<1>1. /\ calls[c].pc \in {"quiesce", "quiesced", "update"} /\ Serves(c)
      /\ UNCHANGED <<reg, byArea, exists, discarding, rec, past>>
  BY DEF Quiesce, Update, CallsServe
<1> PICK i \in Instances : i = calls[c].inst /\ i # None
  BY <1>1, AreasAssumption DEF CallsTyped, Working
<1>2. /\ inst[i].area = calls[c].area /\ inst[i].status \in {"ready", "quiesced"} /\ Owned(i)
  BY <1>1 DEF Serves, InstancesOwned
<1>3. inst[i].area \in Areas /\ (i \in reg /\ i \notin past.stale => inst[i].area \in exists)
  BY <1>2 DEF Owned, Made, Furnished
<1>4. Entitled(c) /\ \A d \in Calls : d # c => calls'[d] = calls[d]
  BY <1>0, <1>1 DEF Entitled, Holds, Quiesce, Update, Reach, Settled
<1>5. \A k \in Instances : Attends(c, k)
  BY <1>1 DEF Attends, Creating
<1>6. ASSUME Serves(c)', Owned(i)', \A k \in Instances : k # i => Alike(k) PROVE Deed(c)
  <2>1. \A k \in Instances : (Alike(k) /\ Attends(c, k)) \/ Handled(c, k)
    BY <1>2, <1>5, <1>6 DEF Handled
  <2> QED
    BY <1>1, <1>4, <1>6, <2>1 DEF Deed, Elsewhere
<1>7. CASE Update(c)
  <2>1. UNCHANGED <<inst, cont>> /\ dirs' = dirs \union {i} /\ Settled(c) /\ calls[c].pc = "update"
    BY <1>7 DEF Update
  <2>2. Unfinished(i)'
    BY <1>1, <2>1 DEF Serves, Unfinished
  <2>3. Owned(i)'
    BY <1>1, <1>2, <1>3, <2>1, <2>2, UnfinishedOwned
  <2> QED
    BY <1>1, <1>6, <2>1, <2>3, SettledServes DEF Alike
<1>8. CASE Quiesce(c) /\ calls[c].pc = "quiesce"
  <2>1. /\ UNCHANGED <<inst, dirs>> /\ Reach(c, "quiesced")
        /\ \A k \in Instances : k # i => cont'[k] = cont[k]
        /\ cont'[i] = IF cont[i] = "running" THEN "exited" ELSE cont[i]
    BY <1>0, <1>8 DEF Quiesce
  <2>2. /\ calls'[c].inst = i /\ calls'[c].pc = "quiesced"
        /\ calls'[c].area = calls[c].area /\ calls'[c].op = calls[c].op
    BY <2>1, ReachGives
  <2>3. Serves(c)'
    BY <1>1, <1>2, <2>1, <2>2 DEF Serves, Creating
  <2>4. \A d \in Calls : Attends(d, i)
    BY <1>4, <1>5 DEF Attends
  <2>5. Spared(i)
    BY <1>1, <2>1, <2>4 DEF Spared
  <2>6. Owned(i)'
    BY <1>1, <1>2, <2>5, SparedOwned DEF Remembered
  <2> QED
    BY <1>1, <1>6, <2>1, <2>3, <2>6 DEF Alike
<1>9. CASE Quiesce(c) /\ calls[c].pc = "quiesced"
  <2>1. UNCHANGED <<cont, dirs>> /\ Settled(c) /\ inst' = [inst EXCEPT ![i].status = "quiesced"]
    BY <1>9 DEF Quiesce
  <2>2. /\ inst'[i].status = "quiesced" /\ inst'[i].area = inst[i].area
        /\ \A k \in Instances : k # i => inst'[k] = inst[k]
    BY <1>0, <2>1 DEF Instance
  <2>3. \A d \in Calls : Attends(d, i)
    BY <1>4, <1>5 DEF Attends
  <2>4. Owned(i)'
    BY <1>1, <1>2, <1>3, <1>4, <2>1, <2>2, <2>3
    DEF Owned, Made, Creator, Furnished, DirOwned, Attended, Excused, Attends
  <2> QED
    BY <1>1, <1>6, <2>1, <2>2, <2>4, SettledServes DEF Alike
<1> QED
  BY <1>7, <1>8, <1>9 DEF Quiesce

(* A deletion removes the files of an area that has no instance.             *)
LEMMA RemovalDeed ==
    ASSUME ServeInv, NEW c \in Calls, RemoveFiles(c)
    PROVE  Deed(c)
<1>1. /\ calls[c].pc = "rmwa" /\ Settled(c) /\ exists' \in {exists, exists \ {calls[c].area}}
      /\ UNCHANGED <<inst, reg, byArea, cont, dirs, discarding, rec, past>>
  BY DEF RemoveFiles
<1>2. byArea[calls[c].area] = None
  BY <1>1 DEF ServeInv, CallsServe, Serves
<1>3. \A i \in reg : inst[i].area # calls[c].area
  BY <1>2, RegisteredInArea, AreasAssumption
<1>4. Serves(c)'
  BY <1>1, SettledServes DEF ServeInv, RegistryInv
<1>5. Entitled(c) /\ \A i \in Instances : Alike(i) /\ Attends(c, i)
  BY <1>1 DEF Entitled, Holds, Alike, Attends, Creating
<1>6. Elsewhere(c) /\ \A i \in reg : inst[i].area \in exists => inst[i].area \in exists'
  BY <1>1, <1>3 DEF Elsewhere
<1> QED
  BY <1>1, <1>4, <1>5, <1>6 DEF Deed

(* Every step of a call leaves it serving and its instances owned.           *)
LEMMA CallDeed ==
    ASSUME ServeInv, NEW c \in Calls, CallStep(c)
    PROVE  Deed(c)
<1>1. hub' = hub
  BY CallActs DEF ServeInv, RegistryInv
<1> QED
  BY <1>1, ArrivalDeed, LockDeed, ReuseDeed, DiscardedDeed, CreationDeed, UndoneDeed, CancelDeed,
     MountingDeed, TendedDeed, RemovalDeed DEF CallStep

-----------------------------------------------------------------------------
\* What every step keeps of an instance that was made.

Lasts(i) ==
    inst[i].status # "none" =>
        /\ inst'[i].area = inst[i].area /\ inst'[i].shape = inst[i].shape
        /\ inst'[i].status # "none"
        /\ inst[i].status \in {"ready", "quiesced"} => inst'[i].status \in {"ready", "quiesced"}

(* A reserve changes nothing of an instance that was made.                   *)
LEMMA ReserveLasts ==
    ASSUME RegistryTyped, NEW c \in Calls, NEW known, known = inst \/ \E i : known = Unheld(i),
           Reserve(c, known)
    PROVE  \A i \in Instances : Lasts(i)
<1>1. \A i \in Instances : /\ known[i].area = inst[i].area /\ known[i].shape = inst[i].shape
                           /\ known[i].status = inst[i].status
  BY DEF Unheld, RegistryTyped, Instance
<1>2. known \in [Instances -> Instance]
  BY UnheldTyped DEF RegistryTyped
<1>3. CASE inst' = known
  BY <1>1, <1>3 DEF Lasts
<1>4. ASSUME NEW j \in Instances, NEW new, inst[j].status = "none", inst' = [known EXCEPT ![j] = new]
      PROVE  \A i \in Instances : Lasts(i)
  BY <1>1, <1>2, <1>4 DEF Lasts
<1> QED
  BY <1>3, <1>4 DEF Reserve

(* Area and request of an instance never change, and one that is ready never *)
(* starts again.                                                             *)
LEMMA MadeLasts ==
    ASSUME TypeInv, [Next]_vars
    PROVE  \A i \in Instances : Lasts(i)
<1> USE DEF TypeInv
<1>0. inst \in [Instances -> Instance]
  BY DEF RegistryTyped
<1>1. ASSUME inst' = inst PROVE \A i \in Instances : Lasts(i)
  BY <1>1 DEF Lasts
<1>2. ASSUME NEW j, inst' = Unheld(j) PROVE \A i \in Instances : Lasts(i)
  BY <1>0, <1>2 DEF Lasts, Unheld, Instance
<1>3. ASSUME NEW c \in Calls, CallStep(c) PROVE \A i \in Instances : Lasts(i)
  <2>1. ASSUME \/ \E a \in Areas, o \in Owners, s \in Shapes : Acquire(c, a, o, s)
               \/ \E op \in {"release", "quiesce", "update"}, i \in Instances : OnInstance(c, op, i)
               \/ \E op \in {"delete", "force_delete"}, a \in Areas : Delete(c, op, a)
               \/ \E k \in MountKeys : MountOne(c, k) \/ MountOver(c, k)
        PROVE  inst' = inst
    BY <2>1 DEF Acquire, OnInstance, Delete, Arrive, MountOne, MountOver, still
  <2>2. ASSUME Reuse(c) \/ CreateDirs(c) \/ Start(c) \/ Cancel(c) \/ Update(c) \/ RemoveFiles(c)
        PROVE  inst' = inst
    BY <2>2 DEF Reuse, Rebuild, CreateDirs, Start, Cancel, Update, RemoveFiles, still
  <2>3. CASE Lock(c)
    BY <1>1, <2>3, ReserveLasts DEF Lock, LockAcquire, LockInstance, LockDelete
  <2>4. CASE Discarded(c)
    BY <1>2, <2>4, ReserveLasts DEF Discarded
  <2>5. CASE RollBack(c) \/ CreateFails(c)
    BY <1>2, <2>5 DEF RollBack, CreateFails, DiscardNow
  <2>6. CASE Mounted(c)
    BY <1>0, <2>6 DEF Mounted, Lasts, Instance
  <2>7. CASE Started(c)
    BY <1>0, <2>7 DEF Started, Lasts, Instance
  <2>8. CASE Quiesce(c)
    BY <1>0, <2>8 DEF Quiesce, Lasts, Instance
  <2> QED
    BY <1>1, <1>3, <2>1, <2>2, <2>3, <2>4, <2>5, <2>6, <2>7, <2>8 DEF CallStep
<1>4. CASE Round
  <2>1. inst' = inst \/ \E j : inst' = Unheld(j)
    BY <1>4 DEF Round, RoundBegin, RoundReset, RoundList, RoundDead, RoundDiscarded, RoundOrphans,
       RoundUnmount, RoundEnd, RoundDiscard, RoundEach, RoundSweep, still, DiscardNow
  <2> QED
    BY <1>1, <1>2, <2>1
<1>5. CASE Crash
  BY <1>0, <1>5 DEF Crash, Lasts, Instance
<1>6. ASSUME NEW i \in Instances, BootAdopt(i) PROVE \A j \in Instances : Lasts(j)
  BY <1>0, <1>6 DEF BootAdopt, Lasts, Instance
<1>7. CASE Boot \/ Booted \/ MountEvent \/ \E i \in Instances : BootRemove(i) \/ ContainerDies(i)
  BY <1>1, <1>7 DEF Boot, Booted, MountEvent, BootRemove, ContainerDies, still
<1> QED
  BY <1>1, <1>3, <1>4, <1>5, <1>6, <1>7 DEF Next, vars, wvars

-----------------------------------------------------------------------------
\* The other calls.

(* A call is served on if a step leaves its place and its files, and at most *)
(* takes its instance off in the reconciler's name.                          *)
LEMMA ServedOn ==
    ASSUME NEW d \in Calls, Serves(d), calls'[d] = calls[d], past.reaped \subseteq past'.reaped,
           calls[d].inst # None => Lasts(calls[d].inst),
           Holds(d) =>
             /\ calls[d].inst # None =>
                  /\ inst'[calls[d].inst].status = inst[calls[d].inst].status
                  /\ calls[d].inst \in reg => Unfinished(calls[d].inst)'
                  /\ cont[calls[d].inst] = "absent" => cont'[calls[d].inst] = "absent"
             /\ calls[d].area \in exists => calls[d].area \in exists'
             /\ calls[d].area \in Areas /\ byArea[calls[d].area] = None =>
                  byArea'[calls[d].area] = None,
           calls[d].pc \in Working => calls[d].inst # None
    PROVE  Serves(d)'
BY DEF Serves, Lasts, Holds, Unfinished, Creating, Working

(* A step of one call leaves what the others rely on.                        *)
LEMMA OthersServed ==
    ASSUME ServeInv, NEW c \in Calls, Deed(c), Acting(c), \A i \in Instances : Lasts(i)
    PROVE  CallsServe'
<1> USE DEF ServeInv, RegistryInv, TypeInv
<1> SUFFICES ASSUME NEW d \in Calls, d # c PROVE Serves(d)'
  BY DEF Deed, CallsServe
<1>1. calls'[d] = calls[d] /\ Serves(d) /\ past'.reaped = past.reaped
  BY DEF Acting, Deed, CallsServe
<1>2. calls[d].inst \in Instances \union {None} /\ (calls[d].pc \in Working => calls[d].inst # None)
  BY AreasAssumption DEF CallsTyped, Call
<1>3. CASE UNCHANGED <<inst, reg, byArea, cont, dirs, exists>>
  BY <1>1, <1>2, <1>3, ServedOn DEF Unfinished
<1>4. CASE Holds(d) /\ (Holds(c) \/ ~Locked(calls[c].area))
  <2>1. calls[c].area # calls[d].area
    BY <1>4 DEF LockHeldOnce, Locked
  <2>2. calls[d].inst # None => Alike(calls[d].inst)
    BY <1>1, <1>2, <2>1 DEF Deed, Handled, Serves
  <2>3. /\ calls[d].area \in Areas => byArea'[calls[d].area] = byArea[calls[d].area]
        /\ calls[d].area \in exists => calls[d].area \in exists'
    BY <2>1 DEF Deed, Elsewhere, DiskTyped
  <2> QED
    BY <1>1, <1>2, <2>2, <2>3, ServedOn DEF Alike, Unfinished
<1>5. CASE ~Holds(d)
  BY <1>1, <1>2, <1>5, ServedOn
<1> QED
  BY <1>3, <1>4, <1>5 DEF Deed, Entitled

(* A step of a call leaves every instance owned.                             *)
LEMMA CallOwns ==
    ASSUME ServeInv, NEW c \in Calls, Deed(c), Acting(c), hub' = hub
    PROVE  InstancesOwned'
<1> SUFFICES ASSUME NEW i \in Instances PROVE Owned(i)'
  BY DEF InstancesOwned
<1>1. CASE Handled(c, i)
  BY <1>1 DEF Handled
<1>2. CASE Alike(i) /\ Attends(c, i)
  <2>1. \A d \in Calls : Attends(d, i)
    BY <1>2 DEF Acting, Attends
  <2>2. Spared(i)
    BY <1>2, <2>1 DEF Spared, Alike, Deed
  <2> QED
    BY <2>2, SparedOwned DEF Remembered, Deed, ServeInv, InstancesOwned
<1> QED
  BY <1>1, <1>2 DEF Deed

(* Calls are only at work in a process that serves.                          *)
LEMMA CallServed ==
    ASSUME ServeInv, NEW c \in Calls, CallStep(c)
    PROVE  hub = "up" \/ UNCHANGED <<cont, reg, rec, past>>
<1>1. calls[c].pc \notin {"idle", "done"} => hub = "up"
  BY DEF ServeInv, RegistryInv, CallsServed
<1>2. ASSUME \/ \E a \in Areas, o \in Owners, s \in Shapes : Acquire(c, a, o, s)
             \/ \E op \in {"release", "quiesce", "update"}, i \in Instances : OnInstance(c, op, i)
             \/ \E op \in {"delete", "force_delete"}, a \in Areas : Delete(c, op, a)
      PROVE  hub = "up"
  BY <1>2 DEF Acquire, OnInstance, Delete, Arrive
<1>3. ASSUME NEW k \in MountKeys, MountOne(c, k) \/ MountOver(c, k)
      PROVE  UNCHANGED <<cont, reg, rec, past>>
  BY <1>3 DEF MountOne, MountOver, still
<1>5. ASSUME Lock(c) \/ Reuse(c) \/ Discarded(c) \/ CreateDirs(c) \/ RollBack(c) \/ Mounted(c)
             \/ Start(c) \/ Started(c) \/ CreateFails(c) \/ Cancel(c) \/ Quiesce(c) \/ Update(c)
             \/ RemoveFiles(c)
      PROVE  hub = "up"
  BY <1>1, <1>5 DEF Lock, Reuse, Discarded, CreateDirs, RollBack, Mounted, Start, Started,
     CreateFails, Cancel, Quiesce, Update, RemoveFiles
<1> QED
  BY <1>2, <1>3, <1>5 DEF CallStep

(* A step of a call keeps the whole invariant.                               *)
LEMMA CallServeKept ==
    ASSUME ServeInv, NEW c \in Calls, CallStep(c)
    PROVE  CallsServe' /\ InstancesOwned' /\ StartSound'
<1>1. Deed(c) /\ Acting(c) /\ hub' = hub
  BY CallDeed, CallActs DEF ServeInv, RegistryInv
<1>2. \A i \in Instances : Lasts(i)
  BY MadeLasts DEF Next, ServeInv, RegistryInv
<1>3. CallsServe' /\ InstancesOwned'
  BY <1>1, <1>2, OthersServed, CallOwns
<1>4. StartSound'
  BY <1>1, CallServed DEF StartSound, ServeInv, Deed
<1> QED
  BY <1>3, <1>4

-----------------------------------------------------------------------------
\* The reconciler and what the Hub does not do itself.

\* Such a step takes away at most: what leaves the register is reaped.
Gentle ==
    /\ UNCHANGED <<calls, exists, hub>> /\ Remembered
    /\ hub = "up" \/ UNCHANGED <<reg, rec, past>>
    /\ \A a \in Areas : byArea'[a] \in {None, byArea[a]}
    /\ \A i \in Instances :
         /\ inst'[i].status = inst[i].status /\ inst'[i].area = inst[i].area
         /\ i \in reg' => i \in reg
         /\ i \in reg => i \in reg' \/ i \in past'.reaped
         /\ \/ cont'[i] = cont[i] \/ cont'[i] = "absent"
            \/ cont[i] = "running" /\ cont'[i] = "exited"
         /\ i \in dirs' => i \in dirs /\ (i \in discarding => i \in discarding')

(* It keeps what calls and instances rely on.                                *)
LEMMA GentleKept ==
    ASSUME ServeInv, Gentle, \A i \in Instances : Lasts(i)
    PROVE  CallsServe' /\ InstancesOwned' /\ StartSound'
<1> USE DEF ServeInv, RegistryInv, TypeInv
<1>1. ASSUME NEW c \in Calls PROVE Serves(c)'
  <2>1. calls[c].inst \in Instances \union {None} /\ (calls[c].pc \in Working => calls[c].inst # None)
    BY AreasAssumption DEF CallsTyped, Call
  <2>2. calls'[c] = calls[c] /\ Serves(c)
    BY DEF Gentle, CallsServe
  <2> QED
    BY <2>1, <2>2, ServedOn DEF Gentle, Remembered, Unfinished
<1>2. ASSUME NEW i \in Instances PROVE Owned(i)'
  <2>1. Owned(i)
    BY DEF InstancesOwned
  <2>2. CASE i \in reg /\ i \notin reg'
    <3>1. i \in past'.reaped
      BY <2>2 DEF Gentle
    <3>2. Made(i)'
      BY <2>1 DEF Owned, Made, Gentle
    <3> QED
      BY <2>2, <3>1, <3>2 DEF Owned, Creator, Furnished, DirOwned, Attended, Excused
  <2>3. CASE ~(i \in reg /\ i \notin reg')
    <3>1. \A c \in Calls : Attends(c, i)
      BY DEF Attends, Gentle
    <3>2. Spared(i)
      BY <2>3, <3>1 DEF Spared, Gentle
    <3> QED
      BY <2>1, <3>2, SparedOwned DEF Gentle
  <2> QED
    BY <2>2, <2>3
<1>3. StartSound'
  BY DEF StartSound, Gentle
<1> QED
  BY <1>1, <1>2, <1>3 DEF CallsServe, InstancesOwned

(* An instance taken off, at once or with a container to wait for.           *)
LEMMA RemoveIsGentle ==
    ASSUME TypeInv, hub = "up", NEW i \in Instances, Remove(i), inst' = inst \/ inst' = Unheld(i),
           UNCHANGED <<calls, exists, hub, cont>>, Reap(i),
           \/ dirs' = dirs /\ discarding' = discarding \union {i}
           \/ dirs' = dirs \ {i} /\ discarding' = discarding
    PROVE  Gentle
<1> USE DEF TypeInv
<1>1. past \in History /\ inst \in [Instances -> Instance]
  BY DEF ProcessTyped, RegistryTyped
<1>2. Remembered /\ i \in past'.reaped
  BY <1>1 DEF Reap, Remembered, History
<1>3. \A j \in Instances : inst'[j].status = inst[j].status /\ inst'[j].area = inst[j].area
  BY <1>1 DEF Unheld, Instance
<1> QED
  BY <1>2, <1>3 DEF Gentle, Remove

(* So are all steps of a round.                                              *)
LEMMA RoundIsGentle ==
    ASSUME ServeInv, Round
    PROVE  Gentle
<1> USE DEF ServeInv, RegistryInv, TypeInv
<1>0. /\ past \in History /\ inst \in [Instances -> Instance]
      /\ cont \in [Instances -> {"absent", "running", "exited"}]
  BY DEF ProcessTyped, RegistryTyped, DiskTyped
<1>1. UNCHANGED <<calls, hub, exists>>
  BY DEF Round, RoundBegin, RoundReset, RoundList, RoundDead, RoundDiscarded, RoundOrphans,
     RoundUnmount, RoundEnd, RoundDiscard, RoundEach, RoundSweep, RoundStill, still
<1>2. hub = "up"
  BY DEF Round, RoundBegin, RoundReset, RoundList, RoundDead, RoundDiscarded, RoundOrphans,
     RoundUnmount, RoundEnd, RoundDiscard, RoundEach, RoundSweep, StartSound
<1>3. ASSUME UNCHANGED <<inst, reg, byArea, dirs, discarding>>, Remembered,
             \A i \in Instances : cont'[i] = cont[i] \/ cont'[i] = "absent"
      PROVE  Gentle
  BY <1>1, <1>2, <1>3 DEF Gentle
<1>4. ASSUME NEW i \in Instances, RoundDiscard(i) PROVE Gentle
  <2>1. CASE DiscardBegin(i)
    BY <1>1, <1>2, <1>4, <2>1, RemoveIsGentle DEF RoundDiscard, DiscardBegin, DiscardNow
  <2>2. CASE DiscardNow(i, {})
    BY <1>1, <1>2, <1>4, <2>2, RemoveIsGentle DEF RoundDiscard, DiscardNow
  <2> QED
    BY <1>4, <2>1, <2>2 DEF RoundDiscard
<1>5. ASSUME NEW i \in Instances, RoundEach(i) PROVE Gentle
  <2>1. CASE DiscardBegin(i) /\ Reap(i)
    BY <1>1, <1>2, <1>5, <2>1, RemoveIsGentle DEF RoundEach, DiscardBegin
  <2>2. CASE UNCHANGED <<reg, byArea, discarding, past>>
    BY <1>3, <1>5, <2>2 DEF RoundEach, Remembered
  <2> QED
    BY <1>5, <2>1, <2>2 DEF RoundEach
<1>6. CASE RoundDiscarded
  <2>1. PICK gone \in BOOLEAN : DiscardEnd(rec.now, gone)
    BY <1>6 DEF RoundDiscarded
  <2>2. \A i \in Instances :
          /\ cont'[i] = cont[i] \/ cont'[i] = "absent"
          /\ i \in dirs' => i \in dirs /\ (i \in discarding => i \in discarding')
    BY <1>0, <2>1 DEF DiscardEnd
  <2>3. \A i \in Instances : inst'[i].status = inst[i].status /\ inst'[i].area = inst[i].area
    BY <1>0, <1>6 DEF RoundDiscarded, Unheld, Instance
  <2> QED
    BY <1>1, <1>2, <1>6, <2>2, <2>3 DEF RoundDiscarded, Gentle, Remembered
<1>7. CASE RoundDead \/ RoundOrphans
  BY <1>0, <1>3, <1>7 DEF RoundDead, RoundOrphans, Remembered
<1>8. CASE RoundReset
  BY <1>0, <1>3, <1>8 DEF RoundReset, still, Remembered, History
<1>9. CASE RoundBegin \/ RoundList \/ RoundUnmount \/ RoundEnd \/ \E k \in MountKeys : RoundSweep(k)
  BY <1>0, <1>3, <1>9
  DEF RoundBegin, RoundList, RoundUnmount, RoundEnd, RoundSweep, still, Remembered
<1> QED
  BY <1>4, <1>5, <1>6, <1>7, <1>8, <1>9 DEF Round

(* And what happens to mounts and containers by itself.                      *)
LEMMA SurroundingsGentle ==
    ASSUME ServeInv, MountEvent \/ UNCHANGED vars \/ \E i \in Instances : ContainerDies(i)
    PROVE  Gentle
<1>1. cont \in [Instances -> {"absent", "running", "exited"}]
  BY DEF ServeInv, RegistryInv, TypeInv, DiskTyped
<1>2. UNCHANGED <<inst, reg, byArea, dirs, exists, discarding, calls, rec, hub, past>>
  BY DEF MountEvent, ContainerDies, still, vars, wvars
<1>3. \A i \in Instances :
        \/ cont'[i] = cont[i]
        \/ cont[i] = "running" /\ cont'[i] = "exited"
  BY <1>1 DEF MountEvent, ContainerDies, still, vars, wvars
<1> QED
  BY <1>2, <1>3 DEF Gentle, Remembered

-----------------------------------------------------------------------------
\* The process ends and starts again.

(* A call that is not at work relies on nothing a start could change.        *)
LEMMA IdleServes ==
    ASSUME NEW c \in Calls, Serves(c), calls[c].pc \in {"idle", "done"}, calls'[c] = calls[c],
           calls[c].inst # None => Lasts(calls[c].inst)
    PROVE  Serves(c)'
BY DEF Serves, Lasts, Creating

(* While the process starts no call is at work, and each stays as it is.     *)
LEMMA StartServes ==
    ASSUME ServeInv, hub # "up", calls' = calls, \A i \in Instances : Lasts(i)
    PROVE  CallsServe'
<1> SUFFICES ASSUME NEW c \in Calls PROVE Serves(c)'
  BY DEF CallsServe
<1>1. /\ calls[c].inst \in Instances \union {None} /\ calls[c].pc \in {"idle", "done"}
      /\ Serves(c) /\ calls'[c] = calls[c]
  BY DEF ServeInv, RegistryInv, TypeInv, CallsTyped, Call, CallsServed, CallsServe
<1> QED
  BY <1>1, IdleServes

(* A crash forgets everything but containers, directories and files.         *)
LEMMA CrashServes ==
    ASSUME ServeInv, Crash, \A i \in Instances : Lasts(i)
    PROVE  CallsServe' /\ InstancesOwned' /\ StartSound'
<1> USE DEF ServeInv, RegistryInv, TypeInv
<1>0. inst \in [Instances -> Instance] /\ calls \in [Calls -> Call]
  BY DEF RegistryTyped, CallsTyped
<1>1. ASSUME NEW c \in Calls PROVE Serves(c)'
  <2>1. CASE calls[c].pc = "idle"
    <3>1. calls'[c] = calls[c] /\ Serves(c) /\ calls[c].inst \in Instances \union {None}
      BY <1>0, <2>1 DEF Crash, CallsServe, Call
    <3> QED
      BY <2>1, <3>1, IdleServes
  <2>2. CASE calls[c].pc # "idle"
    <3>1. calls'[c].inst = None /\ calls'[c].pc = "done" /\ calls'[c].op = "none"
      BY <2>2 DEF Crash, NoCall
    <3> QED
      BY <3>1 DEF Serves, Creating
  <2> QED
    BY <2>1, <2>2
<1>2. ASSUME NEW i \in Instances PROVE Owned(i)'
  <2>1. inst'[i].status = inst[i].status /\ inst'[i].area = inst[i].area
    BY <1>0 DEF Crash, Instance
  <2>2. reg' = {} /\ hub' = "down" /\ UNCHANGED <<cont, dirs>>
    BY DEF Crash
  <2>3. Made(i)'
    BY <2>1, <2>2 DEF Made, InstancesOwned, Owned
  <2> QED
    BY <2>2, <2>3 DEF Owned, Creator, Furnished, DirOwned, Attended, Excused
<1>3. StartSound'
  BY DEF Crash, StartSound, NoRound
<1> QED
  BY <1>1, <1>2, <1>3 DEF CallsServe, InstancesOwned

(* A start that lists what an earlier process has left.                      *)
LEMMA BootServes ==
    ASSUME ServeInv, Boot
    PROVE  InstancesOwned' /\ StartSound'
<1> USE DEF ServeInv, RegistryInv, TypeInv
<1>0. past \in History /\ cont \in [Instances -> {"absent", "running", "exited"}]
  BY DEF ProcessTyped, DiskTyped
<1>1. hub' = "boot" /\ reg' = {} /\ UNCHANGED <<inst, cont, dirs>>
  BY DEF Boot, still, StartSound
<1>2. ASSUME NEW i \in Instances PROVE Owned(i)'
  BY <1>1 DEF InstancesOwned, Owned, Made, Creator, Furnished, DirOwned, Attended, Excused
<1>3. rec'.pc = "idle"
  BY DEF Boot, NoRound
<1>4. \A i \in Instances : cont'[i] = "running" => i \in rec'.seen \/ i \in past'.lost
  <2>1. CASE rec' = [NoRound EXCEPT !.seen = {i \in Instances : cont[i] # "absent"}]
    BY <1>1, <2>1 DEF NoRound
  <2>2. CASE past' = [past EXCEPT !.lost = {i \in Instances : cont[i] # "absent"}]
    BY <1>0, <1>1, <2>2 DEF History
  <2> QED
    BY <2>1, <2>2 DEF Boot
<1> QED
  BY <1>1, <1>2, <1>3, <1>4 DEF InstancesOwned, StartSound

(* What is adopted is owned.                                                 *)
LEMMA AdoptServes ==
    ASSUME ServeInv, NEW i \in Instances, BootAdopt(i)
    PROVE  InstancesOwned' /\ StartSound'
<1> USE DEF ServeInv, RegistryInv, TypeInv
<1>0. past \in History /\ inst \in [Instances -> Instance] /\ rec \in RoundRecord
  BY DEF ProcessTyped, RegistryTyped, RoundTyped
<1>1. /\ hub = "boot" /\ hub' = hub /\ cont[i] = "running"
      /\ UNCHANGED <<cont, dirs, exists, discarding, calls>>
      /\ reg' = reg \union {i}
  BY DEF BootAdopt, Enter
<1>2. /\ inst'[i].status = "ready" /\ inst'[i].area = inst[i].area
      /\ \A j \in Instances : j # i => inst'[j] = inst[j]
  BY <1>0 DEF BootAdopt, Instance
<1>3. /\ past'.lost = past.lost /\ past'.reaped = past.reaped /\ past.stale \subseteq past'.stale
      /\ inst[i].area \in exists \/ i \in past'.stale
  BY <1>0 DEF BootAdopt, History
<1>4. /\ rec'.pc = rec.pc /\ rec'.seen = rec.seen \ {i}
  BY <1>0 DEF BootAdopt, RoundRecord
<1>5. ASSUME NEW j \in Instances PROVE Owned(j)'
  <2>1. Owned(j)
    BY DEF InstancesOwned
  <2>2. CASE j = i
    BY <1>1, <1>2, <1>3, <2>1, <2>2
    DEF Owned, Made, Creator, Furnished, DirOwned, Attended, Excused
  <2>3. CASE j # i
    <3>1. Spared(j)
      BY <1>1, <1>2, <2>3 DEF Spared, Attends
    <3> QED
      BY <1>1, <1>3, <2>1, <3>1, SparedOwned DEF Remembered
  <2> QED
    BY <2>2, <2>3
<1>6. StartSound'
  BY <1>1, <1>3, <1>4 DEF StartSound
<1> QED
  BY <1>5, <1>6 DEF InstancesOwned

(* What is not adopted is removed, or lost.                                  *)
LEMMA BootRemoveServes ==
    ASSUME ServeInv, NEW i \in Instances, BootRemove(i)
    PROVE  InstancesOwned' /\ StartSound'
<1> USE DEF ServeInv, RegistryInv, TypeInv
<1>0. past \in History /\ cont \in [Instances -> {"absent", "running", "exited"}] /\ rec \in RoundRecord
  BY DEF ProcessTyped, DiskTyped, RoundTyped
<1>1. /\ hub = "boot" /\ hub' = hub /\ dirs' = dirs \ {i}
      /\ UNCHANGED <<inst, reg, exists, discarding, calls>>
  BY DEF BootRemove
<1>2. /\ Remembered
      /\ \A j \in Instances : j # i => cont'[j] = cont[j]
      /\ cont'[i] = cont[i] \/ cont'[i] = "absent"
      /\ cont'[i] = "absent" \/ i \in past'.lost
  BY <1>0 DEF BootRemove, Forgive, Lose, History, Remembered
<1>3. rec'.pc = rec.pc /\ rec'.seen = rec.seen \ {i}
  BY <1>0 DEF BootRemove, RoundRecord
<1>4. ASSUME NEW j \in Instances PROVE Owned(j)'
  <2>1. Spared(j)
    BY <1>1, <1>2 DEF Spared, Attends
  <2> QED
    BY <1>1, <1>2, <2>1, SparedOwned DEF InstancesOwned
<1>5. StartSound'
  BY <1>1, <1>2, <1>3 DEF StartSound, Remembered
<1> QED
  BY <1>4, <1>5 DEF InstancesOwned

(* When requests are served again everything left has an owner.              *)
LEMMA BootedServes ==
    ASSUME ServeInv, Booted
    PROVE  InstancesOwned' /\ StartSound'
<1>1. /\ hub = "boot" /\ hub' = "up" /\ rec.seen = {} /\ dirs' = dirs \intersect reg
      /\ UNCHANGED <<inst, reg, cont, exists, discarding, calls, past>>
  BY DEF Booted
<1>2. \A i \in Instances : Owned(i)'
  BY <1>1 DEF ServeInv, InstancesOwned, StartSound,
     Owned, Made, Creator, Furnished, DirOwned, Attended, Excused
<1> QED
  BY <1>1, <1>2 DEF InstancesOwned, StartSound

(* The invariant is inductive.                                               *)
LEMMA ServeInductive ==
    ASSUME ServeInv, [Next]_vars
    PROVE  ServeInv'
<1>1. RegistryInv'
  BY RegistryInductive DEF ServeInv
<1>2. \A i \in Instances : Lasts(i)
  BY MadeLasts DEF ServeInv, RegistryInv
<1>3. CASE \E c \in Calls : CallStep(c)
  BY <1>1, <1>3, CallServeKept DEF ServeInv
<1>4. CASE Round \/ MountEvent \/ UNCHANGED vars \/ \E i \in Instances : ContainerDies(i)
  BY <1>1, <1>2, <1>4, GentleKept, RoundIsGentle, SurroundingsGentle DEF ServeInv
<1>5. CASE Crash
  BY <1>1, <1>2, <1>5, CrashServes DEF ServeInv
<1>6. CASE Boot \/ Booted \/ \E i \in Instances : BootAdopt(i) \/ BootRemove(i)
  <2>1. CallsServe'
    BY <1>2, <1>6, StartServes DEF Boot, Booted, BootAdopt, BootRemove
  <2> QED
    BY <1>1, <1>6, <2>1, BootServes, BootedServes, AdoptServes, BootRemoveServes DEF ServeInv
<1> QED
  BY <1>3, <1>4, <1>5, <1>6 DEF Next

(* It holds before the first start.                                          *)
LEMMA ServeStarts == Init => ServeInv
<1> SUFFICES ASSUME Init PROVE ServeInv
  OBVIOUS
<1>1. RegistryInv
  BY RegistryStarts
<1>2. CallsServe
  BY DEF Init, NoCall, CallsServe, Serves, Creating
<1>3. PICK left \in SUBSET Instances :
         /\ inst \in [Instances ->
              {NoInst} \union [area : Areas, owner : Owners, shape : Shapes, status : {"ready"},
                              held : {FALSE}, info : {FALSE}]]
         /\ \A i \in Instances : i \in left <=> inst[i] # NoInst
         /\ cont = [i \in Instances |-> IF i \in left THEN "running" ELSE "absent"]
         /\ dirs = left
  BY DEF Init
<1>4. ASSUME NEW i \in Instances PROVE Made(i)
  <2>1. CASE i \in left
    <3>1. inst[i] \in [area : Areas, owner : Owners, shape : Shapes, status : {"ready"},
                       held : {FALSE}, info : {FALSE}]
      BY <1>3, <2>1
    <3> QED
      BY <3>1 DEF Made
  <2>2. CASE i \notin left
    BY <1>3, <2>2 DEF Made, NoInst
  <2> QED
    BY <2>1, <2>2
<1>5. reg = {} /\ hub = "down" /\ rec.pc = "idle"
  BY DEF Init, NoRound
<1>6. InstancesOwned
  BY <1>4, <1>5 DEF InstancesOwned, Owned, Creator, Furnished, DirOwned, Attended, Excused
<1>7. StartSound
  BY <1>5 DEF StartSound
<1> QED
  BY <1>1, <1>2, <1>6, <1>7 DEF ServeInv

(* What calls and instances owe each other holds in every reachable state,   *)
(* between any calls, rounds, crashes and cancellations.                     *)
THEOREM ServeInvariant == Spec => []ServeInv
<1>1. Init => ServeInv
  BY ServeStarts
<1>2. ServeInv /\ [Next]_vars => ServeInv'
  BY ServeInductive
<1> QED
  BY <1>1, <1>2, PTL DEF Spec

(* No place of a limit is taken for good: an instance that is starting has a *)
(* call that holds its area's lock, unless that call was cancelled.          *)
THEOREM PlacesStayOwned == Spec => []PlacesAreOwned
<1>1. ServeInv => PlacesAreOwned
  <2> SUFFICES ASSUME ServeInv, NEW i \in reg, i \notin past.lost, inst[i].status = "starting"
               PROVE  \E c \in Calls : calls[c].inst = i /\ Holds(c)
    BY DEF PlacesAreOwned
  <2>1. Creator(i)
    BY RegisteredInArea DEF ServeInv, InstancesOwned, Owned
  <2> QED
    BY <2>1 DEF Creator, Creating, Holds
<1> QED
  BY <1>1, ServeInvariant, PTL

(* Two containers never write to one work area, apart from those that the    *)
(* reconciler or an unfinished clean-up has left.                            *)
THEOREM TenantsAreSole == Spec => []SoleTenant
<1>1. ServeInv => SoleTenant
  <2> SUFFICES ASSUME ServeInv, hub = "up", NEW i \in Instances, NEW j \in Instances,
                      cont[i] = "running", cont[j] = "running",
                      i \notin past.reaped \union past.lost, j \notin past.reaped \union past.lost,
                      inst[i].area = inst[j].area
               PROVE  i = j
    BY DEF SoleTenant
  <2> DEFINE Discards(c, k) == calls[c].inst = k /\ calls[c].pc = "discard"
  <2>1. /\ i \in reg \/ \E c \in Calls : Discards(c, i)
        /\ j \in reg \/ \E c \in Calls : Discards(c, j)
    BY DEF ServeInv, InstancesOwned, Owned, Attended, Excused
  <2>2. ASSUME NEW c \in Calls, NEW k \in Instances, Discards(c, k)
        PROVE  Holds(c) /\ calls[c].area = inst[k].area /\ byArea[inst[k].area] = None
    <3>1. Serves(c) /\ k # None
      BY AreasAssumption DEF ServeInv, CallsServe
    <3> QED
      BY <2>2, <3>1 DEF Serves, Holds
  <2>3. \A k \in reg : byArea[inst[k].area] = k
    BY RegisteredInArea
  <2>4. CASE i \in reg /\ j \in reg
    BY <2>3, <2>4
  <2>5. ASSUME NEW c \in Calls, NEW d \in Calls, Discards(c, i), Discards(d, j) PROVE i = j
    BY <2>2, <2>5 DEF ServeInv, RegistryInv, LockHeldOnce
  <2>6. ASSUME NEW k \in reg, NEW l \in Instances, inst[k].area = inst[l].area, NEW c \in Calls,
               Discards(c, l)
        PROVE  FALSE
    <3>1. k \in Instances
      BY RegisteredInArea
    <3> QED
      BY <2>2, <2>3, <2>6, <3>1, AreasAssumption
  <2> QED
    BY <2>1, <2>4, <2>5, <2>6
<1> QED
  BY <1>1, ServeInvariant, PTL

(* The directories of an instance go with it.                                *)
THEOREM DirsStayOwned == Spec => []DirsAreOwned
<1>1. ServeInv => DirsAreOwned
  BY DEF ServeInv, RegistryInv, TypeInv, DiskTyped, InstancesOwned, Owned, DirOwned, Excused,
     DirsAreOwned
<1> QED
  BY <1>1, ServeInvariant, PTL

(* An area's files are there as long as a ready instance works on them.      *)
THEOREM FilesStayUnderInstance == Spec => []FilesUnderInstance
<1>1. ServeInv => FilesUnderInstance
  <2> SUFFICES ASSUME ServeInv, NEW i \in reg, i \notin past.stale, inst[i].status = "ready"
               PROVE  inst[i].area \in exists
    BY DEF FilesUnderInstance
  <2>1. Furnished(i)
    BY RegisteredInArea DEF ServeInv, InstancesOwned, Owned
  <2> QED
    BY <2>1 DEF Furnished
<1> QED
  BY <1>1, ServeInvariant, PTL

-----------------------------------------------------------------------------
\* Answers.

(* A call is answered when its instance is reused or has started.            *)
LEMMA AnswerGiven ==
    ASSUME ServeInv, NEW c \in Calls, CallStep(c), calls[c].pc # "answered", calls'[c].pc = "answered"
    PROVE  \/ Started(c)
           \/ Reuse(c) /\ calls[c].pc = "switch" /\ UNCHANGED <<inst, reg, past>>
<1> USE DEF ServeInv, RegistryInv, TypeInv
<1>0. calls \in [Calls -> Call]
  BY DEF CallsTyped
<1>1. CASE Settled(c)
  BY <1>0, <1>1 DEF Settled, NoCall
<1>2. CASE \E pc : Reach(c, pc) /\ pc # "answered"
  BY <1>2, ReachGives
<1>3. CASE \E i, pc : calls' = [calls EXCEPT ![c].inst = i, ![c].pc = pc] /\ pc # "answered"
  BY <1>0, <1>3 DEF Call
<1>4. CASE \/ \E a \in Areas, o \in Owners, s \in Shapes : Acquire(c, a, o, s)
           \/ \E op \in {"release", "quiesce", "update"}, i \in Instances : OnInstance(c, op, i)
           \/ \E op \in {"delete", "force_delete"}, a \in Areas : Delete(c, op, a)
  BY <1>4, ArrivalWaits
<1>13. CASE \E known : Reserve(c, known)
  <2>1. Settled(c) \/ \E i : calls' = [calls EXCEPT ![c].inst = i, ![c].pc = "create"]
    BY <1>13, Zenon DEF Reserve
  <2>2. ASSUME NEW i, calls' = [calls EXCEPT ![c].inst = i, ![c].pc = "create"]
        PROVE  calls'[c].pc = "create"
    BY <1>0, <2>2 DEF Call
  <2> QED
    BY <1>1, <2>1, <2>2
<1>5. CASE Lock(c)
  <2>1. CASE LockAcquire(c)
    <3>1. CASE Reserve(c, inst)
      BY <1>13, <3>1
    <3>2. CASE ~Reserve(c, inst)
      BY <1>1, <1>3, <2>1, <3>2 DEF LockAcquire
    <3> QED
      BY <3>1, <3>2
  <2>2. CASE LockInstance(c)
    BY <1>1, <1>2, <2>2 DEF LockInstance
  <2>3. CASE LockDelete(c)
    BY <1>1, <1>2, <1>3, <2>3 DEF LockDelete
  <2> QED
    BY <1>5, <2>1, <2>2, <2>3 DEF Lock
<1>6. CASE Reuse(c)
  <2>1. CASE \E pc \in {"alive", "busy", "switch", "discard"} : Reach(c, pc)
    BY <1>2, <2>1
  <2> QED
    BY <1>1, <1>6, <2>1 DEF Reuse, Rebuild, still
<1>7. CASE Discarded(c)
  BY <1>1, <1>2, <1>13, <1>7 DEF Discarded
<1>8. CASE CreateDirs(c) \/ Mounted(c) \/ Start(c)
  <2>1. calls'[c].pc \in {"mount", "start", "wait"}
    BY <1>0, <1>8 DEF CreateDirs, Mounted, Start, Reach, Call
  <2> QED
    BY <2>1
<1>9. CASE Quiesce(c)
  BY <1>1, <1>2, <1>9 DEF Quiesce
<1>10. CASE Cancel(c) \/ \E k \in MountKeys : MountOne(c, k) \/ MountOver(c, k)
  <2>1. ASSUME Cancel(c), ~Settled(c) PROVE calls'[c].pc = calls[c].pc
    BY <1>0, <2>1 DEF Cancel, Call
  <2>2. ASSUME NEW k \in MountKeys, MountOne(c, k) \/ MountOver(c, k)
        PROVE  calls'[c].pc = calls[c].pc
    BY <1>0, <2>2 DEF MountOne, MountOver, Call
  <2> QED
    BY <1>1, <1>10, <2>1, <2>2
<1>11. CASE RollBack(c) \/ CreateFails(c) \/ Update(c) \/ RemoveFiles(c)
  BY <1>1, <1>11 DEF RollBack, CreateFails, Update, RemoveFiles
<1>12. CASE Started(c)
  BY <1>12
<1> QED
  BY <1>4, <1>5, <1>6, <1>7, <1>8, <1>9, <1>10, <1>11, <1>12 DEF CallStep

(* A successful acquire names an instance that is registered and ready when  *)
(* the answer is given; only the reconciler can have taken it away while the *)
(* acquire was examining or creating it.                                     *)
THEOREM AnswersStand == Spec => AnswerStands
<1>1. ASSUME ServeInv, [Next]_vars, NEW c \in Calls,
             calls[c].pc # "answered", calls'[c].pc = "answered"
      PROVE  \/ calls[c].inst \in reg' /\ inst'[calls[c].inst].status = "ready"
             \/ calls[c].inst \in past'.reaped
  <2>1. CallStep(c)
    <3>1. ASSUME NEW d \in Calls, CallStep(d), d # c PROVE FALSE
      BY <1>1, <3>1, CallActs DEF Acting, ServeInv, RegistryInv
    <3>2. Moves
      BY <1>1, StepMoves
    <3> QED
      BY <1>1, <3>1, <3>2 DEF Moves
  <2>2. Serves(c) /\ inst \in [Instances -> Instance] /\ CallsTyped
    BY <1>1 DEF ServeInv, CallsServe, RegistryInv, TypeInv, RegistryTyped
  <2>3. CASE Started(c)
    <3>1. calls[c].inst \in Instances /\ Unfinished(calls[c].inst)
      BY <2>2, <2>3 DEF Started, CallsTyped, Working, Creating, Serves
    <3>2. inst'[calls[c].inst].status = "ready" /\ UNCHANGED <<reg, past>>
      BY <2>2, <2>3, <3>1 DEF Started, Instance
    <3> QED
      BY <3>1, <3>2 DEF Unfinished
  <2>4. CASE Reuse(c) /\ calls[c].pc = "switch" /\ UNCHANGED <<inst, reg, past>>
    BY <2>2, <2>4 DEF Serves
  <2> QED
    BY <1>1, <2>1, <2>3, <2>4, AnswerGiven
<1>2. ServeInv /\ [Next]_vars =>
        [\A c \in Calls :
           calls[c].pc # "answered" /\ calls'[c].pc = "answered" =>
              LET i == calls[c].inst IN
              (i \in reg' /\ inst'[i].status = "ready") \/ i \in past'.reaped]_vars
  BY <1>1
<1> QED
  BY <1>2, ServeInvariant, PTL DEF Spec, AnswerStands

-----------------------------------------------------------------------------
\* The counts of role directories.

\* An acquire mounts what it was asked for: each key still to do, under way or
\* counted for it; a finished one has handed its counts to the instance.
Mounts(c) ==
    /\ calls[c].todo \intersect calls[c].taken = {}
    /\ calls[c].run \intersect (calls[c].todo \union calls[c].taken) = {}
    /\ calls[c].pc = "mount" =>
         /\ ~calls[c].stop =>
              calls[c].todo \union calls[c].run \union calls[c].taken = inst[calls[c].inst].shape
         /\ ~inst[calls[c].inst].held
    /\ calls[c].pc = "create" =>
         ~inst[calls[c].inst].held /\ calls[c].shape = inst[calls[c].inst].shape
    /\ calls[c].pc # "mount" => calls[c].run = {} /\ calls[c].taken = {}

CallsMount == \A c \in Calls : Mounts(c)

\* A key's lock has one owner: a mount under way or the sweep.
KeysLocked ==
    /\ \A c \in Calls : calls[c].run \subseteq keyLocks
    /\ \A c, d \in Calls : c # d => calls[c].run \intersect calls[d].run = {}
    /\ rec.pc = "unmount" =>
         rec.now \in keyLocks /\ \A c \in Calls : rec.now \notin calls[c].run

\* Nothing is held that was not made, or that is not yet adopted.
HeldSound ==
    /\ \A i \in Instances : inst[i].held => inst[i].status # "none"
    /\ hub = "down" => \A i \in Instances : ~inst[i].held
    /\ hub = "boot" => \A i \in rec.seen : ~inst[i].held

\* The reconciler discards instances, and unmounts role directories.
RoundSound ==
    /\ rec.pc \in {"alldis", "eachdis"} => rec.now \in Instances
    /\ rec.pc = "unmount" => rec.now \in MountKeys

HeldBy(k) == {i \in Instances : inst[i].held /\ k \in inst[i].shape}
TakenBy(k) == {c \in Calls : k \in calls[c].taken}

HoldersFinite == \A k \in MountKeys : IsFiniteSet(HeldBy(k)) /\ IsFiniteSet(TakenBy(k))

MountInv ==
    /\ ServeInv /\ CallsMount /\ KeysLocked /\ HeldSound /\ RoundSound
    /\ HoldersFinite /\ RefsMatchHolders /\ NoUnmountUnderInstance

-----------------------------------------------------------------------------
\* What a step does to the holders of a key and to their count.

Floored(n) == IF n > 0 THEN n - 1 ELSE n

Unchanged(k) == HeldBy(k)' = HeldBy(k) /\ TakenBy(k)' = TakenBy(k)

Gained(k) ==
    /\ refs'[k] = refs[k] + 1
    /\ ~(rec.pc = "unmount" /\ rec.now = k)
    /\ \/ HeldBy(k)' = HeldBy(k) /\ \E c : c \notin TakenBy(k) /\ TakenBy(k)' = TakenBy(k) \union {c}
       \/ TakenBy(k)' = TakenBy(k) /\ \E i : i \notin HeldBy(k) /\ HeldBy(k)' = HeldBy(k) \union {i}

Dropped(k) ==
    /\ refs'[k] = Floored(refs[k])
    /\ \/ HeldBy(k)' = HeldBy(k) /\ \E c \in TakenBy(k) : TakenBy(k)' = TakenBy(k) \ {c}
       \/ TakenBy(k)' = TakenBy(k) /\ \E i \in HeldBy(k) : HeldBy(k)' = HeldBy(k) \ {i}

HandedOver(k) ==
    /\ refs'[k] = refs[k]
    /\ \E c \in TakenBy(k) : TakenBy(k)' = TakenBy(k) \ {c}
    /\ \E i : i \notin HeldBy(k) /\ HeldBy(k)' = HeldBy(k) \union {i}

Balanced(k) ==
    \/ Unchanged(k) /\ (refs'[k] = refs[k] \/ k \in past'.wiped)
    \/ Gained(k) \/ Dropped(k) \/ HandedOver(k)
    \/ refs'[k] = 0 /\ HeldBy(k)' = {} /\ TakenBy(k)' = {}

(* Cardinalities of a finite set that gains or loses one member.             *)
LEMMA OneMore ==
    ASSUME NEW S, NEW x, IsFiniteSet(S), x \notin S
    PROVE  IsFiniteSet(S \union {x}) /\ Cardinality(S \union {x}) = Cardinality(S) + 1
BY FS_AddElement

LEMMA OneLess ==
    ASSUME NEW S, NEW x \in S, IsFiniteSet(S)
    PROVE  /\ IsFiniteSet(S \ {x}) /\ Cardinality(S \ {x}) = Cardinality(S) - 1
           /\ Cardinality(S) > 0
<1>1. IsFiniteSet(S \ {x}) /\ Cardinality(S \ {x}) = Cardinality(S) - 1
  BY FS_RemoveElement
<1>2. Cardinality(S) \in Nat /\ Cardinality(S \ {x}) \in Nat
  BY <1>1, FS_CardinalityType
<1> QED
  BY <1>1, <1>2

Exact(k) == k \notin past.wiped => refs[k] = Holders(k)
Finite(k) == IsFiniteSet(HeldBy(k)) /\ IsFiniteSet(TakenBy(k))

(* A balanced step keeps the count exact and the holders finite.             *)
LEMMA BalanceKept ==
    ASSUME MountsTypeOK, NEW k \in MountKeys, Exact(k), Finite(k), Balanced(k),
           k \in past.wiped => k \in past'.wiped \/ (refs'[k] = 0 /\ HeldBy(k)' = {} /\ TakenBy(k)' = {})
    PROVE  Exact(k)' /\ Finite(k)'
<1> DEFINE H == HeldBy(k)
           T == TakenBy(k)
<1>1. Holders(k) = Cardinality(H) + Cardinality(T)
  BY DEF Holders, HeldBy, TakenBy
<1>2. Holders(k)' = Cardinality(H') + Cardinality(T')
  BY DEF Holders, HeldBy, TakenBy
<1>3. Cardinality(H) \in Nat /\ Cardinality(T) \in Nat /\ refs[k] \in Nat
  BY FS_CardinalityType DEF Finite, MountsTypeOK
<1>4. IsFiniteSet(H) /\ IsFiniteSet(T)
  BY DEF Finite
<1>5. Finite(k)' <=> IsFiniteSet(H') /\ IsFiniteSet(T')
  BY DEF Finite
<1>6. Exact(k) <=> (k \in past.wiped \/ refs[k] = Cardinality(H) + Cardinality(T))
  BY <1>1 DEF Exact
<1>7. Exact(k)' <=> (k \in past'.wiped \/ refs'[k] = Cardinality(H') + Cardinality(T'))
  BY <1>2 DEF Exact
<1>8. CASE refs'[k] = 0 /\ H' = {} /\ T' = {}
  BY <1>5, <1>7, <1>8, FS_EmptySet
<1>9. CASE k \in past.wiped /\ k \in past'.wiped /\ ~(refs'[k] = 0 /\ H' = {} /\ T' = {})
  BY <1>4, <1>5, <1>7, <1>9, OneMore, OneLess DEF Balanced, Unchanged, Gained, Dropped, HandedOver
<1>10. CASE k \notin past.wiped /\ ~(refs'[k] = 0 /\ H' = {} /\ T' = {})
  <2> HIDE DEF H, T
  <2>1. refs[k] = Cardinality(H) + Cardinality(T)
    BY <1>6, <1>10
  <2>2. CASE Unchanged(k) /\ (refs'[k] = refs[k] \/ k \in past'.wiped)
    BY <1>4, <1>5, <1>7, <2>1, <2>2 DEF Unchanged, H, T
  <2>3. CASE Gained(k)
    <3>1. CASE H' = H /\ \E c : c \notin T /\ T' = T \union {c}
      <4>1. IsFiniteSet(T') /\ Cardinality(T') = Cardinality(T) + 1
        BY <1>4, <3>1, OneMore
      <4> QED
        BY <1>3, <1>4, <1>5, <1>7, <2>1, <2>3, <3>1, <4>1 DEF Gained
    <3>2. CASE T' = T /\ \E i : i \notin H /\ H' = H \union {i}
      <4>1. IsFiniteSet(H') /\ Cardinality(H') = Cardinality(H) + 1
        BY <1>4, <3>2, OneMore
      <4> QED
        BY <1>3, <1>4, <1>5, <1>7, <2>1, <2>3, <3>2, <4>1 DEF Gained
    <3> QED
      BY <2>3, <3>1, <3>2 DEF Gained, H, T
  <2>4. CASE Dropped(k)
    <3>1. CASE H' = H /\ \E c \in T : T' = T \ {c}
      <4>1. IsFiniteSet(T') /\ Cardinality(T') = Cardinality(T) - 1 /\ Cardinality(T) > 0
        BY <1>4, <3>1, OneLess
      <4> QED
        BY <1>3, <1>4, <1>5, <1>7, <2>1, <2>4, <3>1, <4>1 DEF Dropped, Floored
    <3>2. CASE T' = T /\ \E i \in H : H' = H \ {i}
      <4>1. IsFiniteSet(H') /\ Cardinality(H') = Cardinality(H) - 1 /\ Cardinality(H) > 0
        BY <1>4, <3>2, OneLess
      <4> QED
        BY <1>3, <1>4, <1>5, <1>7, <2>1, <2>4, <3>2, <4>1 DEF Dropped, Floored
    <3> QED
      BY <2>4, <3>1, <3>2 DEF Dropped, H, T
  <2>5. CASE HandedOver(k)
    <3>1. (\E c \in T : T' = T \ {c}) /\ (\E i : i \notin H /\ H' = H \union {i}) /\ refs'[k] = refs[k]
      BY <2>5 DEF HandedOver, H, T
    <3>2. IsFiniteSet(T') /\ Cardinality(T') = Cardinality(T) - 1
      BY <1>4, <3>1, OneLess
    <3>3. IsFiniteSet(H') /\ Cardinality(H') = Cardinality(H) + 1
      BY <1>4, <3>1, OneMore
    <3> QED
      BY <1>3, <1>5, <1>7, <2>1, <3>1, <3>2, <3>3
  <2> QED
    BY <1>10, <2>2, <2>3, <2>4, <2>5 DEF Balanced, H, T
<1> QED
  BY <1>8, <1>9, <1>10

-----------------------------------------------------------------------------
\* What a step of a call does to holders, counts and key locks.

SameHeld(i) ==
    inst'[i].held = inst[i].held /\ (inst[i].held => inst'[i].shape = inst[i].shape)

(* Holders that neither come nor go.                                         *)
LEMMA SameHolders ==
    ASSUME \A i \in Instances : SameHeld(i), \A d \in Calls : calls'[d].taken = calls[d].taken
    PROVE  \A k \in MountKeys : Unchanged(k)
<1> TAKE k \in MountKeys
<1>1. \A i \in Instances : i \in HeldBy(k)' <=> i \in HeldBy(k)
  BY DEF HeldBy, SameHeld
<1>2. \A d \in Calls : d \in TakenBy(k)' <=> d \in TakenBy(k)
  BY DEF TakenBy
<1> QED
  BY <1>1, <1>2 DEF Unchanged, HeldBy, TakenBy

(* An instance gives back what it holds.                                     *)
LEMMA GivenBack ==
    ASSUME NEW i \in Instances, \A j \in Instances : j # i => SameHeld(j),
           inst'[i].held = FALSE, \A d \in Calls : calls'[d].taken = calls[d].taken,
           \A k \in MountKeys : refs'[k] = IF inst[i].held /\ k \in inst[i].shape
                                           THEN Floored(refs[k]) ELSE refs[k]
    PROVE  \A k \in MountKeys : Balanced(k)
<1> TAKE k \in MountKeys
<1>1. \A d \in Calls : d \in TakenBy(k)' <=> d \in TakenBy(k)
  BY DEF TakenBy
<1>2. TakenBy(k)' = TakenBy(k)
  BY <1>1 DEF TakenBy
<1>3. \A j \in Instances : j \in HeldBy(k)' <=> j \in HeldBy(k) /\ j # i
  BY DEF HeldBy, SameHeld
<1>4. HeldBy(k)' = HeldBy(k) \ {i}
  BY <1>3 DEF HeldBy
<1>5. CASE i \in HeldBy(k)
  <2>1. refs'[k] = Floored(refs[k])
    BY <1>5 DEF HeldBy
  <2> QED
    BY <1>2, <1>4, <1>5, <2>1 DEF Balanced, Dropped
<1>6. CASE i \notin HeldBy(k)
  <2>1. refs'[k] = refs[k]
    BY <1>6 DEF HeldBy
  <2>2. HeldBy(k)' = HeldBy(k)
    BY <1>4, <1>6
  <2> QED
    BY <1>2, <2>1, <2>2 DEF Balanced, Unchanged
<1> QED
  BY <1>5, <1>6

KeysMoved(c) ==
    \/ keyLocks' = keyLocks /\ calls'[c].run \subseteq calls[c].run
    \/ \E k \in MountKeys : /\ k \notin keyLocks /\ keyLocks' = keyLocks \union {k}
                            /\ calls'[c].run \subseteq calls[c].run \union {k}
    \/ \E k \in calls[c].run : /\ keyLocks' = keyLocks \ {k}
                               /\ calls'[c].run = calls[c].run \ {k}

MountDeed(c) ==
    /\ Mounts(c)' /\ KeysMoved(c)
    /\ \A k \in MountKeys : Balanced(k)
    /\ \A i \in Instances : inst'[i].held => inst[i].held \/ (inst'[i].status # "none" /\ hub = "up")

(* A call that does nothing about mounts.                                    *)
LEMMA QuietDeed ==
    ASSUME NEW c \in Calls, Acting(c), mountVars' = mountVars, \A i \in Instances : SameHeld(i),
           calls'[c].taken = calls[c].taken, calls'[c].run = calls[c].run, Mounts(c)'
    PROVE  MountDeed(c)
<1>1. \A d \in Calls : calls'[d].taken = calls[d].taken
  BY DEF Acting
<1>2. \A k \in MountKeys : Unchanged(k)
  BY <1>1, SameHolders
<1> QED
  BY <1>2 DEF MountDeed, KeysMoved, Balanced, mountVars, SameHeld

(* A call that does not mount has no counts of its own.                      *)
LEMMA Empty ==
    ASSUME NEW c \in Calls, calls'[c].taken = {}, calls'[c].run = {},
           calls'[c].pc \notin {"create", "mount"}
    PROVE  Mounts(c)'
BY DEF Mounts

LEMMA SettledEmpty ==
    ASSUME TypeInv, NEW c \in Calls, Settled(c)
    PROVE  calls'[c].taken = {} /\ calls'[c].run = {} /\ calls'[c].pc = "done" /\ Mounts(c)'
<1>1. calls'[c].taken = {} /\ calls'[c].run = {} /\ calls'[c].pc = "done"
  BY DEF Settled, NoCall, TypeInv, CallsTyped
<1> QED
  BY <1>1, Empty

LEMMA ReachEmpty ==
    ASSUME TypeInv, NEW c \in Calls, calls[c].taken = {}, calls[c].run = {},
           NEW pc, pc \notin {"create", "mount"},
           Reach(c, pc) \/ \E i : calls' = [calls EXCEPT ![c].inst = i, ![c].pc = pc]
    PROVE  calls'[c].taken = {} /\ calls'[c].run = {} /\ calls'[c].pc = pc /\ Mounts(c)'
<1>1. calls \in [Calls -> Call]
  BY DEF TypeInv, CallsTyped
<1>2. CASE Reach(c, pc)
  <2>1. calls'[c] = [calls[c] EXCEPT !.pc = pc] /\ calls[c] \in Call
    BY <1>1, <1>2 DEF Reach
  <2>2. calls'[c].taken = {} /\ calls'[c].run = {} /\ calls'[c].pc = pc
    BY <2>1 DEF Call
  <2> QED
    BY <2>2, Empty
<1>3. ASSUME NEW i, calls' = [calls EXCEPT ![c].inst = i, ![c].pc = pc]
      PROVE  calls'[c].taken = {} /\ calls'[c].run = {} /\ calls'[c].pc = pc /\ Mounts(c)'
  <2>1. calls'[c] = [calls[c] EXCEPT !.inst = i, !.pc = pc] /\ calls[c] \in Call
    BY <1>1, <1>3
  <2>2. calls'[c].taken = {} /\ calls'[c].run = {} /\ calls'[c].pc = pc
    BY <2>1 DEF Call
  <2> QED
    BY <2>2, Empty
<1> QED
  BY <1>2, <1>3

(* An acquire that reserves has still to mount everything.                   *)
LEMMA ReservedEmpty ==
    ASSUME MountInv, NEW c \in Calls, calls[c].taken = {}, calls[c].run = {},
           NEW known, known = inst \/ \E i : known = Unheld(i), Reserve(c, known)
    PROVE  /\ calls'[c].taken = {} /\ calls'[c].run = {} /\ Mounts(c)'
           /\ \A i \in Instances : inst'[i].held = known[i].held
                                   /\ (known[i].held => inst'[i].shape = inst[i].shape)
<1> USE DEF MountInv, ServeInv, RegistryInv, TypeInv
<1>0. /\ calls \in [Calls -> Call] /\ inst \in [Instances -> Instance]
      /\ known \in [Instances -> Instance]
  BY UnheldTyped DEF CallsTyped, RegistryTyped
<1>1. \A i \in Instances : known[i].shape = inst[i].shape /\ (known[i].held => inst[i].held)
  BY <1>0 DEF Unheld, Instance
<1>2. CASE Settled(c) /\ inst' = known
  BY <1>1, <1>2, SettledEmpty
<1>3. ASSUME NEW j \in Instances, inst[j].status = "none",
             inst' = [known EXCEPT ![j] = [NoInst EXCEPT !.area = calls[c].area,
                        !.owner = calls[c].owner, !.shape = calls[c].shape, !.status = "starting"]],
             calls' = [calls EXCEPT ![c].inst = j, ![c].pc = "create"]
      PROVE  /\ calls'[c].taken = {} /\ calls'[c].run = {} /\ Mounts(c)'
             /\ \A i \in Instances : inst'[i].held = known[i].held
                                     /\ (known[i].held => inst'[i].shape = inst[i].shape)
  <2>1. /\ calls'[c].taken = {} /\ calls'[c].run = {} /\ calls'[c].pc = "create"
        /\ calls'[c].inst = j /\ calls'[c].shape = calls[c].shape
    BY <1>0, <1>3 DEF Call
  <2>2. inst'[j].held = FALSE /\ inst'[j].shape = calls[c].shape
    BY <1>0, <1>3 DEF NoInst
  <2>3. ~inst[j].held
    BY <1>3 DEF HeldSound
  <2>4. ~known[j].held /\ known[j].held \in BOOLEAN
    BY <1>0, <1>1, <2>3 DEF Instance
  <2>5. \A i \in Instances : i # j => inst'[i] = known[i]
    BY <1>0, <1>3
  <2>6. Mounts(c)'
    BY <2>1, <2>2 DEF Mounts
  <2> QED
    BY <1>1, <2>1, <2>2, <2>4, <2>5, <2>6
<1> QED
  BY <1>2, <1>3 DEF Reserve

-----------------------------------------------------------------------------
\* The steps of calls, one after the other.

(* A call arrives with nothing mounted.                                      *)
LEMMA ArrivalMounts ==
    ASSUME MountInv, NEW c \in Calls, Acting(c),
           \/ \E a \in Areas, o \in Owners, s \in Shapes : Acquire(c, a, o, s)
           \/ \E op \in {"release", "quiesce", "update"}, i \in Instances : OnInstance(c, op, i)
           \/ \E op \in {"delete", "force_delete"}, a \in Areas : Delete(c, op, a)
    PROVE  MountDeed(c)
<1>0. calls \in [Calls -> Call] /\ Mounts(c)
  BY DEF MountInv, ServeInv, RegistryInv, TypeInv, CallsTyped, CallsMount
<1>1. calls[c].pc = "idle" /\ inst' = inst /\ mountVars' = mountVars
  BY DEF Acquire, OnInstance, Delete, Arrive
<1>2. calls'[c].taken = {} /\ calls'[c].run = {} /\ calls'[c].pc = "lock"
  <2>1. ASSUME NEW a \in Areas, NEW o \in Owners, NEW s \in Shapes, Acquire(c, a, o, s)
        PROVE  calls'[c].taken = {} /\ calls'[c].run = {} /\ calls'[c].pc = "lock"
    BY <1>0, <2>1 DEF Acquire, Arrive, NoCall
  <2>2. ASSUME NEW op \in {"release", "quiesce", "update"}, NEW i \in Instances, OnInstance(c, op, i)
        PROVE  calls'[c].taken = {} /\ calls'[c].run = {} /\ calls'[c].pc = "lock"
    BY <1>0, <2>2 DEF OnInstance, Arrive, NoCall
  <2>3. ASSUME NEW op \in {"delete", "force_delete"}, NEW a \in Areas, Delete(c, op, a)
        PROVE  calls'[c].taken = {} /\ calls'[c].run = {} /\ calls'[c].pc = "lock"
    BY <1>0, <2>3 DEF Delete, Arrive, NoCall
  <2> QED
    BY <2>1, <2>2, <2>3
<1>3. Mounts(c)'
  BY <1>2, Empty
<1>4. calls[c].taken = {} /\ calls[c].run = {}
  BY <1>0, <1>1 DEF Mounts
<1> QED
  BY <1>1, <1>2, <1>3, <1>4, QuietDeed DEF SameHeld

(* The lock is granted: nothing is mounted yet.                              *)
LEMMA LockMounts ==
    ASSUME MountInv, NEW c \in Calls, Acting(c), Lock(c)
    PROVE  MountDeed(c)
<1> USE DEF MountInv, ServeInv, RegistryInv, TypeInv
<1>0. calls[c].taken = {} /\ calls[c].run = {} /\ mountVars' = mountVars
  BY DEF Lock, CallsMount, Mounts
<1>1. ASSUME calls'[c].taken = {}, calls'[c].run = {}, Mounts(c)', \A i \in Instances : SameHeld(i)
      PROVE  MountDeed(c)
  BY <1>0, <1>1, QuietDeed
<1>2. CASE Settled(c) /\ inst' = inst
  BY <1>1, <1>2, SettledEmpty DEF SameHeld
<1>3. CASE Reserve(c, inst)
  BY <1>0, <1>1, <1>3, ReservedEmpty DEF SameHeld
<1>4. ASSUME NEW pc \in {"rmwa", "discard", "quiesce", "update", "probe"}, inst' = inst,
             Reach(c, pc) \/ \E i : calls' = [calls EXCEPT ![c].inst = i, ![c].pc = pc]
      PROVE  MountDeed(c)
  BY <1>0, <1>1, <1>4, ReachEmpty DEF SameHeld
<1>5. CASE LockAcquire(c)
  BY <1>2, <1>3, <1>4, <1>5 DEF LockAcquire
<1>6. CASE LockInstance(c)
  BY <1>2, <1>4, <1>6 DEF LockInstance
<1>7. CASE LockDelete(c)
  BY <1>2, <1>4, <1>7 DEF LockDelete
<1> QED
  BY <1>5, <1>6, <1>7 DEF Lock

(* So is what a call does to an instance that it has found, or started.      *)
LEMMA TendedMounts ==
    ASSUME MountInv, NEW c \in Calls, Acting(c),
           Reuse(c) \/ Start(c) \/ Started(c) \/ Quiesce(c) \/ Update(c) \/ RemoveFiles(c)
    PROVE  MountDeed(c)
<1> USE DEF MountInv, ServeInv, RegistryInv, TypeInv
<1>0. inst \in [Instances -> Instance]
  BY DEF RegistryTyped
<1>1. mountVars' = mountVars
  BY DEF Reuse, Start, Started, Quiesce, Update, RemoveFiles
<1>2. calls[c].taken = {} /\ calls[c].run = {}
  BY DEF Reuse, Start, Started, Quiesce, Update, RemoveFiles, CallsMount, Mounts
<1>3. \A i \in Instances : SameHeld(i)
  <2>1. CASE Reuse(c) \/ Start(c) \/ Update(c) \/ RemoveFiles(c)
    BY <2>1 DEF Reuse, Rebuild, Start, Update, RemoveFiles, still, SameHeld
  <2>2. CASE Started(c)
    BY <1>0, <2>2 DEF Started, SameHeld, Instance
  <2>3. CASE Quiesce(c)
    BY <1>0, <2>3 DEF Quiesce, SameHeld, Instance
  <2> QED
    BY <2>1, <2>2, <2>3
<1>4. Settled(c) \/ \E pc \in {"discard", "alive", "busy", "switch", "answered", "wait", "quiesced"} : Reach(c, pc)
  BY DEF Reuse, Rebuild, Start, Started, Quiesce, Update, RemoveFiles
<1>5. calls'[c].taken = {} /\ calls'[c].run = {} /\ Mounts(c)'
  BY <1>2, <1>4, SettledEmpty, ReachEmpty
<1> QED
  BY <1>1, <1>2, <1>3, <1>5, QuietDeed

(* The mounts begin, or are told to stop; a call cancelled later has none.   *)
LEMMA BegunMounts ==
    ASSUME MountInv, NEW c \in Calls, Acting(c), CreateDirs(c) \/ Cancel(c)
    PROVE  MountDeed(c)
<1> USE DEF MountInv, ServeInv, RegistryInv, TypeInv
<1>0. calls \in [Calls -> Call] /\ calls[c] \in Call /\ Mounts(c)
  BY DEF CallsTyped, CallsMount
<1>1. mountVars' = mountVars /\ inst' = inst
  BY DEF CreateDirs, Cancel
<1>2. \A i \in Instances : SameHeld(i)
  BY <1>1 DEF SameHeld
<1>3. CASE CreateDirs(c)
  <2>1. /\ calls'[c].taken = calls[c].taken /\ calls'[c].run = calls[c].run
        /\ calls'[c].todo = calls[c].shape /\ calls'[c].inst = calls[c].inst
        /\ calls'[c].pc = "mount"
    BY <1>0, <1>3 DEF CreateDirs, Call
  <2>2. calls[c].pc = "create" /\ calls[c].taken = {} /\ calls[c].run = {}
    BY <1>0, <1>3 DEF CreateDirs, Mounts
  <2>3. ~inst[calls[c].inst].held /\ calls[c].shape = inst[calls[c].inst].shape
    BY <1>0, <2>2 DEF Mounts
  <2>4. Mounts(c)'
    BY <1>1, <2>1, <2>2, <2>3 DEF Mounts
  <2> QED
    BY <1>1, <1>2, <2>1, <2>4, QuietDeed
<1>4. CASE Cancel(c) /\ calls[c].pc = "mount"
  <2>1. /\ calls'[c].taken = calls[c].taken /\ calls'[c].run = calls[c].run
        /\ calls'[c].todo = calls[c].todo /\ calls'[c].inst = calls[c].inst
        /\ calls'[c].pc = calls[c].pc /\ calls'[c].stop = TRUE
    BY <1>0, <1>4 DEF Cancel, Call
  <2>2. Mounts(c)'
    BY <1>0, <1>1, <1>4, <2>1 DEF Mounts
  <2> QED
    BY <1>1, <1>2, <2>1, <2>2, QuietDeed
<1>5. CASE Cancel(c) /\ calls[c].pc # "mount"
  <2>1. Settled(c) /\ calls[c].taken = {} /\ calls[c].run = {}
    BY <1>0, <1>5 DEF Cancel, Mounts
  <2> QED
    BY <1>1, <1>2, <2>1, SettledEmpty, QuietDeed
<1> QED
  BY <1>3, <1>4, <1>5

(* Giving back takes one from the count of each key, but never below zero.   *)
LEMMA ReleasedCounts ==
    ASSUME NEW K, ReleaseKeys(K), NEW k \in MountKeys
    PROVE  refs'[k] = IF k \in K THEN Floored(refs[k]) ELSE refs[k]
BY DEF ReleaseKeys, Floored

(* An instance that is discarded has given back what it held.                *)
LEMMA EndedBack ==
    ASSUME NEW i \in Instances, NEW gone, DiscardEnd(i, gone), NEW k \in MountKeys
    PROVE  refs'[k] = IF inst[i].held /\ k \in inst[i].shape THEN Floored(refs[k]) ELSE refs[k]
BY ReleasedCounts DEF DiscardEnd

LEMMA UnheldHeld ==
    ASSUME RegistryTyped, NEW i \in Instances
    PROVE  /\ Unheld(i)[i].held = FALSE
           /\ \A j \in Instances : Unheld(i)[j].shape = inst[j].shape
           /\ \A j \in Instances : j # i => Unheld(i)[j] = inst[j]
BY DEF RegistryTyped, Unheld, Instance

(* The discard of a call gives back what the instance held.                  *)
LEMMA DiscardedMounts ==
    ASSUME MountInv, NEW c \in Calls, Acting(c), Discarded(c)
    PROVE  MountDeed(c)
<1> USE DEF MountInv, ServeInv, RegistryInv, TypeInv
<1> PICK i \in Instances : i = calls[c].inst
  BY DEF Discarded, CallsTyped, Working
<1>0. inst \in [Instances -> Instance]
  BY DEF RegistryTyped
<1>1. calls[c].taken = {} /\ calls[c].run = {}
  BY DEF Discarded, CallsMount, Mounts
<1>2. PICK gone \in BOOLEAN : DiscardEnd(i, gone)
  BY DEF Discarded
<1>3. keyLocks' = keyLocks
  BY <1>2 DEF DiscardEnd
<1>4. \A k \in MountKeys :
        refs'[k] = IF inst[i].held /\ k \in inst[i].shape THEN Floored(refs[k]) ELSE refs[k]
  BY <1>2, EndedBack
<1>5. /\ calls'[c].taken = {} /\ calls'[c].run = {} /\ Mounts(c)'
      /\ \A j \in Instances : inst'[j].held = Unheld(i)[j].held
                              /\ (Unheld(i)[j].held => inst'[j].shape = inst[j].shape)
  <2>1. CASE calls[c].op = "acquire"
    <3>1. Reserve(c, Unheld(i))
      BY <2>1 DEF Discarded
    <3> QED
      BY <1>1, <3>1, ReservedEmpty
  <2>2. CASE calls[c].op # "acquire"
    <3>1. inst' = Unheld(i) /\ (Settled(c) \/ Reach(c, "rmwa"))
      BY <2>2 DEF Discarded
    <3>2. calls'[c].taken = {} /\ calls'[c].run = {} /\ Mounts(c)'
      BY <1>1, <3>1, SettledEmpty, ReachEmpty
    <3> QED
      BY <3>1, <3>2, UnheldHeld
  <2> QED
    BY <2>1, <2>2
<1>6. inst'[i].held = FALSE /\ \A j \in Instances : j # i => SameHeld(j)
  BY <1>5, UnheldHeld DEF SameHeld
<1>7. \A d \in Calls : calls'[d].taken = calls[d].taken
  BY <1>1, <1>5 DEF Acting
<1>8. \A k \in MountKeys : Balanced(k)
  BY <1>4, <1>6, <1>7, GivenBack
<1>9. \A j \in Instances : inst'[j].held => inst[j].held
  BY <1>6 DEF SameHeld
<1> QED
  BY <1>1, <1>3, <1>5, <1>8, <1>9 DEF MountDeed, KeysMoved

(* A creation that fails gives back what it has: the instance's mounts once  *)
(* it holds them, those counted for the call before that.                    *)
LEMMA UndoneMounts ==
    ASSUME MountInv, NEW c \in Calls, Acting(c), RollBack(c) \/ CreateFails(c)
    PROVE  MountDeed(c)
<1> USE DEF MountInv, ServeInv, RegistryInv, TypeInv
<1>0. inst \in [Instances -> Instance] /\ Mounts(c)
  BY DEF RegistryTyped, CallsMount
<1> PICK i \in Instances : i = calls[c].inst
  BY DEF RollBack, CreateFails, CallsTyped, Working, Creating
<1>1. /\ inst' = Unheld(i) /\ keyLocks' = keyLocks /\ Settled(c)
      /\ calls[c].run = {}
  BY <1>0 DEF RollBack, CreateFails, DiscardNow, Mounts
<1>2. calls'[c].taken = {} /\ calls'[c].run = {} /\ Mounts(c)'
  BY <1>1, SettledEmpty
<1>3. inst'[i].held = FALSE /\ \A j \in Instances : j # i => SameHeld(j)
  BY <1>1, UnheldHeld DEF SameHeld
<1>4. \A j \in Instances : inst'[j].held => inst[j].held
  BY <1>3 DEF SameHeld
<1>5. CASE CreateFails(c)
  <2>1. calls[c].taken = {}
    BY <1>0, <1>5 DEF CreateFails, Mounts
  <2>2. ReleaseKeys({} \union (IF inst[i].held THEN inst[i].shape ELSE {}))
    BY <1>5 DEF CreateFails, DiscardNow
  <2>3. \A k \in MountKeys :
          refs'[k] = IF inst[i].held /\ k \in inst[i].shape THEN Floored(refs[k]) ELSE refs[k]
    BY <2>2, ReleasedCounts
  <2>4. \A d \in Calls : calls'[d].taken = calls[d].taken
    BY <1>2, <2>1 DEF Acting
  <2>5. \A k \in MountKeys : Balanced(k)
    BY <1>3, <2>3, <2>4, GivenBack
  <2> QED
    BY <1>1, <1>2, <1>4, <2>5 DEF MountDeed, KeysMoved
<1>6. CASE RollBack(c)
  <2>1. ~inst[i].held
    BY <1>0, <1>6 DEF RollBack, Mounts
  <2>2. ReleaseKeys(calls[c].taken \union (IF inst[i].held THEN inst[i].shape ELSE {}))
    BY <1>6 DEF RollBack, DiscardNow
  <2>3. ASSUME NEW k \in MountKeys PROVE Balanced(k)
    <3>1. refs'[k] = IF k \in calls[c].taken THEN Floored(refs[k]) ELSE refs[k]
      BY <2>1, <2>2, ReleasedCounts
    <3>2. \A j \in Instances : j \in HeldBy(k)' <=> j \in HeldBy(k)
      BY <1>3, <2>1 DEF HeldBy, SameHeld
    <3>3. HeldBy(k)' = HeldBy(k)
      BY <3>2 DEF HeldBy
    <3>4. \A d \in Calls : d \in TakenBy(k)' <=> d \in TakenBy(k) /\ d # c
      BY <1>2 DEF TakenBy, Acting
    <3>5. TakenBy(k)' = TakenBy(k) \ {c} /\ (c \in TakenBy(k) <=> k \in calls[c].taken)
      BY <3>4 DEF TakenBy
    <3>6. CASE k \in calls[c].taken
      BY <3>1, <3>3, <3>5, <3>6 DEF Balanced, Dropped
    <3>7. CASE k \notin calls[c].taken
      <4>1. TakenBy(k)' = TakenBy(k) /\ refs'[k] = refs[k]
        BY <3>1, <3>5, <3>7
      <4> QED
        BY <3>3, <4>1 DEF Balanced, Unchanged
    <3> QED
      BY <3>6, <3>7
  <2> QED
    BY <1>1, <1>2, <1>4, <2>3 DEF MountDeed, KeysMoved
<1> QED
  BY <1>5, <1>6

(* The mounts are complete: what was counted for the call is the instance's. *)
LEMMA MountedMounts ==
    ASSUME MountInv, NEW c \in Calls, Acting(c), Mounted(c)
    PROVE  MountDeed(c)
<1> USE DEF MountInv, ServeInv, RegistryInv, TypeInv
<1>0. inst \in [Instances -> Instance] /\ calls \in [Calls -> Call] /\ calls[c] \in Call
      /\ Mounts(c) /\ Serves(c)
  BY DEF RegistryTyped, CallsTyped, CallsMount, CallsServe
<1>1. /\ calls[c].pc = "mount" /\ ~calls[c].stop /\ calls[c].todo = {} /\ calls[c].run = {}
      /\ mountVars' = mountVars
  BY DEF Mounted
<1> PICK i \in Instances : i = calls[c].inst
  BY <1>1 DEF CallsTyped, Working, Creating
<1>2. calls'[c].taken = {} /\ calls'[c].run = {} /\ calls'[c].pc = "start"
  BY <1>0, <1>1 DEF Mounted, Call
<1>3. calls[c].taken = inst[i].shape /\ ~inst[i].held /\ inst[i].status # "none"
  BY <1>0, <1>1 DEF Mounts, Serves, Creating
<1>4. /\ inst'[i].held = TRUE /\ inst'[i].shape = inst[i].shape /\ inst'[i].status = inst[i].status
      /\ \A j \in Instances : j # i => inst'[j] = inst[j]
  BY <1>0 DEF Mounted, Instance
<1>5. ASSUME NEW k \in MountKeys PROVE Balanced(k)
  <2>1. refs' = refs
    BY <1>1 DEF mountVars
  <2>2. \A d \in Calls : d \in TakenBy(k)' <=> d \in TakenBy(k) /\ d # c
    BY <1>2 DEF TakenBy, Acting
  <2>3. TakenBy(k)' = TakenBy(k) \ {c} /\ (c \in TakenBy(k) <=> k \in inst[i].shape)
    BY <1>3, <2>2 DEF TakenBy
  <2>4. \A j \in Instances : j \in HeldBy(k)' <=> (j \in HeldBy(k) \/ (j = i /\ k \in inst[i].shape))
    BY <1>4 DEF HeldBy
  <2>5. i \notin HeldBy(k)
    BY <1>3 DEF HeldBy
  <2>6. CASE k \in inst[i].shape
    <3>1. HeldBy(k)' = HeldBy(k) \union {i}
      BY <2>4, <2>6 DEF HeldBy
    <3> QED
      BY <2>1, <2>3, <2>5, <2>6, <3>1 DEF Balanced, HandedOver
  <2>7. CASE k \notin inst[i].shape
    <3>1. HeldBy(k)' = HeldBy(k)
      BY <2>4, <2>7 DEF HeldBy
    <3>2. TakenBy(k)' = TakenBy(k)
      BY <2>3, <2>7
    <3> QED
      BY <2>1, <3>1, <3>2 DEF Balanced, Unchanged
  <2> QED
    BY <2>6, <2>7
<1>6. Mounts(c)'
  BY <1>2, Empty
<1>7. KeysMoved(c)
  BY <1>1, <1>2 DEF KeysMoved, mountVars
<1>8. hub = "up"
  BY <1>1 DEF CallsServed
<1> QED
  BY <1>3, <1>4, <1>5, <1>6, <1>7, <1>8 DEF MountDeed

(* A key counted for a call: it becomes one of the key's holders.            *)
LEMMA CountedBalance ==
    ASSUME MountInv, NEW c \in Calls, Acting(c), inst' = inst, NEW k \in MountKeys, Count(k),
           calls'[c].taken = calls[c].taken \union {k}, k \notin calls[c].taken,
           ~(rec.pc = "unmount" /\ rec.now = k)
    PROVE  \A j \in MountKeys : Balanced(j)
<1> TAKE j \in MountKeys
<1>1. refs'[j] = IF j = k THEN refs[j] + 1 ELSE refs[j]
  BY DEF MountInv, ServeInv, RegistryInv, TypeInv, MountsTypeOK, Count
<1>2. HeldBy(j)' = HeldBy(j)
  BY DEF HeldBy
<1>3. \A d \in Calls : d \in TakenBy(j)' <=> (d \in TakenBy(j) \/ (d = c /\ j = k))
  BY DEF TakenBy, Acting
<1>4. CASE j = k
  <2>1. c \notin TakenBy(j) /\ TakenBy(j)' = TakenBy(j) \union {c}
    BY <1>3, <1>4 DEF TakenBy
  <2> QED
    BY <1>1, <1>2, <1>4, <2>1 DEF Balanced, Gained
<1>5. CASE j # k
  <2>1. TakenBy(j)' = TakenBy(j)
    BY <1>3, <1>5 DEF TakenBy
  <2> QED
    BY <1>1, <1>2, <1>5, <2>1 DEF Balanced, Unchanged
<1> QED
  BY <1>4, <1>5

(* A mount begins, or finds the directory there.                             *)
LEMMA MountOneMounts ==
    ASSUME MountInv, NEW c \in Calls, Acting(c), NEW k \in MountKeys, MountOne(c, k)
    PROVE  MountDeed(c)
<1> USE DEF MountInv, ServeInv, RegistryInv, TypeInv
<1>0. calls \in [Calls -> Call] /\ calls[c] \in Call /\ Mounts(c)
  BY DEF CallsTyped, CallsMount
<1>1. /\ calls[c].pc = "mount" /\ ~calls[c].stop /\ k \in calls[c].todo
      /\ k \notin keyLocks /\ inst' = inst
  BY DEF MountOne, MountPossible, still
<1>2. ~(rec.pc = "unmount" /\ rec.now = k)
  BY <1>1 DEF KeysLocked
<1>3. k \notin calls[c].taken /\ k \notin calls[c].run
  BY <1>0, <1>1 DEF Mounts
<1>4. \A j \in Instances : inst'[j].held => inst[j].held
  BY <1>1
<1>5. CASE /\ MountFound(k)
           /\ calls' = [calls EXCEPT ![c].todo = @ \ {k}, ![c].taken = @ \union {k}]
  <2>1. calls'[c] = [calls[c] EXCEPT !.todo = @ \ {k}, !.taken = @ \union {k}]
    BY <1>0, <1>5
  <2>2. /\ calls'[c].todo = calls[c].todo \ {k} /\ calls'[c].taken = calls[c].taken \union {k}
        /\ calls'[c].run = calls[c].run /\ calls'[c].inst = calls[c].inst
        /\ calls'[c].pc = calls[c].pc /\ calls'[c].stop = calls[c].stop
    BY <1>0, <2>1 DEF Call
  <2>3. Mounts(c)'
    BY <1>0, <1>1, <1>3, <2>2 DEF Mounts
  <2>4. Count(k) /\ keyLocks' = keyLocks
    BY <1>5 DEF MountFound
  <2>5. \A j \in MountKeys : Balanced(j)
    BY <1>1, <1>2, <1>3, <2>2, <2>4, CountedBalance
  <2> QED
    BY <1>4, <2>2, <2>3, <2>4, <2>5 DEF MountDeed, KeysMoved
<1>6. CASE /\ MountBegin(k)
           /\ calls' = [calls EXCEPT ![c].todo = @ \ {k}, ![c].run = @ \union {k}]
  <2>1. calls'[c] = [calls[c] EXCEPT !.todo = @ \ {k}, !.run = @ \union {k}]
    BY <1>0, <1>6
  <2>2. /\ calls'[c].todo = calls[c].todo \ {k} /\ calls'[c].run = calls[c].run \union {k}
        /\ calls'[c].taken = calls[c].taken /\ calls'[c].inst = calls[c].inst
        /\ calls'[c].pc = calls[c].pc /\ calls'[c].stop = calls[c].stop
    BY <1>0, <2>1 DEF Call
  <2>3. Mounts(c)'
    BY <1>0, <1>1, <1>3, <2>2 DEF Mounts
  <2>4. refs' = refs /\ keyLocks' = keyLocks \union {k}
    BY <1>6 DEF MountBegin
  <2>5. \A d \in Calls : calls'[d].taken = calls[d].taken
    BY <2>2 DEF Acting
  <2>6. \A j \in MountKeys : Balanced(j)
    BY <1>1, <2>4, <2>5, SameHolders DEF Balanced, SameHeld
  <2> QED
    BY <1>1, <1>4, <2>2, <2>3, <2>4, <2>6 DEF MountDeed, KeysMoved
<1> QED
  BY <1>5, <1>6 DEF MountOne

(* A mount under way comes to its end: counted, given up or failed.          *)
LEMMA MountOverMounts ==
    ASSUME MountInv, NEW c \in Calls, Acting(c), NEW k \in MountKeys, MountOver(c, k)
    PROVE  MountDeed(c)
<1> USE DEF MountInv, ServeInv, RegistryInv, TypeInv
<1>0. calls \in [Calls -> Call] /\ calls[c] \in Call /\ Mounts(c)
  BY DEF CallsTyped, CallsMount
<1>1. k \in calls[c].run /\ inst' = inst
  BY DEF MountOver, still
<1>2. ~(rec.pc = "unmount" /\ rec.now = k)
  BY <1>1 DEF KeysLocked
<1>3. k \notin calls[c].taken /\ k \notin calls[c].todo /\ calls[c].pc = "mount"
  BY <1>0, <1>1 DEF Mounts
<1>4. \A j \in Instances : inst'[j].held => inst[j].held
  BY <1>1
<1>5. CASE /\ ~calls[c].stop /\ MountDone(k)
           /\ calls' = [calls EXCEPT ![c].run = @ \ {k}, ![c].taken = @ \union {k}]
  <2>1. calls'[c] = [calls[c] EXCEPT !.run = @ \ {k}, !.taken = @ \union {k}]
    BY <1>0, <1>5
  <2>2. /\ calls'[c].run = calls[c].run \ {k} /\ calls'[c].taken = calls[c].taken \union {k}
        /\ calls'[c].todo = calls[c].todo /\ calls'[c].inst = calls[c].inst
        /\ calls'[c].pc = calls[c].pc /\ calls'[c].stop = calls[c].stop
    BY <1>0, <2>1 DEF Call
  <2>3. Mounts(c)'
    BY <1>0, <1>1, <1>3, <2>2 DEF Mounts
  <2>4. Count(k) /\ keyLocks' = keyLocks \ {k}
    BY <1>5 DEF MountDone
  <2>5. \A j \in MountKeys : Balanced(j)
    BY <1>1, <1>2, <1>3, <2>2, <2>4, CountedBalance
  <2> QED
    BY <1>1, <1>4, <2>2, <2>3, <2>4, <2>5 DEF MountDeed, KeysMoved
<1>6. CASE /\ calls[c].stop /\ MountDoneCancelled(k)
           /\ calls' = [calls EXCEPT ![c].run = @ \ {k}]
  <2>1. calls'[c] = [calls[c] EXCEPT !.run = @ \ {k}]
    BY <1>0, <1>6
  <2>2. /\ calls'[c].run = calls[c].run \ {k} /\ calls'[c].taken = calls[c].taken
        /\ calls'[c].todo = calls[c].todo /\ calls'[c].inst = calls[c].inst
        /\ calls'[c].pc = calls[c].pc /\ calls'[c].stop = calls[c].stop
    BY <1>0, <2>1 DEF Call
  <2>3. Mounts(c)'
    BY <1>0, <1>1, <1>6, <2>2 DEF Mounts
  <2>4. refs' = refs /\ keyLocks' = keyLocks \ {k}
    BY <1>6 DEF MountDoneCancelled
  <2>5. \A d \in Calls : calls'[d].taken = calls[d].taken
    BY <2>2 DEF Acting
  <2>6. \A j \in MountKeys : Balanced(j)
    BY <1>1, <2>4, <2>5, SameHolders DEF Balanced, SameHeld
  <2> QED
    BY <1>1, <1>4, <2>2, <2>3, <2>4, <2>6 DEF MountDeed, KeysMoved
<1>7. CASE /\ MountFailed(k)
           /\ calls' = [calls EXCEPT ![c].run = @ \ {k}, ![c].stop = TRUE]
  <2>1. calls'[c] = [calls[c] EXCEPT !.run = @ \ {k}, !.stop = TRUE]
    BY <1>0, <1>7
  <2>2. /\ calls'[c].run = calls[c].run \ {k} /\ calls'[c].taken = calls[c].taken
        /\ calls'[c].todo = calls[c].todo /\ calls'[c].inst = calls[c].inst
        /\ calls'[c].pc = calls[c].pc /\ calls'[c].stop = TRUE
    BY <1>0, <2>1 DEF Call
  <2>3. Mounts(c)'
    BY <1>0, <1>1, <1>3, <2>2 DEF Mounts
  <2>4. refs' = refs /\ keyLocks' = keyLocks \ {k}
    BY <1>7 DEF MountFailed
  <2>5. \A d \in Calls : calls'[d].taken = calls[d].taken
    BY <2>2 DEF Acting
  <2>6. \A j \in MountKeys : Balanced(j)
    BY <1>1, <2>4, <2>5, SameHolders DEF Balanced, SameHeld
  <2> QED
    BY <1>1, <1>4, <2>2, <2>3, <2>4, <2>6 DEF MountDeed, KeysMoved
<1> QED
  BY <1>5, <1>6, <1>7 DEF MountOver

(* Every step of a call accounts for the mounts it takes and gives back.     *)
LEMMA CallMountDeed ==
    ASSUME MountInv, NEW c \in Calls, CallStep(c)
    PROVE  MountDeed(c)
<1>1. Acting(c)
  BY CallActs DEF MountInv, ServeInv, RegistryInv
<1> QED
  BY <1>1, ArrivalMounts, LockMounts, TendedMounts, BegunMounts, DiscardedMounts, UndoneMounts,
     MountedMounts, MountOneMounts, MountOverMounts DEF CallStep

(* Only a reset wipes counts.                                                *)
LEMMA CallWipesNothing ==
    ASSUME TypeInv, NEW c \in Calls, CallStep(c)
    PROVE  past'.wiped = past.wiped
<1>0. past \in History
  BY DEF TypeInv, ProcessTyped
<1>1. ASSUME NEW i, Lose(i) PROVE past'.wiped = past.wiped
  BY <1>0, <1>1 DEF Lose, History
<1>2. ASSUME \/ \E a \in Areas, o \in Owners, s \in Shapes : Acquire(c, a, o, s)
             \/ \E op \in {"release", "quiesce", "update"}, i \in Instances : OnInstance(c, op, i)
             \/ \E op \in {"delete", "force_delete"}, a \in Areas : Delete(c, op, a)
             \/ \E k \in MountKeys : MountOne(c, k) \/ MountOver(c, k)
      PROVE  past' = past
  BY <1>2 DEF Acquire, OnInstance, Delete, Arrive, MountOne, MountOver
<1>3. ASSUME Lock(c) \/ Reuse(c) \/ CreateDirs(c) \/ RollBack(c) \/ Mounted(c) \/ Start(c)
             \/ Started(c) \/ Quiesce(c) \/ Update(c) \/ RemoveFiles(c)
      PROVE  past' = past
  BY <1>3 DEF Lock, Reuse, Rebuild, CreateDirs, RollBack, Mounted, Start, Started, Quiesce, Update,
     RemoveFiles
<1>4. ASSUME Discarded(c) \/ CreateFails(c) \/ Cancel(c)
      PROVE  past' = past \/ \E i : Lose(i)
  BY <1>4 DEF Discarded, CreateFails, Cancel, Forgive
<1> QED
  BY <1>1, <1>2, <1>3, <1>4 DEF CallStep

-----------------------------------------------------------------------------
\* The invariant under the steps of calls.

(* Steps that are balanced for every key keep all counts exact.              *)
LEMMA CountsKept ==
    ASSUME MountInv, \A k \in MountKeys : Balanced(k),
           \A k \in past.wiped :
               k \in past'.wiped \/ (refs'[k] = 0 /\ HeldBy(k)' = {} /\ TakenBy(k)' = {})
    PROVE  HoldersFinite' /\ RefsMatchHolders'
<1>1. \A k \in MountKeys : Exact(k) /\ Finite(k)
  BY DEF MountInv, RefsMatchHolders, HoldersFinite, Exact, Finite
<1>2. MountsTypeOK
  BY DEF MountInv, ServeInv, RegistryInv, TypeInv
<1>3. \A k \in MountKeys : Exact(k)' /\ Finite(k)'
  BY <1>1, <1>2, BalanceKept
<1> QED
  BY <1>3 DEF RefsMatchHolders, HoldersFinite, Exact, Finite

(* A key without holders is one that no instance and no call has.            *)
LEMMA NoHolders ==
    ASSUME NEW k, Finite(k)
    PROVE  Holders(k) = 0 <=> HeldBy(k) = {} /\ TakenBy(k) = {}
<1>1. Holders(k) = Cardinality(HeldBy(k)) + Cardinality(TakenBy(k))
  BY DEF Holders, HeldBy, TakenBy
<1>2. Cardinality(HeldBy(k)) \in Nat /\ Cardinality(TakenBy(k)) \in Nat
  BY FS_CardinalityType DEF Finite
<1>3. /\ Cardinality(HeldBy(k)) = 0 <=> HeldBy(k) = {}
      /\ Cardinality(TakenBy(k)) = 0 <=> TakenBy(k) = {}
  BY FS_EmptySet DEF Finite
<1> QED
  BY <1>1, <1>2, <1>3

(* What the sweep unmounts stays without holders.                            *)
LEMMA SweepKept ==
    ASSUME MountInv, rec' = rec, past.wiped \subseteq past'.wiped,
           \A k \in MountKeys : Balanced(k), HoldersFinite'
    PROVE  NoUnmountUnderInstance'
<1>1. ASSUME NEW k \in MountKeys, rec.pc = "unmount", rec.now = k, k \notin past'.wiped
      PROVE  Holders(k)' = 0
  <2>1. Finite(k) /\ Finite(k)' /\ Holders(k) = 0
    BY <1>1 DEF MountInv, HoldersFinite, Finite, NoUnmountUnderInstance
  <2>2. HeldBy(k) = {} /\ TakenBy(k) = {}
    BY <2>1, NoHolders
  <2>3. HeldBy(k)' = {} /\ TakenBy(k)' = {}
    BY <1>1, <2>2 DEF Balanced, Unchanged, Gained, Dropped, HandedOver
  <2>4. Cardinality(HeldBy(k)') = 0 /\ Cardinality(TakenBy(k)') = 0
    BY <2>3, FS_EmptySet
  <2> QED
    BY <2>4 DEF Holders, HeldBy, TakenBy
<1>2. rec.pc = "unmount" => rec.now \in MountKeys
  BY DEF MountInv, RoundSound
<1>3. CASE rec.pc = "unmount" /\ rec.now \notin past'.wiped
  <2>1. PICK k \in MountKeys : k = rec.now
    BY <1>2, <1>3
  <2>2. Holders(k)' = 0 /\ rec'.now = k
    BY <1>1, <1>3, <2>1
  <2> QED
    BY <2>2 DEF NoUnmountUnderInstance, Holders
<1>4. CASE ~(rec.pc = "unmount" /\ rec.now \notin past'.wiped)
  BY <1>4 DEF NoUnmountUnderInstance
<1> QED
  BY <1>3, <1>4

(* A call that creates is not disturbed by the others.                       *)
LEMMA OthersMount ==
    ASSUME MountInv, NEW c \in Calls, Deed(c), Acting(c), NEW d \in Calls, d # c
    PROVE  Mounts(d)'
<1> USE DEF MountInv, ServeInv, RegistryInv, TypeInv
<1>1. calls'[d] = calls[d] /\ Mounts(d) /\ Serves(d)
  BY DEF Acting, CallsMount, CallsServe
<1>2. CASE calls[d].pc \notin {"create", "mount"}
  BY <1>1, <1>2 DEF Mounts
<1>3. CASE calls[d].pc \in {"create", "mount"}
  <2> PICK i \in Instances : i = calls[d].inst /\ i # None
    BY <1>3, AreasAssumption DEF CallsTyped, Working, Creating
  <2>1. inst[i].status = "starting" /\ inst[i].area = calls[d].area
    BY <1>1, <1>3 DEF Serves, Creating
  <2>2. inst'[i] = inst[i]
    <3>1. CASE inst' = inst
      BY <3>1
    <3>2. CASE Holds(c) \/ ~Locked(calls[c].area)
      <4>1. calls[c].area # calls[d].area
        BY <1>3, <3>2 DEF LockHeldOnce, Locked, Holds
      <4> QED
        BY <2>1, <4>1 DEF Deed, Handled, Alike
    <3> QED
      BY <3>1, <3>2 DEF Deed, Entitled
  <2> QED
    BY <1>1, <2>2 DEF Mounts
<1> QED
  BY <1>2, <1>3

(* A step of a call keeps the counts, the key locks and the mounts of all.   *)
LEMMA CallMountKept ==
    ASSUME MountInv, NEW c \in Calls, CallStep(c)
    PROVE  /\ CallsMount' /\ KeysLocked' /\ HeldSound' /\ RoundSound'
           /\ HoldersFinite' /\ RefsMatchHolders' /\ NoUnmountUnderInstance'
<1>1. Deed(c) /\ Acting(c) /\ hub' = hub /\ MountDeed(c) /\ past'.wiped = past.wiped
  BY CallDeed, CallActs, CallMountDeed, CallWipesNothing DEF MountInv, ServeInv, RegistryInv
<1>2. rec' = rec /\ \A d \in Calls : d # c => calls'[d] = calls[d]
  BY <1>1 DEF Deed, Acting
<1>3. CallsMount'
  BY <1>1, OthersMount DEF CallsMount, MountDeed
<1>4. KeysLocked'
  <2>1. KeysLocked /\ KeysMoved(c)
    BY <1>1 DEF MountInv, MountDeed
  <2>2. CASE keyLocks' = keyLocks /\ calls'[c].run \subseteq calls[c].run
    BY <1>2, <2>1, <2>2 DEF KeysLocked
  <2>3. ASSUME NEW k \in MountKeys, k \notin keyLocks, keyLocks' = keyLocks \union {k},
               calls'[c].run \subseteq calls[c].run \union {k}
        PROVE  KeysLocked'
    <3>1. \A d \in Calls : d # c => k \notin calls[d].run
      BY <2>1, <2>3 DEF KeysLocked
    <3> QED
      BY <1>2, <2>1, <2>3, <3>1 DEF KeysLocked
  <2>4. ASSUME NEW k \in calls[c].run, keyLocks' = keyLocks \ {k}, calls'[c].run = calls[c].run \ {k}
        PROVE  KeysLocked'
    BY <1>2, <2>1, <2>4 DEF KeysLocked
  <2> QED
    BY <2>1, <2>2, <2>3, <2>4 DEF KeysMoved
<1>5. HeldSound'
  <2>1. \A i \in Instances : Lasts(i)
    BY MadeLasts DEF Next, MountInv, ServeInv, RegistryInv
  <2>2. HeldSound /\ rec.seen \subseteq Instances
    BY DEF MountInv, ServeInv, RegistryInv, TypeInv, RoundTyped, RoundRecord
  <2>3. \A i \in Instances : inst'[i].held => inst[i].held \/ (inst'[i].status # "none" /\ hub = "up")
    BY <1>1 DEF MountDeed
  <2>4. \A i \in Instances : inst'[i].held => inst'[i].status # "none"
    BY <2>1, <2>2, <2>3 DEF HeldSound, Lasts
  <2>5. hub = "down" => \A i \in Instances : ~inst'[i].held
    BY <2>2, <2>3 DEF HeldSound
  <2>6. hub = "boot" => \A i \in rec.seen : ~inst'[i].held
    BY <2>2, <2>3 DEF HeldSound
  <2> QED
    BY <1>1, <1>2, <2>4, <2>5, <2>6 DEF HeldSound
<1>6. HoldersFinite' /\ RefsMatchHolders'
  BY <1>1, CountsKept DEF MountDeed
<1>7. NoUnmountUnderInstance'
  BY <1>1, <1>2, <1>6, SweepKept DEF MountDeed
<1> QED
  BY <1>2, <1>3, <1>4, <1>5, <1>6, <1>7 DEF RoundSound, MountInv

-----------------------------------------------------------------------------
\* The invariant under the reconciler.

MountsSound ==
    /\ CallsMount /\ KeysLocked /\ HeldSound /\ RoundSound
    /\ HoldersFinite /\ RefsMatchHolders /\ NoUnmountUnderInstance

(* Calls go on mounting while instances only give back.                      *)
LEMMA CallsStay ==
    ASSUME MountInv, calls' = calls, \A i \in Instances : Lasts(i),
           \A i \in Instances : inst'[i].held => inst[i].held
    PROVE  CallsMount'
<1> SUFFICES ASSUME NEW c \in Calls PROVE Mounts(c)'
  BY DEF CallsMount
<1> USE DEF MountInv, ServeInv, RegistryInv, TypeInv
<1>1. calls'[c] = calls[c] /\ Mounts(c) /\ Serves(c)
  BY DEF CallsMount, CallsServe
<1>2. CASE calls[c].pc \notin {"create", "mount"}
  BY <1>1, <1>2 DEF Mounts
<1>3. CASE calls[c].pc \in {"create", "mount"}
  <2> PICK i \in Instances : i = calls[c].inst
    BY <1>3 DEF CallsTyped, Working, Creating
  <2>1. inst'[i].shape = inst[i].shape /\ (inst'[i].held => inst[i].held)
    BY <1>1, <1>3 DEF Serves, Creating, Lasts
  <2> QED
    BY <1>1, <1>3, <2>1 DEF Mounts
<1> QED
  BY <1>2, <1>3

(* A step of a round that neither locks a key nor unmounts.                  *)
LEMMA RoundKept ==
    ASSUME MountInv, \A i \in Instances : Lasts(i), hub = "up", UNCHANGED <<calls, hub, keyLocks>>,
           \A k \in MountKeys : Balanced(k), past.wiped \subseteq past'.wiped,
           \A i \in Instances : inst'[i].held => inst[i].held,
           rec'.pc # "unmount", rec'.pc \in {"alldis", "eachdis"} => rec'.now \in Instances
    PROVE  MountsSound'
<1>1. CallsMount'
  BY CallsStay
<1>2. KeysLocked'
  BY DEF MountInv, KeysLocked
<1>3. HeldSound'
  BY DEF MountInv, HeldSound, Lasts
<1>4. HoldersFinite' /\ RefsMatchHolders'
  BY CountsKept
<1> QED
  BY <1>1, <1>2, <1>3, <1>4 DEF MountsSound, RoundSound, NoUnmountUnderInstance

(* The sweep locks a key that nobody holds, and no other.                    *)
LEMMA UnmountKept ==
    ASSUME MountInv, \A i \in Instances : Lasts(i), hub = "up", RoundUnmount
    PROVE  MountsSound'
<1> USE DEF MountInv, ServeInv, RegistryInv, TypeInv
<1>0. rec \in RoundRecord /\ refs \in [MountKeys -> Nat]
  BY DEF RoundTyped, MountsTypeOK
<1>1. UNCHANGED <<inst, calls, hub, past, refs>>
  BY DEF RoundUnmount, still, SweepLock, SweepUnmount
<1>2. CallsMount' /\ HeldSound'
  BY <1>1, CallsStay DEF HeldSound
<1>3. \A k \in MountKeys : Balanced(k)
  BY <1>1, SameHolders DEF SameHeld, Balanced
<1>4. HoldersFinite' /\ RefsMatchHolders'
  BY <1>1, <1>3, CountsKept
<1> PICK k \in MountKeys : k = rec.now
  BY DEF RoundUnmount, RoundTyped, RoundSound
<1>5. rec'.now = k /\ rec'.pc \in {"unmount", "sweep"}
  BY <1>0 DEF RoundUnmount, RoundGo, RoundRecord
<1>6. RoundSound'
  BY <1>5 DEF RoundSound
<1>7. CASE rec.pc = "lock" /\ SweepLock(k)
  <2>1. k \notin keyLocks /\ keyLocks' = IF refs[k] = 0 THEN keyLocks \union {k} ELSE keyLocks
    BY <1>7 DEF SweepLock
  <2>2. rec'.pc = "unmount" => refs[k] = 0
    <3>1. rec'.pc = IF k \in keyLocks' THEN "unmount" ELSE "sweep"
      BY <1>0, <1>7 DEF RoundUnmount, RoundGo, RoundRecord
    <3> QED
      BY <2>1, <3>1
  <2>3. KeysLocked'
    BY <1>1, <1>5, <2>1, <2>2 DEF KeysLocked
  <2>4. refs[k] = 0 => k \in past.wiped \/ Holders(k) = 0
    BY DEF RefsMatchHolders
  <2>5. Holders(k)' = Holders(k)
    BY <1>1 DEF Holders
  <2>6. NoUnmountUnderInstance'
    BY <1>1, <1>5, <2>2, <2>4, <2>5 DEF NoUnmountUnderInstance, Holders
  <2> QED
    BY <1>2, <1>4, <1>6, <2>3, <2>6 DEF MountsSound
<1>8. CASE rec.pc = "unmount" /\ SweepUnmount(k) /\ RoundGo("sweep")
  <2>1. keyLocks' = keyLocks \ {k} /\ rec'.pc = "sweep"
    BY <1>0, <1>8 DEF SweepUnmount, RoundGo, RoundRecord
  <2>2. KeysLocked'
    BY <1>1, <1>8, <2>1 DEF KeysLocked
  <2> QED
    BY <1>2, <1>4, <1>6, <2>1, <2>2 DEF MountsSound, NoUnmountUnderInstance
<1> QED
  BY <1>7, <1>8 DEF RoundUnmount

(* Every step of a round keeps counts, key locks and mounts.                 *)
LEMMA RoundMountsKept ==
    ASSUME MountInv, \A i \in Instances : Lasts(i), Round
    PROVE  MountsSound'
<1> USE DEF MountInv, ServeInv, RegistryInv, TypeInv
<1>0. rec \in RoundRecord /\ past \in History /\ refs \in [MountKeys -> Nat]
  BY DEF RoundTyped, ProcessTyped, MountsTypeOK
<1>1. UNCHANGED <<calls, hub>> /\ hub = "up"
  BY DEF Round, RoundBegin, RoundReset, RoundList, RoundDead, RoundDiscarded, RoundOrphans,
     RoundUnmount, RoundEnd, RoundDiscard, RoundEach, RoundSweep, RoundStill, still, StartSound
<1>2. ASSUME UNCHANGED <<inst, keyLocks, refs>>, past'.wiped = past.wiped,
             rec'.pc # "unmount", rec'.pc \in {"alldis", "eachdis"} => rec'.now \in Instances
      PROVE  MountsSound'
  <2>1. \A k \in MountKeys : Balanced(k)
    BY <1>1, <1>2, SameHolders DEF SameHeld, Balanced
  <2> QED
    BY <1>1, <1>2, <2>1, RoundKept
<1>3. ASSUME NEW i \in Instances, inst' = Unheld(i), keyLocks' = keyLocks, past'.wiped = past.wiped,
             \A k \in MountKeys : refs'[k] = IF inst[i].held /\ k \in inst[i].shape
                                             THEN Floored(refs[k]) ELSE refs[k],
             rec'.pc # "unmount", rec'.pc \notin {"alldis", "eachdis"}
      PROVE  MountsSound'
  <2>1. inst'[i].held = FALSE /\ \A j \in Instances : j # i => SameHeld(j)
    BY <1>3, UnheldHeld DEF SameHeld
  <2>2. \A k \in MountKeys : Balanced(k)
    BY <1>1, <1>3, <2>1, GivenBack
  <2>3. \A j \in Instances : inst'[j].held => inst[j].held
    BY <2>1 DEF SameHeld
  <2> QED
    BY <1>1, <1>3, <2>2, <2>3, RoundKept
<1>4. ASSUME NEW i \in Instances, Reap(i) PROVE past'.wiped = past.wiped
  BY <1>0, <1>4 DEF Reap, History
<1>5. ASSUME NEW i \in Instances, RoundDiscard(i) PROVE MountsSound'
  <2>1. CASE inst[i].info
    <3>1. rec'.pc = "alldis" /\ rec'.now = i /\ UNCHANGED <<inst, mountVars>>
      BY <1>0, <1>5, <2>1 DEF RoundDiscard, RoundRecord
    <3> QED
      BY <1>2, <1>4, <1>5, <3>1 DEF RoundDiscard, mountVars
  <2>2. CASE ~inst[i].info
    <3>1. DiscardNow(i, {}) /\ rec'.pc = "all"
      BY <1>0, <1>5, <2>2 DEF RoundDiscard, RoundRecord
    <3>2. \A k \in MountKeys :
            refs'[k] = IF inst[i].held /\ k \in inst[i].shape THEN Floored(refs[k]) ELSE refs[k]
      <4>1. ReleaseKeys({} \union (IF inst[i].held THEN inst[i].shape ELSE {}))
        BY <3>1 DEF DiscardNow
      <4> QED
        BY <4>1, ReleasedCounts
    <3>3. inst' = Unheld(i) /\ keyLocks' = keyLocks
      BY <3>1 DEF DiscardNow
    <3> QED
      BY <1>3, <1>4, <1>5, <3>1, <3>2, <3>3 DEF RoundDiscard
  <2> QED
    BY <2>1, <2>2
<1>6. ASSUME NEW i \in Instances, RoundEach(i) PROVE MountsSound'
  <2>1. UNCHANGED <<inst, keyLocks, refs>> /\ past'.wiped = past.wiped
    BY <1>4, <1>6 DEF RoundEach, mountVars
  <2>2. rec'.pc = "each" \/ (rec'.pc = "eachdis" /\ rec'.now = i)
    BY <1>0, <1>6 DEF RoundEach, RoundRecord
  <2> QED
    BY <1>2, <2>1, <2>2
<1>7. CASE RoundDiscarded
  <2> PICK i \in Instances : i = rec.now
    BY <1>7 DEF RoundDiscarded, RoundSound
  <2>1. PICK gone \in BOOLEAN : DiscardEnd(i, gone)
    BY <1>7 DEF RoundDiscarded
  <2>2. keyLocks' = keyLocks /\ \A k \in MountKeys :
          refs'[k] = IF inst[i].held /\ k \in inst[i].shape THEN Floored(refs[k]) ELSE refs[k]
    BY <2>1, EndedBack DEF DiscardEnd
  <2>3. inst' = Unheld(i) /\ past' = past /\ rec'.pc \in {"all", "each"}
    BY <1>0, <1>7 DEF RoundDiscarded, RoundRecord
  <2> QED
    BY <1>3, <2>2, <2>3
<1>8. CASE RoundReset
  <2>1. UNCHANGED <<inst, keyLocks>> /\ \A k \in MountKeys : refs'[k] = 0
    BY <1>8 DEF RoundReset, still, ResetKeys
  <2>2. past'.wiped = past.wiped \union {k \in MountKeys : refs[k] > 0}
    BY <1>0, <1>8 DEF RoundReset, History
  <2>3. \A k \in MountKeys : Unchanged(k)
    BY <1>1, <2>1, SameHolders DEF SameHeld
  <2>4. \A k \in MountKeys : Balanced(k)
    BY <1>0, <2>1, <2>2, <2>3 DEF Balanced
  <2>5. rec'.pc = "list"
    BY <1>0, <1>8 DEF RoundReset, RoundGo, RoundRecord
  <2> QED
    BY <1>1, <2>1, <2>2, <2>4, <2>5, RoundKept
<1>9. CASE RoundBegin \/ RoundList \/ RoundDead \/ RoundOrphans \/ RoundEnd
           \/ \E k \in MountKeys : RoundSweep(k)
  <2>1. UNCHANGED <<inst, keyLocks, refs, past>>
    BY <1>9 DEF RoundBegin, RoundList, RoundDead, RoundOrphans, RoundEnd, RoundSweep, SweepJudge,
       still, mountVars
  <2>2. rec'.pc \in {"all", "list", "dead", "each", "sweep", "lock", "idle"}
    <3>1. CASE RoundBegin \/ RoundList \/ RoundDead
      <4>1. CASE RoundBegin
        <5>1. rec'.pc = IF fsLost THEN "all" ELSE "list"
          BY <1>0, <4>1 DEF RoundBegin, RoundRecord
        <5> QED
          BY <5>1
      <4>2. CASE RoundList
        BY <1>0, <4>2 DEF RoundList, RoundRecord
      <4>3. CASE RoundDead
        BY <1>0, <4>3 DEF RoundDead, RoundRecord
      <4> QED
        BY <3>1, <4>1, <4>2, <4>3
    <3>2. CASE RoundOrphans \/ RoundEnd
      <4>1. CASE RoundOrphans
        <5>1. rec' = [NoRound EXCEPT !.pc = "sweep", !.keys = Present]
          BY <4>1 DEF RoundOrphans
        <5>2. rec'.pc = "sweep"
          BY <5>1 DEF NoRound
        <5> QED
          BY <5>2
      <4>2. CASE RoundEnd
        <5>1. rec'.pc = "idle"
          BY <4>2 DEF RoundEnd, NoRound
        <5> QED
          BY <5>1
      <4> QED
        BY <3>2, <4>1, <4>2
    <3>3. ASSUME NEW k \in MountKeys, RoundSweep(k)
          PROVE  rec'.pc \in {"lock", "sweep"}
      <4>1. rec'.pc = IF Overdue(k) THEN "lock" ELSE "sweep"
        BY <1>0, <3>3 DEF RoundSweep, RoundRecord
      <4> QED
        BY <4>1
    <3> QED
      BY <1>9, <3>1, <3>2, <3>3
  <2> QED
    BY <1>2, <2>1, <2>2
<1> QED
  BY <1>1, <1>5, <1>6, <1>7, <1>8, <1>9, UnmountKept DEF Round

-----------------------------------------------------------------------------
\* The process ends and starts again; what the Hub does not do itself.

(* A crash leaves nothing held, counted or locked.                           *)
LEMMA CrashMounts ==
    ASSUME MountInv, Crash
    PROVE  MountsSound'
<1> USE DEF MountInv, ServeInv, RegistryInv, TypeInv
<1>0. inst \in [Instances -> Instance] /\ calls \in [Calls -> Call]
  BY DEF RegistryTyped, CallsTyped
<1>1. ASSUME NEW c \in Calls
      PROVE  Mounts(c)' /\ calls'[c].run = {} /\ calls'[c].taken = {}
  <2>1. CASE calls[c].pc = "idle"
    <3>1. calls'[c] = calls[c] /\ Mounts(c)
      BY <2>1 DEF Crash, CallsMount
    <3> QED
      BY <2>1, <3>1 DEF Mounts
  <2>2. CASE calls[c].pc # "idle"
    <3>1. calls'[c] = [NoCall EXCEPT !.pc = "done"]
      BY <2>2 DEF Crash
    <3>2. calls'[c].run = {} /\ calls'[c].taken = {} /\ calls'[c].pc = "done"
      BY <3>1 DEF NoCall
    <3> QED
      BY <3>2, Empty
  <2> QED
    BY <2>1, <2>2
<1>2. \A i \in Instances : inst'[i].held = FALSE
  BY <1>0 DEF Crash, Instance
<1>3. /\ \A k \in MountKeys : refs'[k] = 0
      /\ rec'.pc = "idle" /\ hub' = "down"
  BY DEF Crash, MountsForgotten, ResetKeys, NoRound
<1>4. ASSUME NEW k \in MountKeys PROVE HeldBy(k)' = {} /\ TakenBy(k)' = {}
  BY <1>1, <1>2 DEF HeldBy, TakenBy
<1>5. HoldersFinite' /\ RefsMatchHolders'
  <2>1. \A k \in MountKeys : Balanced(k)
    BY <1>3, <1>4 DEF Balanced
  <2>2. past.wiped \subseteq MountKeys
    BY DEF ProcessTyped, History
  <2> QED
    BY <1>3, <1>4, <2>1, <2>2, CountsKept
<1>6. KeysLocked'
  BY <1>1, <1>3 DEF KeysLocked
<1>7. HeldSound'
  BY <1>2, <1>3 DEF HeldSound
<1> QED
  BY <1>1, <1>3, <1>5, <1>6, <1>7
  DEF MountsSound, CallsMount, RoundSound, NoUnmountUnderInstance

(* A step that touches no holder, count or key lock, in a process that       *)
(* starts or by the surroundings.                                            *)
LEMMA UntouchedMounts ==
    ASSUME MountInv, UNCHANGED <<inst, calls, refs, keyLocks>>, past'.wiped = past.wiped,
           UNCHANGED rec \/ rec'.pc = "idle", HeldSound'
    PROVE  MountsSound'
<1> USE DEF MountInv
<1>1. CallsMount'
  BY DEF CallsMount, Mounts
<1>2. \A k \in MountKeys : Balanced(k)
  BY SameHolders DEF SameHeld, Balanced
<1>3. HoldersFinite' /\ RefsMatchHolders'
  BY <1>2, CountsKept
<1>4. KeysLocked' /\ RoundSound'
  BY DEF KeysLocked, RoundSound
<1>5. NoUnmountUnderInstance'
  BY DEF NoUnmountUnderInstance, Holders
<1> QED
  BY <1>1, <1>3, <1>4, <1>5 DEF MountsSound

(* A start, up to the point where requests are served.                       *)
LEMMA StartMounts ==
    ASSUME MountInv, Boot \/ Booted \/ \E i \in Instances : BootRemove(i)
    PROVE  MountsSound'
<1> USE DEF MountInv, ServeInv, RegistryInv, TypeInv
<1>0. past \in History /\ rec \in RoundRecord
  BY DEF ProcessTyped, RoundTyped
<1>1. UNCHANGED <<inst, calls, refs, keyLocks>>
  BY DEF Boot, Booted, BootRemove, still, mountVars
<1>2. CASE Boot
  <2>1. past'.wiped = past.wiped
    BY <1>0, <1>2 DEF Boot, History
  <2>2. rec'.pc = "idle" /\ rec'.seen \subseteq Instances
    BY <1>2 DEF Boot, NoRound
  <2>3. HeldSound'
    BY <1>1, <1>2, <2>2 DEF Boot, HeldSound
  <2> QED
    BY <1>1, <2>1, <2>2, <2>3, UntouchedMounts
<1>3. CASE Booted
  <2>1. UNCHANGED <<past, rec>> /\ HeldSound'
    BY <1>1, <1>3 DEF Booted, HeldSound
  <2> QED
    BY <1>1, <2>1, UntouchedMounts
<1>4. ASSUME NEW i \in Instances, BootRemove(i) PROVE MountsSound'
  <2>1. past'.wiped = past.wiped
    BY <1>0, <1>4 DEF BootRemove, Forgive, Lose, History
  <2>2. rec'.pc = rec.pc /\ rec'.seen \subseteq rec.seen /\ hub = "boot" /\ hub' = hub
    BY <1>0, <1>4 DEF BootRemove, RoundRecord
  <2>3. rec'.pc = "idle"
    BY <2>2 DEF StartSound
  <2>4. HeldSound'
    BY <1>1, <2>2 DEF HeldSound
  <2> QED
    BY <1>1, <2>1, <2>3, <2>4, UntouchedMounts
<1> QED
  BY <1>2, <1>3, <1>4

(* What is adopted counts for the directories it was started with.           *)
LEMMA AdoptMounts ==
    ASSUME MountInv, NEW i \in Instances, BootAdopt(i)
    PROVE  MountsSound'
<1> USE DEF MountInv, ServeInv, RegistryInv, TypeInv
<1>0. /\ past \in History /\ rec \in RoundRecord /\ inst \in [Instances -> Instance]
  BY DEF ProcessTyped, RoundTyped, RegistryTyped
<1>1. /\ hub = "boot" /\ hub' = hub /\ i \in rec.seen /\ UNCHANGED <<calls, keyLocks>>
      /\ ~inst[i].held /\ rec.pc = "idle"
  BY DEF BootAdopt, HeldSound, StartSound
<1>2. /\ inst'[i].held = TRUE /\ inst'[i].shape = inst[i].shape /\ inst'[i].status = "ready"
      /\ \A j \in Instances : j # i => inst'[j] = inst[j]
  BY <1>0 DEF BootAdopt, Instance
<1>3. past'.wiped = past.wiped /\ rec'.pc = "idle" /\ rec'.seen = rec.seen \ {i}
  BY <1>0, <1>1 DEF BootAdopt, History, RoundRecord
<1>4. ASSUME NEW k \in MountKeys PROVE Balanced(k)
  <2>1. refs'[k] = IF k \in inst[i].shape THEN refs[k] + 1 ELSE refs[k]
    BY DEF BootAdopt, RestoreKeys
  <2>2. TakenBy(k)' = TakenBy(k)
    BY <1>1 DEF TakenBy
  <2>3. \A j \in Instances : j \in HeldBy(k)' <=> (j \in HeldBy(k) \/ (j = i /\ k \in inst[i].shape))
    BY <1>2 DEF HeldBy
  <2>4. i \notin HeldBy(k)
    BY <1>1 DEF HeldBy
  <2>5. CASE k \in inst[i].shape
    <3>1. HeldBy(k)' = HeldBy(k) \union {i}
      BY <2>3, <2>5 DEF HeldBy
    <3> QED
      BY <1>1, <2>1, <2>2, <2>4, <2>5, <3>1 DEF Balanced, Gained
  <2>6. CASE k \notin inst[i].shape
    <3>1. HeldBy(k)' = HeldBy(k)
      BY <2>3, <2>6 DEF HeldBy
    <3> QED
      BY <2>1, <2>2, <2>6, <3>1 DEF Balanced, Unchanged
  <2> QED
    BY <2>5, <2>6
<1>5. HoldersFinite' /\ RefsMatchHolders'
  BY <1>3, <1>4, CountsKept
<1>6. CallsMount'
  <2>1. \A c \in Calls : calls[c].pc \in {"idle", "done"} /\ calls'[c] = calls[c] /\ Mounts(c)
    BY <1>1 DEF CallsServed, CallsMount
  <2> QED
    BY <2>1 DEF CallsMount, Mounts
<1>7. KeysLocked'
  BY <1>1, <1>3 DEF KeysLocked
<1>8. HeldSound'
  <2>1. rec.seen \subseteq Instances
    BY <1>0 DEF RoundRecord
  <2> QED
    BY <1>1, <1>2, <1>3, <2>1 DEF HeldSound
<1> QED
  BY <1>3, <1>5, <1>6, <1>7, <1>8 DEF MountsSound, RoundSound, NoUnmountUnderInstance

-----------------------------------------------------------------------------
\* Theorems about role directories.

(* The invariant is inductive.                                               *)
LEMMA MountInductive ==
    ASSUME MountInv, [Next]_vars
    PROVE  MountInv'
<1>1. ServeInv'
  BY ServeInductive DEF MountInv
<1> SUFFICES MountsSound'
  BY <1>1 DEF MountInv, MountsSound
<1>2. \A i \in Instances : Lasts(i)
  BY MadeLasts DEF MountInv, ServeInv, RegistryInv
<1>3. CASE \E c \in Calls : CallStep(c)
  BY <1>3, CallMountKept DEF MountsSound
<1>4. CASE Round
  BY <1>2, <1>4, RoundMountsKept
<1>5. CASE Crash
  BY <1>5, CrashMounts
<1>6. CASE Boot \/ Booted \/ \E i \in Instances : BootRemove(i)
  BY <1>6, StartMounts
<1>7. CASE \E i \in Instances : BootAdopt(i)
  BY <1>7, AdoptMounts
<1>8. CASE MountEvent \/ UNCHANGED vars \/ \E i \in Instances : ContainerDies(i)
  <2>1. UNCHANGED <<inst, calls, refs, keyLocks, past, rec, hub>>
    BY <1>8 DEF MountEvent, ContainerDies, GraceEnds, MountDies, FsRestart, still, vars, wvars, mountVars
  <2>2. HeldSound'
    BY <2>1 DEF MountInv, HeldSound
  <2> QED
    BY <2>1, <2>2, UntouchedMounts
<1> QED
  BY <1>3, <1>4, <1>5, <1>6, <1>7, <1>8 DEF Next

(* Before the first start nothing is held or counted.                        *)
LEMMA MountStarts == Init => MountInv
<1> SUFFICES ASSUME Init PROVE MountInv
  OBVIOUS
<1>1. ServeInv
  BY ServeStarts
<1>2. \A i \in Instances : inst[i].held = FALSE
  <2>1. inst \in [Instances ->
              {NoInst} \union [area : Areas, owner : Owners, shape : Shapes, status : {"ready"},
                              held : {FALSE}, info : {FALSE}]]
    BY DEF Init
  <2>2. ASSUME NEW i \in Instances PROVE inst[i].held = FALSE
    <3>1. CASE inst[i] = NoInst
      BY <3>1 DEF NoInst
    <3>2. CASE inst[i] \in [area : Areas, owner : Owners, shape : Shapes, status : {"ready"},
                            held : {FALSE}, info : {FALSE}]
      BY <3>2
    <3> QED
      BY <2>1, <3>1, <3>2
  <2> QED
    BY <2>2
<1>3. /\ \A c \in Calls : calls[c] = NoCall
      /\ \A k \in MountKeys : refs[k] = 0
      /\ rec.pc = "idle" /\ hub = "down"
  BY DEF Init, NoRound
<1>4. CallsMount /\ KeysLocked /\ HeldSound /\ RoundSound /\ NoUnmountUnderInstance
  BY <1>2, <1>3 DEF CallsMount, Mounts, NoCall, KeysLocked, HeldSound, RoundSound, NoUnmountUnderInstance
<1>5. ASSUME NEW k \in MountKeys PROVE HeldBy(k) = {} /\ TakenBy(k) = {}
  BY <1>2, <1>3 DEF HeldBy, TakenBy, NoCall
<1>6. \A k \in MountKeys : Finite(k) /\ Holders(k) = 0
  BY <1>5, NoHolders, FS_EmptySet DEF Finite
<1> QED
  BY <1>1, <1>3, <1>4, <1>6 DEF MountInv, HoldersFinite, Finite, RefsMatchHolders

(* In every reachable state calls, instances and the reconciler agree on who *)
(* holds which role directory and who may mount or unmount it.               *)
THEOREM MountInvariant == Spec => []MountInv
<1>1. Init => MountInv
  BY MountStarts
<1>2. MountInv /\ [Next]_vars => MountInv'
  BY MountInductive
<1> QED
  BY <1>1, <1>2, PTL DEF Spec

(* Role directories are counted exactly, between any acquires, failures,     *)
(* cancellations, discards and crashes: one for every instance that holds the *)
(* directory and every acquire that has just got it (fs_sidecar.py:315).     *)
THEOREM CountsStayExact == Spec => []RefsMatchHolders
<1>1. MountInv => RefsMatchHolders
  BY DEF MountInv
<1> QED
  BY <1>1, MountInvariant, PTL

(* The sweep never takes a directory from under an instance or an acquire    *)
(* that has got it, unless a reset has wiped its count.                      *)
THEOREM HeldStaysMounted == Spec => []NoUnmountUnderInstance
<1>1. MountInv => NoUnmountUnderInstance
  BY DEF MountInv
<1> QED
  BY <1>1, MountInvariant, PTL
=============================================================================
