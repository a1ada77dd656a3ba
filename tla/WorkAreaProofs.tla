--------------------------- MODULE WorkAreaProofs ---------------------------
(***************************************************************************)
(* Theorems about the v2 instance service for any number of areas,          *)
(* instances, calls, users and role directories, any limits, and any number *)
(* of rounds, crashes and other mishaps.                                    *)
(***************************************************************************)
EXTENDS WorkAreaSafety, FiniteSetTheorems, TLAPS

-----------------------------------------------------------------------------
\* Types.  A call that works on an instance has one, and only an acquire
\* creates one.
Instance ==
    [area : Areas \union {None}, owner : Owners \union {None}, shape : Shapes \union {{}},
     status : {"none", "starting", "ready", "quiesced"}, held : BOOLEAN, info : BOOLEAN]

Creating == {"create", "mount", "start", "wait"}
Working == Creating \union {"probe", "alive", "busy", "switch", "discard", "update",
                            "quiesce", "quiesced"}

Call == [op : {"none", "acquire", "release", "quiesce", "update", "delete", "force_delete"},
         area : Areas \union {None}, owner : Owners \union {None},
         shape : Shapes \union {{}}, inst : Instances \union {None},
         pc : Working \union {"idle", "lock", "rmwa", "answered", "done"},
         todo : SUBSET MountKeys, run : SUBSET MountKeys, taken : SUBSET MountKeys,
         stop : BOOLEAN]

RoundRecord == [pc : {"idle", "all", "alldis", "list", "dead", "each", "eachdis", "sweep",
                      "lock", "unmount"},
                todo : SUBSET Instances, seen : SUBSET Instances, dead : SUBSET Instances,
                keys : SUBSET MountKeys, now : Instances \union MountKeys \union {None}]

History == [reaped : SUBSET Instances, lost : SUBSET (Instances \union {None}),
            adopted : SUBSET Instances, stale : SUBSET Instances, wiped : SUBSET MountKeys]

RegistryTyped ==
    /\ inst \in [Instances -> Instance]
    /\ reg \subseteq Instances
    /\ byArea \in [Areas -> Instances \union {None}]

OnArea == {"acquire", "delete", "force_delete"}

CallsTyped ==
    /\ calls \in [Calls -> Call]
    /\ \A c \in Calls :
         /\ calls[c].pc \in Working => calls[c].inst \in Instances
         /\ calls[c].pc \in Creating => calls[c].op = "acquire"
         /\ calls[c].op \in OnArea => calls[c].area \in Areas

DiskTyped ==
    /\ dirs \subseteq Instances /\ discarding \subseteq Instances
    /\ exists \subseteq Areas /\ deleting \subseteq Areas
    /\ cont \in [Instances -> {"absent", "running", "exited"}]

RoundTyped ==
    /\ rec \in RoundRecord
    /\ rec.pc = "lock" => rec.now \in MountKeys

ProcessTyped ==
    /\ hub \in {"up", "down", "boot"}
    /\ past \in History

TypeInv ==
    MountsTypeOK /\ RegistryTyped /\ CallsTyped /\ DiskTyped /\ RoundTyped /\ ProcessTyped

(* The parts of the type invariant give the one that TLC checks.             *)
LEMMA TypeInvSuffices == TypeInv => TypeOK
BY DEF TypeInv, TypeOK, RegistryTyped, CallsTyped, DiskTyped, ProcessTyped, Instance, Call

(* The service starts in a well-typed state.                                 *)
LEMMA InitTyped == Init => TypeInv
<1> SUFFICES ASSUME Init PROVE TypeInv
  OBVIOUS
<1> USE AreasAssumption
<1>1. PICK left \in SUBSET Instances :
         /\ inst \in [Instances ->
              {NoInst} \union [area : Areas, owner : Owners, shape : Shapes, status : {"ready"},
                              held : {FALSE}, info : {FALSE}]]
         /\ \A i \in Instances : i \in left <=> inst[i] # NoInst
         /\ cont = [i \in Instances |-> IF i \in left THEN "running" ELSE "absent"]
         /\ dirs = left
         /\ exists = {inst[i].area : i \in left}
         /\ mounted = [k \in MountKeys |->
                         IF \E i \in left : k \in inst[i].shape THEN "alive" ELSE "no"]
  BY DEF Init
<1>2. MountsTypeOK
  BY <1>1 DEF Init, MountsTypeOK
<1>3. \A i \in Instances : inst[i] \in Instance
  <2> TAKE i \in Instances
  <2>1. CASE inst[i] = NoInst
    BY <2>1 DEF NoInst, Instance
  <2>2. CASE inst[i] # NoInst
    <3>1. inst[i] \in [area : Areas, owner : Owners, shape : Shapes, status : {"ready"},
                      held : {FALSE}, info : {FALSE}]
      BY <1>1, <2>2
    <3> QED
      BY <3>1 DEF Instance
  <2> QED
    BY <2>1, <2>2
<1>4. RegistryTyped
  BY <1>1, <1>3 DEF Init, RegistryTyped
<1>5. \A i \in left : inst[i].area \in Areas
  BY <1>1
<1>6. DiskTyped
  BY <1>1, <1>5 DEF Init, DiskTyped
<1>7. CallsTyped
  BY DEF Init, CallsTyped, NoCall, Call, Working, Creating, OnArea
<1>8. RoundTyped /\ ProcessTyped
  BY DEF Init, RoundTyped, ProcessTyped, NoRound, RoundRecord, NoPast, History
<1> QED
  BY <1>2, <1>4, <1>6, <1>7, <1>8 DEF TypeInv

-----------------------------------------------------------------------------
\* What the parts of a step do to the types.

(* Every operation on the role mounts keeps their types.                     *)
LEMMA MountOpsTyped ==
    ASSUME MountsTypeOK, NEW k \in MountKeys,
           \/ MountBegin(k) \/ MountFound(k) \/ MountDone(k) \/ MountFailed(k)
           \/ MountDoneCancelled(k) \/ SweepJudge(k) \/ SweepLock(k) \/ SweepUnmount(k)
           \/ GraceEnds(k) \/ MountDies(k) \/ FsRestart \/ MountsForgotten
    PROVE  MountsTypeOK'
<1> USE DEF MountsTypeOK
<1>1. MountBegin(k) \/ SweepJudge(k) \/ SweepLock(k) \/ SweepUnmount(k) => MountsTypeOK'
  BY DEF MountBegin, SweepJudge, SweepLock, SweepUnmount
<1>2. MountFound(k) \/ MountDone(k) => MountsTypeOK'
  BY DEF MountFound, MountDone, Count
<1>3. MountFailed(k) \/ MountDoneCancelled(k) => MountsTypeOK'
  BY DEF MountFailed, MountDoneCancelled
<1>4. GraceEnds(k) \/ MountDies(k) => MountsTypeOK'
  BY DEF GraceEnds, MountDies
<1>5. FsRestart => MountsTypeOK'
  <2>1. FsRestart => fsLost' \in BOOLEAN
    BY Zenon DEF FsRestart
  <2> QED
    BY <2>1 DEF FsRestart
<1>6. MountsForgotten => MountsTypeOK'
  <2>1. MountsForgotten => fsLost' \in BOOLEAN
    BY Zenon DEF MountsForgotten
  <2> QED
    BY <2>1 DEF MountsForgotten, ResetKeys
<1> QED
  BY <1>1, <1>2, <1>3, <1>4, <1>5, <1>6

(* So does giving back, restoring or resetting any keys.                     *)
LEMMA KeyCountsTyped ==
    ASSUME MountsTypeOK, NEW K, ReleaseKeys(K) \/ RestoreKeys(K) \/ ResetKeys \/ UNCHANGED <<refs, zero>>,
           UNCHANGED <<mounted, keyLocks, fsLost>>
    PROVE  MountsTypeOK'
BY DEF MountsTypeOK, ReleaseKeys, RestoreKeys, ResetKeys

(* Taking an instance off the register keeps the registry's types.           *)
LEMMA RemoveTyped ==
    ASSUME RegistryTyped, NEW i, Remove(i), inst' = inst \/ inst' = Unheld(i)
    PROVE  RegistryTyped'
<1>1. reg' \subseteq Instances /\ byArea' \in [Areas -> Instances \union {None}]
  BY DEF RegistryTyped, Remove
<1>2. Unheld(i) \in [Instances -> Instance]
  BY DEF RegistryTyped, Unheld, Instance
<1> QED
  BY <1>1, <1>2 DEF RegistryTyped

(* A call that ends, or goes on to the next step of the same kind of work.   *)
LEMMA SettledTyped ==
    ASSUME CallsTyped, NEW c \in Calls, Settled(c)
    PROVE  CallsTyped'
BY DEF CallsTyped, Settled, NoCall, Call, Working, Creating, OnArea

(* A call may only go to work on an instance if it has one, and only to      *)
(* create one if it is an acquire.                                           *)
LEMMA ReachTyped ==
    ASSUME CallsTyped, NEW c \in Calls,
           NEW pc \in Working \union {"rmwa", "answered"}, Reach(c, pc),
           pc \in Working => calls[c].inst \in Instances,
           pc \in Creating => calls[c].op = "acquire"
    PROVE  CallsTyped'
BY DEF CallsTyped, Reach, Call, Working, Creating, OnArea

(* A call gets an instance to work on.                                       *)
LEMMA GivenTyped ==
    ASSUME CallsTyped, NEW c \in Calls, NEW i \in Instances,
           NEW pc \in {"create", "probe", "discard"}, pc = "create" => calls[c].op = "acquire",
           calls' = [calls EXCEPT ![c].inst = i, ![c].pc = pc]
    PROVE  CallsTyped'
<1>1. calls[c] \in Call
  BY DEF CallsTyped
<1>2. [calls[c] EXCEPT !.inst = i] \in Call
  BY <1>1 DEF Call
<1> DEFINE given == [calls EXCEPT ![c].inst = i]
<1>3. given \in [Calls -> Call] /\ calls' = [given EXCEPT ![c].pc = pc]
  BY <1>2 DEF CallsTyped
<1>4. pc \in Working
  BY DEF Working, Creating
<1>5. calls' \in [Calls -> Call]
  <2>1. given[c] \in Call
    BY <1>3
  <2>2. [given[c] EXCEPT !.pc = pc] \in Call
    <3> HIDE DEF given
    <3> QED
      BY <2>1, <1>4 DEF Call
  <2> QED
    BY <1>3, <2>2
<1>6. \A d \in Calls : d # c => calls'[d] = calls[d]
  BY DEF CallsTyped
<1>7. /\ given[c].inst = i /\ given[c].op = calls[c].op /\ given[c].area = calls[c].area
  BY <1>1 DEF CallsTyped, Call
<1>8. /\ calls'[c].pc = pc /\ calls'[c].inst = given[c].inst
      /\ calls'[c].op = given[c].op /\ calls'[c].area = given[c].area
  BY <1>3 DEF Call
<1> QED
  BY <1>4, <1>5, <1>6, <1>7, <1>8 DEF CallsTyped, Working, Creating, OnArea

(* A new instance for an acquire, or the refusal.                            *)
LEMMA ReserveTyped ==
    ASSUME RegistryTyped, CallsTyped, NEW c \in Calls, calls[c].op = "acquire",
           NEW known \in [Instances -> Instance], Reserve(c, known)
    PROVE  RegistryTyped' /\ CallsTyped'
<1> USE DEF RegistryTyped
<1>1. CASE AtLimit(calls[c].owner) /\ Settled(c) /\ inst' = known /\ UNCHANGED <<reg, byArea>>
  BY <1>1, SettledTyped
<1>2. ASSUME NEW i \in Instances,
             inst' = [known EXCEPT ![i] = [NoInst EXCEPT !.area = calls[c].area,
                        !.owner = calls[c].owner, !.shape = calls[c].shape, !.status = "starting"]],
             Enter(i, calls[c].area),
             calls' = [calls EXCEPT ![c].inst = i, ![c].pc = "create"]
      PROVE  RegistryTyped' /\ CallsTyped'
  <2>1. calls[c] \in Call
    BY DEF CallsTyped
  <2>2. inst' \in [Instances -> Instance]
    BY <1>2, <2>1 DEF NoInst, Instance, Call
  <2>3. reg' \subseteq Instances /\ byArea' \in [Areas -> Instances \union {None}]
    BY <1>2 DEF Enter
  <2>4. CallsTyped'
    BY <1>2, GivenTyped
  <2> QED
    BY <2>2, <2>3, <2>4
<1> QED
  BY <1>1, <1>2 DEF Reserve

-----------------------------------------------------------------------------
\* The steps of a call.

(* A call arrives, with what it asks for.                                    *)
LEMMA ArriveTyped ==
    ASSUME TypeInv, NEW c \in Calls,
           \/ \E a \in Areas, o \in Owners, s \in Shapes : Acquire(c, a, o, s)
           \/ \E op \in {"release", "quiesce", "update"}, i \in Instances : OnInstance(c, op, i)
           \/ \E op \in {"delete", "force_delete"}, a \in Areas : Delete(c, op, a)
    PROVE  TypeInv'
<1> USE DEF TypeInv
<1>1. calls'[c] \in Call /\ calls'[c].pc = "lock" /\ (calls'[c].op \in OnArea => calls'[c].area \in Areas)
  <2>1. ASSUME NEW a \in Areas, NEW o \in Owners, NEW s \in Shapes, Acquire(c, a, o, s) PROVE <1>1
    BY <2>1 DEF Acquire, Arrive, NoCall, Call, CallsTyped, OnArea
  <2>2. ASSUME NEW op \in {"release", "quiesce", "update"}, NEW i \in Instances, OnInstance(c, op, i)
        PROVE  <1>1
    BY <2>2 DEF OnInstance, Arrive, NoCall, Call, CallsTyped, RegistryTyped, Instance, OnArea
  <2>3. ASSUME NEW op \in {"delete", "force_delete"}, NEW a \in Areas, Delete(c, op, a) PROVE <1>1
    BY <2>3 DEF Delete, Arrive, NoCall, Call, CallsTyped, OnArea
  <2> QED
    BY <2>1, <2>2, <2>3
<1>2. calls' \in [Calls -> Call] /\ \A d \in Calls : d # c => calls'[d] = calls[d]
  BY <1>1 DEF Acquire, OnInstance, Delete, Arrive, CallsTyped
<1>3. CallsTyped'
  BY <1>1, <1>2 DEF CallsTyped, Working, Creating, OnArea
<1>4. DiskTyped'
  BY DEF Acquire, OnInstance, Delete, Arrive, DiskTyped
<1>5. MountsTypeOK' /\ RegistryTyped'
  BY DEF Acquire, OnInstance, Delete, Arrive, MountsTypeOK, RegistryTyped, mountVars
<1>6. RoundTyped' /\ ProcessTyped'
  BY DEF Acquire, OnInstance, Delete, Arrive, RoundTyped, ProcessTyped
<1> QED
  BY <1>3, <1>4, <1>5, <1>6

(* A call gets its area's lock and decides what to do.                       *)
LEMMA LockTyped ==
    ASSUME TypeInv, NEW c \in Calls, Lock(c)
    PROVE  TypeInv'
<1> USE DEF TypeInv
<1>1. RoundTyped' /\ ProcessTyped' /\ MountsTypeOK'
  BY DEF Lock, RoundTyped, ProcessTyped, MountsTypeOK, mountVars
<1>2. ASSUME LockAcquire(c) PROVE RegistryTyped' /\ CallsTyped' /\ DiskTyped'
  <2> DEFINE e == byArea[calls[c].area]
  <2>1. calls[c].op = "acquire" /\ calls[c].area \in Areas /\ (e # None => e \in Instances)
    BY <1>2 DEF LockAcquire, CallsTyped, RegistryTyped, OnArea
  <2>2. CASE e = None /\ Reserve(c, inst) /\ UNCHANGED discarding
    <3>1. RegistryTyped' /\ CallsTyped'
      BY <2>1, <2>2, ReserveTyped DEF RegistryTyped
    <3> QED
      BY <3>1, <2>2, <1>2 DEF LockAcquire, Lock, DiskTyped
  <2>3. CASE Settled(c) /\ UNCHANGED <<inst, reg, byArea, discarding>>
    <3>1. CallsTyped'
      BY <2>3, SettledTyped
    <3> QED
      BY <3>1, <2>3, <1>2 DEF LockAcquire, Lock, DiskTyped, RegistryTyped
  <2>4. CASE e # None /\ DiscardBegin(e) /\ UNCHANGED inst
                 /\ calls' = [calls EXCEPT ![c].inst = e, ![c].pc = "discard"]
    <3>1. RegistryTyped'
      BY <2>4, RemoveTyped DEF DiscardBegin
    <3>2. CallsTyped'
      BY <2>1, <2>4, GivenTyped
    <3> QED
      BY <3>1, <3>2, <2>1, <2>4, <1>2 DEF LockAcquire, Lock, DiskTyped, DiscardBegin
  <2>5. CASE e # None /\ UNCHANGED <<inst, reg, byArea, discarding>>
                 /\ calls' = [calls EXCEPT ![c].inst = e, ![c].pc = "probe"]
    <3>1. CallsTyped'
      BY <2>1, <2>5, GivenTyped
    <3> QED
      BY <3>1, <2>5, <1>2 DEF LockAcquire, Lock, DiskTyped, RegistryTyped
  <2> QED
    BY <1>2, <2>2, <2>3, <2>4, <2>5 DEF LockAcquire
<1>3. ASSUME LockInstance(c) PROVE RegistryTyped' /\ CallsTyped' /\ DiskTyped'
  <2> DEFINE i == calls[c].inst
  <2>1. CASE Settled(c) /\ UNCHANGED <<reg, byArea, discarding>>
    <3>1. CallsTyped'
      BY <2>1, SettledTyped
    <3> QED
      BY <3>1, <2>1, <1>3 DEF LockInstance, Lock, DiskTyped, RegistryTyped
  <2>2. CASE i \in reg /\ Reach(c, "discard") /\ DiscardBegin(i)
    <3>1. i \in Instances
      BY <2>2 DEF RegistryTyped
    <3>2. CallsTyped'
      BY <2>2, <3>1, ReachTyped DEF Working, Creating, OnArea
    <3>3. RegistryTyped'
      BY <2>2, <1>3, RemoveTyped DEF DiscardBegin, LockInstance
    <3> QED
      BY <3>1, <3>2, <3>3, <2>2, <1>3 DEF LockInstance, Lock, DiskTyped, DiscardBegin
  <2>3. CASE /\ i \in reg /\ calls[c].op \in {"quiesce", "update"}
             /\ Reach(c, calls[c].op) /\ UNCHANGED <<reg, byArea, discarding>>
    <3>1. i \in Instances
      BY <2>3 DEF RegistryTyped
    <3>2. CallsTyped'
      BY <2>3, <3>1, ReachTyped DEF Working, Creating, OnArea
    <3> QED
      BY <3>2, <2>3, <1>3 DEF LockInstance, Lock, DiskTyped, RegistryTyped
  <2> QED
    BY <1>3, <2>1, <2>2, <2>3 DEF LockInstance
<1>4. ASSUME LockDelete(c) PROVE RegistryTyped' /\ CallsTyped' /\ DiskTyped'
  <2> DEFINE a == calls[c].area
  <2> DEFINE e == byArea[a]
  <2>1. CASE Reach(c, "rmwa") /\ UNCHANGED <<reg, byArea, discarding, deleting>>
    <3>1. CallsTyped'
      BY <2>1, ReachTyped DEF Working, Creating, OnArea
    <3> QED
      BY <3>1, <2>1, <1>4 DEF LockDelete, Lock, DiskTyped, RegistryTyped
  <2>2. CASE Settled(c) /\ deleting' = deleting \ {a} /\ UNCHANGED <<reg, byArea, discarding>>
    <3>1. CallsTyped'
      BY <2>2, SettledTyped
    <3> QED
      BY <3>1, <2>2, <1>4 DEF LockDelete, Lock, DiskTyped, RegistryTyped
  <2>3. CASE /\ e # None /\ DiscardBegin(e) /\ UNCHANGED deleting
             /\ calls' = [calls EXCEPT ![c].inst = e, ![c].pc = "discard"]
    <3>1. a \in Areas
      BY <1>4 DEF LockDelete, CallsTyped, OnArea
    <3>2. e \in Instances
      BY <2>3, <3>1 DEF RegistryTyped
    <3>3. CallsTyped'
      BY <2>3, <3>2, GivenTyped
    <3>4. RegistryTyped'
      BY <2>3, <1>4, RemoveTyped DEF DiscardBegin, LockDelete
    <3> QED
      BY <3>2, <3>3, <3>4, <2>3, <1>4 DEF LockDelete, Lock, DiskTyped, DiscardBegin
  <2> QED
    BY <1>4, <2>1, <2>2, <2>3 DEF LockDelete
<1> QED
  BY <1>1, <1>2, <1>3, <1>4 DEF Lock

(* Reusing an instance, or throwing it away to make another.                 *)
LEMMA ReuseTyped ==
    ASSUME TypeInv, NEW c \in Calls, Reuse(c)
    PROVE  TypeInv'
<1> USE DEF TypeInv
<1>1. calls[c].pc \in {"probe", "alive", "busy", "switch"} /\ calls[c].inst \in Instances
  BY DEF Reuse, CallsTyped, Working
<1>2. RoundTyped' /\ MountsTypeOK' /\ hub' = hub
  BY DEF Reuse, RoundTyped, MountsTypeOK, mountVars
<1>3. ASSUME Rebuild(c) PROVE TypeInv'
  <2>1. CallsTyped'
    BY <1>1, <1>3, ReachTyped DEF Rebuild, Working, Creating
  <2>2. RegistryTyped'
    BY <1>3, RemoveTyped DEF Rebuild, DiscardBegin
  <2>3. DiskTyped' /\ ProcessTyped'
    BY <1>1, <1>2, <1>3 DEF Rebuild, DiscardBegin, DiskTyped, ProcessTyped
  <2> QED
    BY <1>2, <2>1, <2>2, <2>3
<1>4. ASSUME UNCHANGED <<still, past>>, CallsTyped' PROVE TypeInv'
  <2>1. RegistryTyped' /\ DiskTyped' /\ ProcessTyped'
    BY <1>2, <1>4 DEF still, RegistryTyped, DiskTyped, ProcessTyped
  <2> QED
    BY <1>2, <1>4, <2>1
<1>5. ASSUME Reach(c, "alive") \/ Reach(c, "busy") \/ Reach(c, "switch") \/ Reach(c, "answered") PROVE CallsTyped'
  BY <1>1, <1>5, ReachTyped DEF Working, Creating
<1>6. ASSUME Settled(c) PROVE CallsTyped'
  BY <1>6, SettledTyped
<1>7. Rebuild(c) \/ (UNCHANGED <<still, past>>
        /\ (\/ Reach(c, "alive") \/ Reach(c, "busy") \/ Reach(c, "switch") \/ Reach(c, "answered")
            \/ Settled(c)))
  BY DEF Reuse
<1> QED
  BY <1>3, <1>4, <1>5, <1>6, <1>7

(* A discard comes to its end: the mounts, the directory and the container.  *)
LEMMA DiscardEndTyped ==
    ASSUME MountsTypeOK, NEW i, NEW gone \in BOOLEAN, DiscardEnd(i, gone),
           cont \in [Instances -> {"absent", "running", "exited"}],
           dirs \subseteq Instances, discarding \subseteq Instances
    PROVE  /\ MountsTypeOK'
           /\ cont' \in [Instances -> {"absent", "running", "exited"}]
           /\ dirs' \subseteq Instances /\ discarding' \subseteq Instances
<1>1. MountsTypeOK'
  BY KeyCountsTyped DEF DiscardEnd
<1> QED
  BY <1>1 DEF DiscardEnd

(* What is left behind is remembered.                                        *)
LEMMA LostTyped ==
    ASSUME past \in History, NEW i \in Instances \union {None},
           UNCHANGED past \/ Lose(i)
    PROVE  past' \in History
BY DEF History, Lose

(* An instance that its owner unholds is still an instance.                  *)
LEMMA UnheldTyped ==
    ASSUME inst \in [Instances -> Instance], NEW i
    PROVE  Unheld(i) \in [Instances -> Instance]
BY DEF Unheld, Instance

(* The discard a call began is over, and the call goes on.                   *)
LEMMA DiscardedTyped ==
    ASSUME TypeInv, NEW c \in Calls, Discarded(c)
    PROVE  TypeInv'
<1> USE DEF TypeInv
<1>1. calls[c].inst \in Instances
  BY DEF Discarded, CallsTyped, Working
<1>2. RoundTyped' /\ hub' = hub /\ UNCHANGED <<exists, deleting>>
  BY DEF Discarded, RoundTyped
<1>3. PICK gone \in BOOLEAN : DiscardEnd(calls[c].inst, gone)
                               /\ Forgive(gone \/ cont[calls[c].inst] = "absent", calls[c].inst)
  BY DEF Discarded
<1>4. MountsTypeOK' /\ DiskTyped'
  BY <1>2, <1>3, DiscardEndTyped DEF DiskTyped
<1>5. ProcessTyped'
  BY <1>1, <1>2, <1>3, LostTyped DEF ProcessTyped, Forgive
<1>6. RegistryTyped' /\ CallsTyped'
  <2>1. Unheld(calls[c].inst) \in [Instances -> Instance]
    BY UnheldTyped DEF RegistryTyped
  <2>2. CASE calls[c].op = "acquire"
    BY <2>1, <2>2, ReserveTyped DEF Discarded
  <2>3. CASE calls[c].op # "acquire"
    <3>1. RegistryTyped'
      BY <2>1, <2>3 DEF Discarded, RegistryTyped
    <3>2. Settled(c) \/ Reach(c, "rmwa")
      BY <2>3 DEF Discarded
    <3> QED
      BY <3>1, <3>2, SettledTyped, ReachTyped DEF Working, Creating
  <2> QED
    BY <2>2, <2>3
<1> QED
  BY <1>2, <1>4, <1>5, <1>6

(* A call mounts its directories, one by one.                                *)
LEMMA MountingTyped ==
    ASSUME TypeInv, NEW c \in Calls, NEW k \in MountKeys, MountOne(c, k) \/ MountOver(c, k)
    PROVE  TypeInv'
<1> USE DEF TypeInv
<1>1. MountsTypeOK'
  BY MountOpsTyped DEF MountOne, MountOver
<1>2. CallsTyped'
  <2>1. calls[c] \in Call
    BY DEF CallsTyped
  <2>2. calls'[c] \in Call /\ \A d \in Calls : d # c => calls'[d] = calls[d]
    BY <2>1 DEF MountOne, MountOver, CallsTyped, Call
  <2>3. calls' \in [Calls -> Call]
    BY <2>2 DEF MountOne, MountOver, CallsTyped
  <2>4. /\ calls'[c].pc = calls[c].pc /\ calls'[c].inst = calls[c].inst
        /\ calls'[c].op = calls[c].op /\ calls'[c].area = calls[c].area
    BY <2>1 DEF MountOne, MountOver, CallsTyped, Call
  <2> QED
    BY <2>2, <2>3, <2>4 DEF CallsTyped
<1>3. RegistryTyped' /\ DiskTyped'
  BY DEF MountOne, MountOver, still, RegistryTyped, DiskTyped
<1>4. RoundTyped' /\ ProcessTyped'
  BY DEF MountOne, MountOver, RoundTyped, ProcessTyped
<1> QED
  BY <1>1, <1>2, <1>3, <1>4

(* A discard that has no container to wait for.                              *)
LEMMA DiscardNowTyped ==
    ASSUME MountsTypeOK, RegistryTyped, NEW i, NEW K, DiscardNow(i, K),
           dirs \subseteq Instances, discarding \subseteq Instances
    PROVE  /\ MountsTypeOK' /\ RegistryTyped'
           /\ dirs' \subseteq Instances /\ discarding' \subseteq Instances
<1>1. MountsTypeOK'
  BY KeyCountsTyped DEF DiscardNow
<1>2. RegistryTyped'
  BY RemoveTyped DEF DiscardNow
<1> QED
  BY <1>1, <1>2 DEF DiscardNow

(* A creation goes on, succeeds, or is rolled back.                          *)
LEMMA CreationTyped ==
    ASSUME TypeInv, NEW c \in Calls,
           CreateDirs(c) \/ RollBack(c) \/ Mounted(c) \/ Start(c) \/ Started(c) \/ CreateFails(c)
    PROVE  TypeInv'
<1> USE DEF TypeInv
<1>1. calls[c] \in Call /\ calls[c].pc \in Creating /\ calls[c].inst \in Instances
      /\ calls[c].op = "acquire" /\ calls[c].area \in Areas
  BY DEF CreateDirs, RollBack, Mounted, Start, Started, CreateFails, CallsTyped, Working,
         Creating, OnArea
<1>2. RoundTyped' /\ hub' = hub
  BY DEF CreateDirs, RollBack, Mounted, Start, Started, CreateFails, RoundTyped
<1>3. ASSUME CreateDirs(c) PROVE TypeInv'
  <2>1. calls[c].shape \subseteq MountKeys
    BY <1>1, AreasAssumption DEF Call
  <2>2. calls'[c] \in Call /\ \A d \in Calls : d # c => calls'[d] = calls[d]
    BY <1>1, <1>3, <2>1 DEF CreateDirs, CallsTyped, Call, Working, Creating
  <2>3. /\ calls'[c].inst = calls[c].inst /\ calls'[c].op = calls[c].op
        /\ calls'[c].area = calls[c].area
    BY <1>1, <1>3 DEF CreateDirs, CallsTyped, Call
  <2>4. CallsTyped'
    <3>1. calls' \in [Calls -> Call]
      BY <1>3, <2>2 DEF CreateDirs, CallsTyped
    <3> QED
      BY <1>1, <2>2, <2>3, <3>1 DEF CallsTyped
  <2>5. DiskTyped' /\ ProcessTyped' /\ RegistryTyped'
    BY <1>1, <1>3 DEF CreateDirs, DiskTyped, ProcessTyped, RegistryTyped
  <2>6. MountsTypeOK'
    BY <1>3 DEF CreateDirs, MountsTypeOK, mountVars
  <2> QED
    BY <1>2, <2>4, <2>5, <2>6
<1>4. ASSUME RollBack(c) PROVE TypeInv'
  <2>1. CallsTyped'
    BY <1>4, SettledTyped DEF RollBack
  <2>2. MountsTypeOK' /\ RegistryTyped' /\ dirs' \subseteq Instances /\ discarding' \subseteq Instances
    BY <1>4, DiscardNowTyped DEF RollBack, DiskTyped
  <2> QED
    BY <1>2, <1>4, <2>1, <2>2 DEF RollBack, DiskTyped, ProcessTyped
<1>5. ASSUME Mounted(c) PROVE TypeInv'
  <2>1. calls'[c] \in Call /\ \A d \in Calls : d # c => calls'[d] = calls[d]
    BY <1>1, <1>5 DEF Mounted, CallsTyped, Call, Working, Creating
  <2>2. /\ calls'[c].inst = calls[c].inst /\ calls'[c].op = calls[c].op
        /\ calls'[c].area = calls[c].area
    BY <1>1, <1>5 DEF Mounted, CallsTyped, Call
  <2>3. CallsTyped'
    <3>1. calls' \in [Calls -> Call]
      BY <1>5, <2>1 DEF Mounted, CallsTyped
    <3> QED
      BY <1>1, <2>1, <2>2, <3>1 DEF CallsTyped
  <2>4. RegistryTyped'
    BY <1>1, <1>5 DEF Mounted, RegistryTyped, Instance
  <2>5. MountsTypeOK' /\ DiskTyped' /\ ProcessTyped'
    BY <1>5 DEF Mounted, MountsTypeOK, mountVars, DiskTyped, ProcessTyped
  <2> QED
    BY <1>2, <2>3, <2>4, <2>5
<1>6. ASSUME Start(c) PROVE TypeInv'
  <2>1. CallsTyped'
    BY <1>1, <1>6, ReachTyped DEF Start, Working, Creating
  <2>2. RegistryTyped' /\ DiskTyped' /\ ProcessTyped' /\ MountsTypeOK'
    BY <1>1, <1>6 DEF Start, RegistryTyped, DiskTyped, ProcessTyped, MountsTypeOK, mountVars
  <2> QED
    BY <1>2, <2>1, <2>2
<1>7. ASSUME Started(c) PROVE TypeInv'
  <2>1. CallsTyped'
    BY <1>1, <1>7, ReachTyped DEF Started, Working, Creating
  <2>2. RegistryTyped'
    <3>1. [inst EXCEPT ![calls[c].inst].info = TRUE] \in [Instances -> Instance]
      BY DEF RegistryTyped, Instance
    <3> QED
      BY <1>7, <3>1 DEF Started, RegistryTyped, Instance
  <2>3. DiskTyped' /\ ProcessTyped' /\ MountsTypeOK'
    BY <1>7 DEF Started, DiskTyped, ProcessTyped, MountsTypeOK, mountVars
  <2> QED
    BY <1>2, <2>1, <2>2, <2>3
<1>8. ASSUME CreateFails(c) PROVE TypeInv'
  <2>1. CallsTyped'
    BY <1>8, SettledTyped DEF CreateFails
  <2>2. MountsTypeOK' /\ RegistryTyped' /\ dirs' \subseteq Instances /\ discarding' \subseteq Instances
    BY <1>8, DiscardNowTyped DEF CreateFails, DiskTyped
  <2>3. PICK gone \in BOOLEAN :
          /\ cont' = [cont EXCEPT ![calls[c].inst] = IF gone THEN "absent" ELSE @]
          /\ Forgive(gone, calls[c].inst)
    BY <1>8 DEF CreateFails
  <2>4. DiskTyped'
    BY <1>8, <2>2, <2>3 DEF CreateFails, DiskTyped
  <2>5. ProcessTyped'
    BY <1>1, <1>2, <2>3, LostTyped DEF ProcessTyped, Forgive
  <2> QED
    BY <1>2, <2>1, <2>2, <2>4, <2>5
<1> QED
  BY <1>3, <1>4, <1>5, <1>6, <1>7, <1>8

(* Cancellation, quiesce, update and the removal of files.                   *)
LEMMA OtherCallsTyped ==
    ASSUME TypeInv, NEW c \in Calls,
           Cancel(c) \/ Quiesce(c) \/ Update(c) \/ RemoveFiles(c)
    PROVE  TypeInv'
<1> USE DEF TypeInv
<1>1. RoundTyped' /\ hub' = hub /\ MountsTypeOK'
  BY DEF Cancel, Quiesce, Update, RemoveFiles, RoundTyped, MountsTypeOK, mountVars
<1>2. ASSUME Cancel(c) PROVE TypeInv'
  <2>1. CallsTyped'
    <3>1. CASE calls[c].pc = "mount" /\ calls' = [calls EXCEPT ![c].stop = TRUE]
      <4>1. calls' \in [Calls -> Call]
        <5>1. calls[c] \in Call
          BY DEF CallsTyped
        <5>2. [calls[c] EXCEPT !.stop = TRUE] \in Call
          BY <5>1 DEF Call
        <5> QED
          BY <3>1, <5>2 DEF CallsTyped
      <4>2. \A d \in Calls : /\ calls'[d].pc = calls[d].pc /\ calls'[d].inst = calls[d].inst
                             /\ calls'[d].op = calls[d].op /\ calls'[d].area = calls[d].area
        BY <3>1 DEF CallsTyped, Call
      <4> QED
        BY <4>1, <4>2 DEF CallsTyped
    <3> QED
      BY <1>2, <3>1, SettledTyped DEF Cancel
  <2>2. RegistryTyped' /\ DiskTyped'
    BY <1>2 DEF Cancel, RegistryTyped, DiskTyped
  <2>3. calls[c].inst \in Instances \union {None}
    BY DEF CallsTyped, Call
  <2>4. ProcessTyped'
    BY <1>1, <1>2, <2>3, LostTyped DEF Cancel, ProcessTyped
  <2> QED
    BY <1>1, <2>1, <2>2, <2>4
<1>3. ASSUME Quiesce(c) PROVE TypeInv'
  <2>1. calls[c].inst \in Instances
    BY <1>3 DEF Quiesce, CallsTyped, Working
  <2>2. CallsTyped'
    BY <1>3, <2>1, ReachTyped, SettledTyped DEF Quiesce, Working, Creating
  <2>3. RegistryTyped'
    BY <1>3 DEF Quiesce, RegistryTyped, Instance
  <2>4. DiskTyped' /\ ProcessTyped'
    BY <1>1, <1>3 DEF Quiesce, DiskTyped, ProcessTyped
  <2> QED
    BY <1>1, <2>2, <2>3, <2>4
<1>4. ASSUME Update(c) PROVE TypeInv'
  <2>1. calls[c].inst \in Instances
    BY <1>4 DEF Update, CallsTyped, Working
  <2>2. CallsTyped'
    BY <1>4, SettledTyped DEF Update
  <2> QED
    BY <1>1, <1>4, <2>1, <2>2 DEF Update, RegistryTyped, DiskTyped, ProcessTyped
<1>5. ASSUME RemoveFiles(c) PROVE TypeInv'
  <2>1. CallsTyped'
    BY <1>5, SettledTyped DEF RemoveFiles
  <2> QED
    BY <1>1, <1>5, <2>1 DEF RemoveFiles, RegistryTyped, DiskTyped, ProcessTyped
<1> QED
  BY <1>2, <1>3, <1>4, <1>5

-----------------------------------------------------------------------------
\* The reconciler, the process, and what happens by itself.

(* What the reconciler discards is remembered.                               *)
LEMMA ReapedTyped ==
    ASSUME past \in History, NEW i \in Instances, UNCHANGED past \/ Reap(i)
    PROVE  past' \in History
BY DEF History, Reap

(* A round's listings and sweep, and its discards.                           *)
LEMMA RoundStepTyped ==
    ASSUME TypeInv, Round
    PROVE  TypeInv'
<1> USE DEF TypeInv
<1>1. ASSUME RoundBegin PROVE TypeInv'
  <2>1. RoundTyped'
    BY <1>1 DEF RoundBegin, RoundTyped, RoundRecord, RegistryTyped
  <2>2. fsLost' \in BOOLEAN
    BY <1>1, Zenon DEF RoundBegin
  <2>3. MountsTypeOK'
    BY <1>1, <2>2 DEF RoundBegin, MountsTypeOK
  <2>4. RegistryTyped' /\ DiskTyped' /\ ProcessTyped'
    BY <1>1 DEF RoundBegin, still, RegistryTyped, DiskTyped, ProcessTyped
  <2>5. CallsTyped'
    BY <1>1 DEF RoundBegin, CallsTyped
  <2> QED
    BY <2>1, <2>3, <2>4, <2>5
<1>2. ASSUME NEW i \in Instances, RoundDiscard(i) PROVE TypeInv'
  <2>1. CallsTyped' /\ UNCHANGED <<hub, exists, deleting, cont>>
    BY <1>2 DEF RoundDiscard, RoundStill, CallsTyped
  <2>2. RoundTyped' /\ ProcessTyped'
    <3>1. past' \in History
      BY <1>2, ReapedTyped DEF RoundDiscard, ProcessTyped
    <3>2. RoundTyped'
      <4>1. rec \in RoundRecord
        BY DEF RoundTyped
      <4>2. CASE rec' = [rec EXCEPT !.pc = "alldis", !.todo = @ \ {i}, !.now = i]
        BY <4>1, <4>2 DEF RoundTyped, RoundRecord
      <4>3. CASE rec' = [rec EXCEPT !.todo = @ \ {i}] /\ rec.pc = "all"
        BY <4>1, <4>3 DEF RoundTyped, RoundRecord
      <4> QED
        BY <1>2, <4>2, <4>3 DEF RoundDiscard
    <3> QED
      BY <2>1, <3>1, <3>2 DEF ProcessTyped
  <2>3. CASE DiscardBegin(i) /\ UNCHANGED <<inst, dirs, mountVars>>
    <3>1. RegistryTyped'
      BY <2>3, RemoveTyped DEF DiscardBegin
    <3> QED
      BY <2>1, <2>2, <2>3, <3>1 DEF DiscardBegin, DiskTyped, MountsTypeOK, mountVars
  <2>4. CASE DiscardNow(i, {})
    <3>1. MountsTypeOK' /\ RegistryTyped' /\ dirs' \subseteq Instances /\ discarding' \subseteq Instances
      BY <2>4, DiscardNowTyped DEF DiskTyped
    <3> QED
      BY <2>1, <2>2, <3>1 DEF DiskTyped
  <2> QED
    BY <1>2, <2>3, <2>4 DEF RoundDiscard
<1>3. ASSUME RoundReset PROVE TypeInv'
  <2>1. MountsTypeOK'
    BY <1>3, KeyCountsTyped DEF RoundReset
  <2>2. RoundTyped' /\ ProcessTyped'
    BY <1>3 DEF RoundReset, RoundGo, RoundTyped, RoundRecord, ProcessTyped, History
  <2>3. RegistryTyped' /\ DiskTyped' /\ CallsTyped'
    BY <1>3 DEF RoundReset, still, RegistryTyped, DiskTyped, CallsTyped
  <2> QED
    BY <2>1, <2>2, <2>3
<1>4. ASSUME RoundList PROVE TypeInv'
  <2>1. RoundTyped'
    <3> DEFINE up == {i \in Instances : cont[i] = "running"}
               over == {i \in Instances : cont[i] = "exited"}
    <3>1. up \in SUBSET Instances /\ over \in SUBSET Instances /\ rec \in RoundRecord
      BY DEF RoundTyped
    <3>2. rec' = [rec EXCEPT !.pc = "dead", !.seen = up, !.dead = over]
          \/ rec' = [rec EXCEPT !.pc = "dead", !.seen = {}, !.dead = {}]
      BY <1>4 DEF RoundList
    <3> HIDE DEF up, over
    <3> QED
      BY <3>1, <3>2 DEF RoundTyped, RoundRecord
  <2> QED
    BY <1>4, <2>1 DEF RoundList, still, mountVars, RegistryTyped, DiskTyped, CallsTyped,
       MountsTypeOK, ProcessTyped
<1>5. ASSUME RoundDead PROVE TypeInv'
  <2>1. RoundTyped'
    BY <1>5 DEF RoundDead, RoundTyped, RoundRecord, Ready, RegistryTyped
  <2> QED
    BY <1>5, <2>1 DEF RoundDead, RoundStill, mountVars, RegistryTyped, DiskTyped, CallsTyped,
       MountsTypeOK, ProcessTyped
<1>6. ASSUME NEW i \in Instances, RoundEach(i) PROVE TypeInv'
  <2>1. CallsTyped' /\ MountsTypeOK' /\ UNCHANGED <<hub, exists, deleting, cont, dirs, inst>>
    BY <1>6 DEF RoundEach, RoundStill, CallsTyped, MountsTypeOK, mountVars
  <2>2. RoundTyped' /\ ProcessTyped'
    <3>1. past' \in History
      BY <1>6, ReapedTyped DEF RoundEach, ProcessTyped
    <3>2. RoundTyped'
      BY <1>6 DEF RoundEach, RoundTyped, RoundRecord
    <3> QED
      BY <2>1, <3>1, <3>2 DEF ProcessTyped
  <2>3. RegistryTyped'
    BY <1>6, <2>1, RemoveTyped DEF RoundEach, DiscardBegin, RegistryTyped
  <2>4. DiskTyped'
    BY <1>6, <2>1 DEF RoundEach, DiscardBegin, DiskTyped
  <2> QED
    BY <2>1, <2>2, <2>3, <2>4
<1>7. ASSUME RoundDiscarded PROVE TypeInv'
  <2>1. RoundTyped' /\ ProcessTyped' /\ CallsTyped' /\ UNCHANGED <<exists, deleting>>
    BY <1>7 DEF RoundDiscarded, RoundStill, RoundTyped, RoundRecord, ProcessTyped, CallsTyped
  <2>2. PICK gone \in BOOLEAN : DiscardEnd(rec.now, gone)
    BY <1>7 DEF RoundDiscarded
  <2>3. MountsTypeOK' /\ DiskTyped'
    BY <2>1, <2>2, DiscardEndTyped DEF DiskTyped
  <2>4. RegistryTyped'
    BY <1>7, UnheldTyped DEF RoundDiscarded, RegistryTyped
  <2> QED
    BY <2>1, <2>3, <2>4
<1>8. ASSUME RoundOrphans PROVE TypeInv'
  <2>1. RoundTyped'
    BY <1>8 DEF RoundOrphans, RoundTyped, RoundRecord, NoRound, Present
  <2> QED
    BY <1>8, <2>1 DEF RoundOrphans, RoundStill, mountVars, RegistryTyped, DiskTyped, CallsTyped,
       MountsTypeOK, ProcessTyped
<1>9. ASSUME NEW k \in MountKeys, RoundSweep(k) PROVE TypeInv'
  <2>1. MountsTypeOK'
    BY <1>9, MountOpsTyped DEF RoundSweep
  <2>2. RoundTyped'
    BY <1>9 DEF RoundSweep, RoundTyped, RoundRecord
  <2> QED
    BY <1>9, <2>1, <2>2 DEF RoundSweep, still, RegistryTyped, DiskTyped, CallsTyped, ProcessTyped
<1>10. ASSUME RoundUnmount PROVE TypeInv'
  <2>1. MountsTypeOK'
    <3>1. CASE rec.pc = "lock" /\ SweepLock(rec.now)
      BY <3>1, MountOpsTyped DEF RoundTyped
    <3>2. CASE SweepUnmount(rec.now)
      BY <3>2 DEF SweepUnmount, MountsTypeOK
    <3> QED
      BY <1>10, <3>1, <3>2 DEF RoundUnmount
  <2>2. RoundTyped'
    BY <1>10 DEF RoundUnmount, RoundGo, RoundTyped, RoundRecord
  <2> QED
    BY <1>10, <2>1, <2>2 DEF RoundUnmount, still, RegistryTyped, DiskTyped, CallsTyped, ProcessTyped
<1>11. ASSUME RoundEnd PROVE TypeInv'
  <2>1. RoundTyped'
    BY <1>11 DEF RoundEnd, RoundTyped, RoundRecord, NoRound
  <2> QED
    BY <1>11, <2>1 DEF RoundEnd, still, mountVars, RegistryTyped, DiskTyped, CallsTyped,
       MountsTypeOK, ProcessTyped
<1> QED
  BY <1>1, <1>2, <1>3, <1>4, <1>5, <1>6, <1>7, <1>8, <1>9, <1>10, <1>11 DEF Round

(* A crash, the start-up that follows, and what nobody asked for.            *)
LEMMA ProcessStepTyped ==
    ASSUME TypeInv,
           \/ Crash \/ Boot \/ Booted \/ MountEvent
           \/ \E i \in Instances : BootAdopt(i) \/ BootRemove(i) \/ ContainerDies(i)
    PROVE  TypeInv'
<1> USE DEF TypeInv
<1>1. ASSUME Crash PROVE TypeInv'
  <2>1. MountsTypeOK'
    <3>1. MountsForgotten
      BY <1>1 DEF Crash
    <3>2. refs' \in [MountKeys -> Nat] /\ zero' \in [MountKeys -> {"unset", "young", "old"}]
      BY <3>1 DEF MountsForgotten, ResetKeys
    <3>3. fsLost' \in BOOLEAN
      BY <3>1, Zenon DEF MountsForgotten
    <3> QED
      BY <3>1, <3>2, <3>3 DEF MountsForgotten, MountsTypeOK
  <2>2. RegistryTyped'
    BY <1>1 DEF Crash, RegistryTyped, Instance
  <2>3. CallsTyped'
    BY <1>1 DEF Crash, CallsTyped, NoCall, Call, Working, Creating, OnArea
  <2>4. RoundTyped' /\ ProcessTyped'
    BY <1>1 DEF Crash, RoundTyped, RoundRecord, NoRound, ProcessTyped, NoPast, History
  <2>5. DiskTyped'
    BY <1>1 DEF Crash, DiskTyped
  <2> QED
    BY <2>1, <2>2, <2>3, <2>4, <2>5
<1>2. ASSUME Boot PROVE TypeInv'
  <2>1. RoundTyped' /\ ProcessTyped'
    BY <1>2 DEF Boot, RoundTyped, RoundRecord, NoRound, ProcessTyped, History
  <2> QED
    BY <1>2, <2>1 DEF Boot, still, mountVars, RegistryTyped, DiskTyped, CallsTyped, MountsTypeOK
<1>3. ASSUME Booted PROVE TypeInv'
  BY <1>3 DEF Booted, mountVars, RegistryTyped, DiskTyped, CallsTyped, MountsTypeOK, RoundTyped,
     ProcessTyped
<1>4. ASSUME MountEvent PROVE TypeInv'
  <2>1. MountsTypeOK'
    <3>1. CASE FsRestart
      <4>1. fsLost' \in BOOLEAN
        BY <3>1, Zenon DEF FsRestart
      <4> QED
        BY <3>1, <4>1 DEF FsRestart, MountsTypeOK
    <3> QED
      BY <1>4, <3>1, MountOpsTyped DEF MountEvent
  <2> QED
    BY <1>4, <2>1 DEF MountEvent, still, RegistryTyped, DiskTyped, CallsTyped, RoundTyped, ProcessTyped
<1>5. ASSUME NEW i \in Instances, BootAdopt(i) PROVE TypeInv'
  <2>1. MountsTypeOK'
    BY <1>5, KeyCountsTyped DEF BootAdopt
  <2>2. RegistryTyped'
    <3>1. reg' \subseteq Instances /\ byArea' \in [Areas -> Instances \union {None}]
      BY <1>5 DEF BootAdopt, Enter, RegistryTyped
    <3>2. inst[i] \in Instance
      BY DEF RegistryTyped
    <3>3. [inst[i] EXCEPT !.status = "ready", !.held = TRUE, !.info = TRUE] \in Instance
      BY <3>2 DEF Instance
    <3>4. inst' = [inst EXCEPT ![i] = [inst[i] EXCEPT !.status = "ready", !.held = TRUE, !.info = TRUE]]
      BY <1>5 DEF BootAdopt, RegistryTyped
    <3> QED
      BY <3>1, <3>3, <3>4 DEF RegistryTyped
  <2>3. RoundTyped' /\ ProcessTyped'
    BY <1>5 DEF BootAdopt, RoundTyped, RoundRecord, ProcessTyped, History
  <2> QED
    BY <1>5, <2>1, <2>2, <2>3 DEF BootAdopt, DiskTyped, CallsTyped
<1>6. ASSUME NEW i \in Instances, BootRemove(i) PROVE TypeInv'
  <2>1. PICK gone \in BOOLEAN :
          cont' = [cont EXCEPT ![i] = IF gone THEN "absent" ELSE @] /\ Forgive(gone, i)
    BY <1>6 DEF BootRemove
  <2>2. RoundTyped' /\ DiskTyped'
    BY <1>6, <2>1 DEF BootRemove, RoundTyped, RoundRecord, DiskTyped
  <2>3. ProcessTyped'
    BY <1>6, <2>1, LostTyped DEF BootRemove, Forgive, ProcessTyped
  <2> QED
    BY <1>6, <2>2, <2>3 DEF BootRemove, mountVars, RegistryTyped, CallsTyped, MountsTypeOK
<1>7. ASSUME NEW i \in Instances, ContainerDies(i) PROVE TypeInv'
  BY <1>7 DEF ContainerDies, mountVars, RegistryTyped, DiskTyped, CallsTyped, MountsTypeOK,
     RoundTyped, ProcessTyped
<1> QED
  BY <1>1, <1>2, <1>3, <1>4, <1>5, <1>6, <1>7

(* Every step of the service keeps the types.                                *)
LEMMA StepTyped ==
    ASSUME TypeInv, [Next]_vars
    PROVE  TypeInv'
<1>1. ASSUME NEW c \in Calls, CallStep(c) PROVE TypeInv'
  BY <1>1, ArriveTyped, LockTyped, ReuseTyped, DiscardedTyped, MountingTyped, CreationTyped,
     OtherCallsTyped DEF CallStep
<1>2. CASE UNCHANGED vars
  BY <1>2 DEF vars, wvars, mountVars, TypeInv, RegistryTyped, DiskTyped, CallsTyped, MountsTypeOK,
     RoundTyped, ProcessTyped
<1> QED
  BY <1>1, <1>2, RoundStepTyped, ProcessStepTyped DEF Next

(* What a call remembers of its instance, and the round of what it sweeps,    *)
(* always exists: the inductive form of type correctness.                    *)
THEOREM ServiceTypeInvariant == Spec => []TypeInv
<1>1. Init => TypeInv
  BY InitTyped
<1>2. TypeInv /\ [Next]_vars => TypeInv'
  BY StepTyped
<1> QED
  BY <1>1, <1>2, PTL DEF Spec

(* Every reachable state of the instance service is type correct; no         *)
(* reference count falls below zero.                                         *)
THEOREM ServiceTypeCorrect == Spec => []TypeOK
<1>1. TypeInv => TypeOK
  BY TypeInvSuffices
<1> QED
  BY <1>1, ServiceTypeInvariant, PTL
=============================================================================
