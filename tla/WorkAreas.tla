------------------------------ MODULE WorkAreas -----------------------------
(* The v2 instance service (manager/wa_instances.py) with its registry       *)
(* (manager/wa_registry.py), the role mounts and the directories it manages. *)
(* Calls on one work area exclude each other by a lock; the reconciler takes *)
(* no lock.  A step is what happens between two awaits.                      *)
EXTENDS RoleMounts

CONSTANTS
    Areas,        \* work area ids
    Instances,    \* sandbox ids, each minted at most once
    Calls,        \* API calls, each made at most once
    Owners,       \* records [user, role] of requests
    Shapes,       \* sets of role directories that requests ask for
    MaxPerRole,   \* WORK_AREA_MAX_PER_ROLE, 0 for no limit
    MaxPerUser,   \* WORK_AREA_MAX_PER_USER, 0 for no limit
    MaxMishaps,   \* bound: crashes, restarts of cr-fs, deaths of a mount or a
                  \* container, containers left to adopt, and requests for several directories
    MaxRounds,    \* bound: rounds of the reconciler
    None          \* no instance, no key

ASSUME AreasAssumption ==
    /\ MaxPerRole \in Nat /\ MaxPerUser \in Nat
    /\ MaxMishaps \in Nat /\ MaxRounds \in Nat
    /\ Shapes \subseteq SUBSET MountKeys
    /\ None \notin Instances \union MountKeys

VARIABLES
    inst,         \* sandbox id -> WorkAreaInstance (the object outlives its entry)
    reg,          \* WorkAreaRegistry._by_id
    byArea,       \* WorkAreaRegistry._by_work_area
    cont,         \* sandbox id -> its container
    dirs,         \* instances/<sandbox_id> on disk
    exists,       \* work-areas/<work_area_id> on disk
    deleting,     \* WorkAreaService._deleting
    discarding,   \* WorkAreaService._discarding
    calls,        \* the API calls
    rec,          \* the reconciler's round
    hub,          \* up, down, or booting with the containers yet to adopt
    spent,        \* mishaps and rounds so far
    past          \* history: what was done to whom

wvars == <<inst, reg, byArea, cont, dirs, exists, deleting, discarding, calls,
           rec, hub, spent, past>>
vars == <<wvars, mountVars>>
still == <<inst, reg, byArea, cont, dirs, exists, deleting, discarding>>

-----------------------------------------------------------------------------
(* Instances, calls and the registry.                                        *)

NoInst == [area |-> None, owner |-> None, shape |-> {}, status |-> "none",
           held |-> FALSE, info |-> FALSE]
NoCall == [op |-> "none", area |-> None, owner |-> None, shape |-> {}, inst |-> None,
           pc |-> "idle", todo |-> {}, run |-> {}, taken |-> {}, stop |-> FALSE]
NoRound == [pc |-> "idle", todo |-> {}, seen |-> {}, dead |-> {}, keys |-> {}, now |-> None]
NoPast == [reaped |-> {}, lost |-> {}, adopted |-> {}, stale |-> {}, wiped |-> {}]

Mishap ==
    /\ spent.mishaps < MaxMishaps
    /\ spent' = [spent EXCEPT !.mishaps = @ + 1]

Holds(c) == calls[c].pc \notin {"idle", "lock", "answered", "done"}
\* Mutant: release, quiesce and delete do not take the area's lock.
LockedByAcquire(a) == \E c \in Calls : calls[c].op = "acquire" /\ calls[c].area = a /\ Holds(c)
Locked(a) == \E c \in Calls : calls[c].area = a /\ Holds(c)

Reach(c, pc) == calls' = [calls EXCEPT ![c].pc = pc]
Settled(c) == calls' = [calls EXCEPT ![c] = [NoCall EXCEPT !.pc = "done"]]

SameUser(o) == {i \in reg : inst[i].owner.user = o.user}
SameRole(o) == {i \in SameUser(o) : inst[i].owner.role = o.role}
\* Mutant: instances that are still starting do not count.
AtLimitReadyOnly(o) ==
    \/ MaxPerRole > 0 /\ Cardinality({i \in SameRole(o) : inst[i].status = "ready"}) >= MaxPerRole
    \/ MaxPerUser > 0 /\ Cardinality({i \in SameUser(o) : inst[i].status = "ready"}) >= MaxPerUser
AtLimit(o) ==
    \/ MaxPerRole > 0 /\ Cardinality(SameRole(o)) >= MaxPerRole
    \/ MaxPerUser > 0 /\ Cardinality(SameUser(o)) >= MaxPerUser

Enter(i, a) ==
    /\ reg' = reg \union {i}
    /\ byArea' = [byArea EXCEPT ![a] = i]

\* Mutant: the index loses the area whatever it names.
RemoveBlindly(i) ==
    /\ reg' = reg \ {i}
    /\ byArea' = [a \in Areas |-> IF a = inst[i].area THEN None ELSE byArea[a]]

\* The index loses the area only while it still names this instance.
Remove(i) ==
    /\ reg' = reg \ {i}
    /\ byArea' = [a \in Areas |->
                    IF i \in reg /\ a = inst[i].area /\ byArea[a] = i THEN None ELSE byArea[a]]

Ready == {i \in reg : inst[i].status = "ready"}

-----------------------------------------------------------------------------
(* _discard: off the register first, then the container, then the rest.      *)

DiscardBegin(i) ==
    /\ Remove(i)
    /\ discarding' = discarding \union {i}

Unheld(i) == [inst EXCEPT ![i].held = FALSE]

\* docker rm may fail and is only logged; the mounts are given back once.
DiscardEnd(i, gone) ==
    /\ cont' = [cont EXCEPT ![i] = IF gone THEN "absent" ELSE @]
    /\ discarding' = discarding \ {i}
    /\ IF inst[i].held THEN ReleaseKeys(inst[i].shape) ELSE UNCHANGED <<refs, zero>>
    /\ dirs' = dirs \ {i}
    /\ UNCHANGED <<mounted, keyLocks, fsLost>>

\* Mutant: the directory stays.
DiscardNowKeepingDirs(i, K) ==
    /\ Remove(i)
    /\ inst' = Unheld(i)
    /\ ReleaseKeys(K \union (IF inst[i].held THEN inst[i].shape ELSE {}))
    /\ UNCHANGED <<mounted, keyLocks, fsLost, discarding, dirs>>

\* Without a container there is nothing to wait for.
DiscardNow(i, K) ==
    /\ Remove(i)
    /\ inst' = Unheld(i)
    /\ ReleaseKeys(K \union (IF inst[i].held THEN inst[i].shape ELSE {}))
    /\ dirs' = dirs \ {i}
    /\ UNCHANGED <<mounted, keyLocks, fsLost, discarding>>

Lose(i) == past' = [past EXCEPT !.lost = @ \union {i}]
Forgive(gone, i) == IF gone THEN UNCHANGED past ELSE Lose(i)

-----------------------------------------------------------------------------
(* Arrival: checked before the area's lock, checked again under it.          *)

Arrive(c, call) ==
    /\ hub = "up" /\ calls[c].pc = "idle"
    /\ calls' = [calls EXCEPT ![c] = [call EXCEPT !.pc = "lock"]]
    /\ UNCHANGED <<inst, reg, byArea, cont, dirs, exists, discarding, rec, hub, past,
                   mountVars>>

Acquire(c, a, o, s) ==
    /\ IF Cardinality(s) > 1 THEN Mishap ELSE UNCHANGED spent
    /\ a \notin deleting
    /\ Arrive(c, [NoCall EXCEPT !.op = "acquire", !.area = a, !.owner = o, !.shape = s])
    /\ UNCHANGED deleting

\* release, quiesce, and update_inputs / update_context
OnInstance(c, op, i) ==
    /\ i \in reg
    /\ inst[i].status \in (IF op = "update" THEN {"ready"} ELSE {"ready", "quiesced"})
    /\ Arrive(c, [NoCall EXCEPT !.op = op, !.area = inst[i].area, !.inst = i])
    /\ UNCHANGED <<deleting, spent>>

Delete(c, op, a) ==
    /\ a \notin deleting
    /\ deleting' = deleting \union {a}
    /\ Arrive(c, [NoCall EXCEPT !.op = op, !.area = a])
    /\ UNCHANGED spent

\* reserve, then _create up to its first await; or the limit's 409.
\* known is the instances as the code before it left them.
Reserve(c, known) ==
    LET a == calls[c].area  o == calls[c].owner IN
    \/ /\ AtLimit(o)
       /\ Settled(c)
       /\ inst' = known
       /\ UNCHANGED <<reg, byArea>>
    \/ /\ ~AtLimit(o)
       /\ \E i \in Instances :
            /\ inst[i].status = "none"
            /\ inst' = [known EXCEPT ![i] = [NoInst EXCEPT !.area = a, !.owner = o,
                                              !.shape = calls[c].shape, !.status = "starting"]]
            /\ Enter(i, a)
            /\ calls' = [calls EXCEPT ![c].inst = i, ![c].pc = "create"]

\* The lock is granted; what follows up to the first await.
LockAcquire(c) ==
    LET a == calls[c].area  e == byArea[a] IN
    /\ calls[c].op = "acquire"
    /\ \/ /\ a \in deleting
          /\ Settled(c)
          /\ UNCHANGED <<inst, reg, byArea, discarding>>
       \/ /\ a \notin deleting /\ e = None
          /\ Reserve(c, inst)
          /\ UNCHANGED discarding
       \/ /\ a \notin deleting /\ e # None
          /\ IF inst[e].owner # calls[c].owner
             THEN Settled(c) /\ UNCHANGED <<inst, reg, byArea, discarding>>
             ELSE IF inst[e].status = "ready"
             THEN /\ calls' = [calls EXCEPT ![c].inst = e, ![c].pc = "probe"]
                  /\ UNCHANGED <<inst, reg, byArea, discarding>>
             ELSE /\ calls' = [calls EXCEPT ![c].inst = e, ![c].pc = "discard"]
                  /\ DiscardBegin(e)
                  /\ UNCHANGED inst
    /\ UNCHANGED deleting

LockInstance(c) ==
    LET i == calls[c].inst IN
    /\ calls[c].op \in {"release", "quiesce", "update"}
    /\ IF i \notin reg \/ (calls[c].op = "update" /\ inst[i].status # "ready")
       THEN Settled(c) /\ UNCHANGED <<reg, byArea, discarding>>
       ELSE IF calls[c].op = "release"
       THEN Reach(c, "discard") /\ DiscardBegin(i)
       ELSE Reach(c, calls[c].op) /\ UNCHANGED <<reg, byArea, discarding>>
    /\ UNCHANGED <<inst, deleting>>

\* Mutant: the area's instance is not looked for.
LockDeleteUnchecked(c) ==
    /\ calls[c].op \in {"delete", "force_delete"}
    /\ Reach(c, "rmwa")
    /\ UNCHANGED <<inst, reg, byArea, discarding, deleting>>

LockDelete(c) ==
    LET a == calls[c].area  e == byArea[a] IN
    /\ calls[c].op \in {"delete", "force_delete"}
    /\ IF e = None
       THEN Reach(c, "rmwa") /\ UNCHANGED <<reg, byArea, discarding, deleting>>
       ELSE IF calls[c].op = "delete"
       THEN /\ Settled(c)
            /\ deleting' = deleting \ {a}
            /\ UNCHANGED <<reg, byArea, discarding>>
       ELSE /\ calls' = [calls EXCEPT ![c].inst = e, ![c].pc = "discard"]
            /\ DiscardBegin(e)
            /\ UNCHANGED deleting
    /\ UNCHANGED inst

Lock(c) ==
    /\ calls[c].pc = "lock"
    /\ ~Locked(calls[c].area)
    /\ LockAcquire(c) \/ LockInstance(c) \/ LockDelete(c)
    /\ UNCHANGED <<cont, dirs, exists, rec, hub, spent, past, mountVars>>

-----------------------------------------------------------------------------
(* _try_reuse                                                                *)

\* Whoever finds the instance unusable throws it away and makes another.
Rebuild(c) ==
    /\ Reach(c, "discard")
    /\ DiscardBegin(calls[c].inst)
    /\ UNCHANGED <<inst, cont, dirs, exists, deleting, past>>

Reuse(c) ==
    LET i == calls[c].inst  same == inst[i].shape = calls[c].shape IN
    /\ \/ /\ calls[c].pc = "probe" /\ cont[i] = "running"
          /\ Reach(c, IF same THEN "alive" ELSE "busy")
          /\ UNCHANGED <<still, past>>
       \/ calls[c].pc = "probe" /\ Rebuild(c)
       \/ /\ calls[c].pc = "alive" /\ Alive(inst[i].shape)
          /\ Reach(c, "switch")
          /\ UNCHANGED <<still, past>>
       \/ calls[c].pc = "alive" /\ ~Alive(inst[i].shape) /\ Rebuild(c)
       \/ /\ calls[c].pc = "switch"
          /\ Reach(c, "answered") \/ Settled(c)
          /\ UNCHANGED <<still, past>>
       \/ calls[c].pc = "busy" /\ Settled(c) /\ UNCHANGED <<still, past>>
       \/ calls[c].pc = "busy" /\ Rebuild(c)
    /\ UNCHANGED <<rec, hub, spent, mountVars>>

\* The discard a call began comes to its end.
Discarded(c) ==
    LET i == calls[c].inst IN
    /\ calls[c].pc = "discard"
    /\ \E gone \in BOOLEAN : DiscardEnd(i, gone) /\ Forgive(gone \/ cont[i] = "absent", i)
    /\ IF calls[c].op = "acquire"
       THEN Reserve(c, Unheld(i))
       ELSE /\ IF calls[c].op = "release" THEN Settled(c) ELSE Reach(c, "rmwa")
            /\ inst' = Unheld(i)
            /\ UNCHANGED <<reg, byArea>>
    /\ UNCHANGED <<exists, deleting, rec, hub, spent>>

-----------------------------------------------------------------------------
(* _create                                                                   *)

CreateDirs(c) ==
    /\ calls[c].pc = "create"
    /\ exists' = exists \union {calls[c].area}
    /\ dirs' = dirs \union {calls[c].inst}
    /\ calls' = [calls EXCEPT ![c].pc = "mount", ![c].todo = calls[c].shape]
    /\ UNCHANGED <<inst, reg, byArea, cont, deleting, discarding, rec, hub, spent, past, mountVars>>

\* RoleMounts.acquire: at most MountSlots workers, all instances together.
Mounting == UNION {calls[c].run : c \in Calls}

MountOne(c, k) ==
    /\ calls[c].pc = "mount" /\ ~calls[c].stop /\ k \in calls[c].todo
    /\ MountPossible(k, Cardinality(Mounting))
    /\ \/ /\ MountFound(k)
          /\ calls' = [calls EXCEPT ![c].todo = @ \ {k}, ![c].taken = @ \union {k}]
       \/ /\ MountBegin(k)
          /\ calls' = [calls EXCEPT ![c].todo = @ \ {k}, ![c].run = @ \union {k}]
    /\ UNCHANGED <<still, rec, hub, spent, past>>

\* One failure stops the others; a stopped mount is awaited, then given back.
MountOver(c, k) ==
    /\ k \in calls[c].run
    /\ \/ /\ ~calls[c].stop /\ MountDone(k)
          /\ calls' = [calls EXCEPT ![c].run = @ \ {k}, ![c].taken = @ \union {k}]
       \/ /\ calls[c].stop /\ MountDoneCancelled(k)
          /\ calls' = [calls EXCEPT ![c].run = @ \ {k}]
       \/ /\ MountFailed(k)
          /\ calls' = [calls EXCEPT ![c].run = @ \ {k}, ![c].stop = TRUE]
    /\ UNCHANGED <<still, rec, hub, spent, past>>

\* Mutant: the counts are given back, the record stays.
RollBackMountsOnly(c) ==
    /\ calls[c].pc = "mount" /\ calls[c].stop /\ calls[c].run = {}
    /\ ReleaseKeys(calls[c].taken)
    /\ Settled(c)
    /\ UNCHANGED <<still, mounted, keyLocks, fsLost, rec, hub, spent, past>>

RollBack(c) ==
    /\ calls[c].pc = "mount" /\ calls[c].stop /\ calls[c].run = {}
    /\ DiscardNow(calls[c].inst, calls[c].taken)
    /\ Settled(c)
    /\ UNCHANGED <<cont, exists, deleting, rec, hub, spent, past>>

Mounted(c) ==
    /\ calls[c].pc = "mount" /\ ~calls[c].stop /\ calls[c].todo = {} /\ calls[c].run = {}
    /\ inst' = [inst EXCEPT ![calls[c].inst].held = TRUE]
    /\ calls' = [calls EXCEPT ![c].pc = "start", ![c].taken = {}]
    /\ UNCHANGED <<reg, byArea, cont, dirs, exists, deleting, discarding, rec, hub, spent, past, mountVars>>

\* The container runs before the Hub hears of it.
Start(c) ==
    /\ calls[c].pc = "start"
    /\ cont' = [cont EXCEPT ![calls[c].inst] = "running"]
    /\ Reach(c, "wait")
    /\ UNCHANGED <<inst, reg, byArea, dirs, exists, deleting, discarding, rec, hub, spent, past, mountVars>>

Started(c) ==
    /\ calls[c].pc = "wait" /\ cont[calls[c].inst] = "running"
    /\ inst' = [inst EXCEPT ![calls[c].inst].info = TRUE, ![calls[c].inst].status = "ready"]
    /\ Reach(c, "answered")
    /\ UNCHANGED <<reg, byArea, cont, dirs, exists, deleting, discarding, rec, hub, spent, past, mountVars>>

\* Any other failure of the creation: the container goes, then the record.
CreateFails(c) ==
    /\ calls[c].pc \in {"create", "start", "wait"}
    /\ DiscardNow(calls[c].inst, {})
    /\ \E gone \in BOOLEAN :
         /\ cont' = [cont EXCEPT ![calls[c].inst] = IF gone THEN "absent" ELSE @]
         /\ Forgive(gone, calls[c].inst)
    /\ Settled(c)
    /\ UNCHANGED <<exists, deleting, rec, hub, spent>>

-----------------------------------------------------------------------------
(* Cancelled calls, quiesce, update and delete.                              *)

\* Only the mounts handle a cancellation; anything later is left as it is.
Cancel(c) ==
    /\ calls[c].op = "acquire"
    /\ \/ /\ calls[c].pc = "mount" /\ ~calls[c].stop
          /\ calls' = [calls EXCEPT ![c].stop = TRUE]
          /\ UNCHANGED <<past, cont>>
       \/ /\ calls[c].pc \in {"create", "start", "wait", "discard"}
          /\ Settled(c)
          /\ Lose(calls[c].inst)
          /\ \/ UNCHANGED cont
             \/ calls[c].pc = "start" /\ cont' = [cont EXCEPT ![calls[c].inst] = "running"]
    /\ discarding' = IF calls[c].pc = "discard" THEN discarding \ {calls[c].inst} ELSE discarding
    /\ UNCHANGED <<inst, reg, byArea, dirs, exists, deleting, rec, hub, spent, mountVars>>

Quiesce(c) ==
    LET i == calls[c].inst IN
    /\ \/ /\ calls[c].pc = "quiesce"
          /\ cont' = [cont EXCEPT ![i] = IF @ = "running" THEN "exited" ELSE @]
          /\ Reach(c, "quiesced")
          /\ UNCHANGED inst
       \/ /\ calls[c].pc = "quiesced"
          /\ inst' = [inst EXCEPT ![i].status = "quiesced"]
          /\ Settled(c)
          /\ UNCHANGED cont
    /\ UNCHANGED <<reg, byArea, dirs, exists, deleting, discarding, rec, hub, spent, past, mountVars>>

\* materialize and write_context create what is missing of the directory.
Update(c) ==
    /\ calls[c].pc = "update"
    /\ dirs' = dirs \union {calls[c].inst}
    /\ Settled(c)
    /\ UNCHANGED <<inst, reg, byArea, cont, exists, deleting, discarding, rec, hub, spent, past, mountVars>>

RemoveFiles(c) ==
    /\ calls[c].pc = "rmwa"
    /\ exists' \in {exists, exists \ {calls[c].area}}
    /\ deleting' = deleting \ {calls[c].area}
    /\ Settled(c)
    /\ UNCHANGED <<inst, reg, byArea, cont, dirs, discarding, rec, hub, spent, past, mountVars>>

CallStep(c) ==
    \/ \E a \in Areas, o \in Owners, s \in Shapes : Acquire(c, a, o, s)
    \/ \E op \in {"release", "quiesce", "update"}, i \in Instances : OnInstance(c, op, i)
    \/ \E op \in {"delete", "force_delete"}, a \in Areas : Delete(c, op, a)
    \/ Lock(c) \/ Reuse(c) \/ Discarded(c) \/ CreateDirs(c)
    \/ \E k \in MountKeys : MountOne(c, k) \/ MountOver(c, k)
    \/ RollBack(c) \/ Mounted(c) \/ Start(c) \/ Started(c) \/ CreateFails(c)
    \/ Cancel(c) \/ Quiesce(c) \/ Update(c) \/ RemoveFiles(c)

-----------------------------------------------------------------------------
(* reconcile_once                                                            *)

RoundGo(pc) == rec' = [rec EXCEPT !.pc = pc]
RoundStill == <<calls, hub, exists, deleting>>

RoundBegin ==
    /\ hub = "up" /\ rec.pc = "idle" /\ spent.rounds < MaxRounds
    /\ spent' = [spent EXCEPT !.rounds = @ + 1]
    /\ rec' = [rec EXCEPT !.pc = IF fsLost THEN "all" ELSE "list",
                          !.todo = IF fsLost THEN reg ELSE {}]
    /\ fsLost' = FALSE
    /\ UNCHANGED <<still, calls, hub, past, mounted, refs, zero, keyLocks>>

Reap(i) == past' = [past EXCEPT !.reaped = @ \union {i}]

\* After a restart of cr-fs: every instance, and the counts at the end.
RoundDiscard(i) ==
    /\ rec.pc = "all" /\ i \in rec.todo
    /\ Reap(i)
    /\ IF inst[i].info
       THEN /\ DiscardBegin(i)
            /\ rec' = [rec EXCEPT !.pc = "alldis", !.todo = @ \ {i}, !.now = i]
            /\ UNCHANGED <<inst, dirs, mountVars>>
       ELSE /\ DiscardNow(i, {})
            /\ rec' = [rec EXCEPT !.todo = @ \ {i}]
    /\ UNCHANGED <<RoundStill, cont, spent>>

RoundReset ==
    /\ rec.pc = "all" /\ rec.todo = {}
    /\ ResetKeys
    /\ past' = [past EXCEPT !.wiped = @ \union {k \in MountKeys : refs[k] > 0}]
    /\ RoundGo("list")
    /\ UNCHANGED <<still, calls, hub, spent, mounted, keyLocks, fsLost>>

\* docker ps; a failure is an empty list.
RoundList ==
    /\ rec.pc = "list"
    /\ \/ rec' = [rec EXCEPT !.pc = "dead", !.seen = {i \in Instances : cont[i] = "running"},
                             !.dead = {i \in Instances : cont[i] = "exited"}]
       \/ rec' = [rec EXCEPT !.pc = "dead", !.seen = {}, !.dead = {}]
    /\ UNCHANGED <<still, calls, hub, spent, past, mountVars>>

RoundDead ==
    /\ rec.pc = "dead"
    /\ cont' = [i \in Instances |-> IF i \in rec.dead THEN "absent" ELSE cont[i]]
    /\ rec' = [rec EXCEPT !.pc = "each", !.todo = Ready]
    /\ UNCHANGED <<inst, reg, byArea, dirs, discarding, RoundStill, spent, past, mountVars>>

\* Missing from the list: discarded.  Listed: discarded when long idle.
RoundEach(i) ==
    /\ rec.pc = "each" /\ i \in rec.todo
    /\ \/ /\ DiscardBegin(i)
          /\ Reap(i)
          /\ rec' = [rec EXCEPT !.pc = "eachdis", !.todo = @ \ {i}, !.now = i]
       \/ /\ i \in rec.seen
          /\ rec' = [rec EXCEPT !.todo = @ \ {i}]
          /\ UNCHANGED <<reg, byArea, discarding, past>>
    /\ UNCHANGED <<inst, cont, dirs, RoundStill, spent, mountVars>>

RoundDiscarded ==
    LET i == rec.now IN
    /\ rec.pc \in {"alldis", "eachdis"}
    /\ \E gone \in BOOLEAN : DiscardEnd(i, gone)
    /\ inst' = Unheld(i)
    /\ rec' = [rec EXCEPT !.pc = IF @ = "alldis" THEN "all" ELSE "each", !.now = None]
    /\ UNCHANGED <<reg, byArea, RoundStill, spent, past>>

\* Running, listed, and neither known nor being created; the young are spared.
Orphaned == {i \in rec.seen : ~(i \in reg /\ (inst[i].info \/ inst[i].status = "starting"))}

RoundOrphans ==
    /\ rec.pc = "each" /\ rec.todo = {}
    /\ \E old \in SUBSET Orphaned :
         cont' = [i \in Instances |-> IF i \in old THEN "absent" ELSE cont[i]]
    /\ rec' = [NoRound EXCEPT !.pc = "sweep", !.keys = Present]
    /\ UNCHANGED <<inst, reg, byArea, dirs, discarding, RoundStill, spent, past, mountVars>>

RoundSweep(k) ==
    /\ rec.pc = "sweep" /\ k \in rec.keys
    /\ SweepJudge(k)
    /\ rec' = [rec EXCEPT !.keys = @ \ {k}, !.pc = IF Overdue(k) THEN "lock" ELSE @,
                          !.now = IF Overdue(k) THEN k ELSE None]
    /\ UNCHANGED <<still, calls, hub, spent, past>>

RoundUnmount ==
    /\ \/ rec.pc = "lock" /\ SweepLock(rec.now)
          /\ RoundGo(IF rec.now \in keyLocks' THEN "unmount" ELSE "sweep")
       \/ rec.pc = "unmount" /\ SweepUnmount(rec.now) /\ RoundGo("sweep")
    /\ UNCHANGED <<still, calls, hub, spent, past>>

RoundEnd ==
    /\ rec.pc = "sweep" /\ rec.keys = {}
    /\ rec' = NoRound
    /\ UNCHANGED <<still, calls, hub, spent, past, mountVars>>

Round ==
    \/ RoundBegin \/ RoundReset \/ RoundList \/ RoundDead \/ RoundDiscarded
    \/ RoundOrphans \/ RoundUnmount \/ RoundEnd
    \/ \E i \in Instances : RoundDiscard(i) \/ RoundEach(i)
    \/ \E k \in MountKeys : RoundSweep(k)

-----------------------------------------------------------------------------
(* The process ends and starts again: startup and _adopt.                    *)

Crash ==
    /\ hub = "up" /\ Mishap
    /\ hub' = "down"
    /\ reg' = {} /\ discarding' = {} /\ deleting' = {}
    /\ byArea' = [a \in Areas |-> None]
    /\ inst' = [i \in Instances |-> [inst[i] EXCEPT !.held = FALSE, !.info = FALSE]]
    /\ calls' = [c \in Calls |-> IF calls[c].pc = "idle" THEN calls[c]
                                 ELSE [NoCall EXCEPT !.pc = "done"]]
    /\ rec' = NoRound
    /\ MountsForgotten
    /\ past' = NoPast
    /\ UNCHANGED <<cont, dirs, exists>>

\* docker ps at startup; what a failed listing misses stays where it is.
Boot ==
    /\ hub = "down"
    /\ hub' = "boot"
    /\ \/ rec' = [NoRound EXCEPT !.seen = {i \in Instances : cont[i] # "absent"}]
          /\ UNCHANGED past
       \/ /\ rec' = NoRound
          /\ past' = [past EXCEPT !.lost = {i \in Instances : cont[i] # "absent"}]
    /\ UNCHANGED <<still, calls, spent, mountVars>>

\* Adopted: running, labelled, mounts alive, reachable, and the area free.
BootAdopt(i) ==
    /\ hub = "boot" /\ i \in rec.seen
    /\ cont[i] = "running" /\ Alive(inst[i].shape) /\ byArea[inst[i].area] = None
    /\ Enter(i, inst[i].area)
    /\ inst' = [inst EXCEPT ![i].status = "ready", ![i].held = TRUE, ![i].info = TRUE]
    /\ RestoreKeys(inst[i].shape)
    /\ rec' = [rec EXCEPT !.seen = @ \ {i}]
    /\ past' = [past EXCEPT !.adopted = @ \union {i},
                            !.stale = IF inst[i].area \in exists THEN @ ELSE @ \union {i}]
    /\ UNCHANGED <<cont, dirs, exists, deleting, discarding, calls, hub, spent,
                   mounted, keyLocks, fsLost>>

BootRemove(i) ==
    /\ hub = "boot" /\ i \in rec.seen
    /\ \E gone \in BOOLEAN :
         /\ cont' = [cont EXCEPT ![i] = IF gone THEN "absent" ELSE @]
         /\ Forgive(gone, i)
    /\ dirs' = dirs \ {i}
    /\ rec' = [rec EXCEPT !.seen = @ \ {i}]
    /\ UNCHANGED <<inst, reg, byArea, exists, deleting, discarding, calls, hub, spent, mountVars>>

\* _sweep_instance_dirs, and requests are served.
Booted ==
    /\ hub = "boot" /\ rec.seen = {}
    /\ hub' = "up"
    /\ dirs' = dirs \intersect reg
    /\ UNCHANGED <<inst, reg, byArea, cont, exists, deleting, discarding, calls, rec,
                   spent, past, mountVars>>

-----------------------------------------------------------------------------
(* What the Hub does not do itself.                                          *)

MountEvent ==
    /\ \/ \E k \in MountKeys : GraceEnds(k) /\ UNCHANGED spent
       \/ /\ Mishap
          /\ FsRestart \/ \E k \in MountKeys : MountDies(k)
    /\ UNCHANGED <<still, calls, rec, hub, past>>

ContainerDies(i) ==
    /\ cont[i] = "running" /\ Mishap
    /\ cont' = [cont EXCEPT ![i] = "exited"]
    /\ UNCHANGED <<inst, reg, byArea, dirs, exists, deleting, discarding, calls, rec, hub,
                   past, mountVars>>

\* The Hub starts with the containers that an earlier process left running
\* (each counts as a mishap), and with the mounts that cr-fs still has.
Init ==
    /\ \E left \in {I \in SUBSET Instances : Cardinality(I) <= MaxMishaps} :
         /\ inst \in [Instances ->
              {NoInst} \union [area : Areas, owner : Owners, shape : Shapes, status : {"ready"},
                              held : {FALSE}, info : {FALSE}]]
         /\ \A i \in Instances : i \in left <=> inst[i] # NoInst
         /\ cont = [i \in Instances |-> IF i \in left THEN "running" ELSE "absent"]
         /\ spent = [mishaps |-> Cardinality(left), rounds |-> 0]
         /\ dirs = left
         /\ exists = {inst[i].area : i \in left}
         /\ mounted = [k \in MountKeys |->
                         IF \E i \in left : k \in inst[i].shape THEN "alive" ELSE "no"]
    /\ refs = [k \in MountKeys |-> 0]
    /\ zero = [k \in MountKeys |-> "unset"]
    /\ keyLocks = {}
    /\ fsLost = FALSE
    /\ reg = {} /\ deleting = {} /\ discarding = {}
    /\ byArea = [a \in Areas |-> None]
    /\ calls = [c \in Calls |-> NoCall]
    /\ rec = NoRound
    /\ hub = "down"
    /\ past = NoPast

Next ==
    \/ \E c \in Calls : CallStep(c)
    \/ Round \/ Crash \/ Boot \/ Booted \/ MountEvent
    \/ \E i \in Instances : BootAdopt(i) \/ BootRemove(i) \/ ContainerDies(i)

Spec == Init /\ [][Next]_vars
=============================================================================
