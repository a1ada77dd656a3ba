----------------------------- MODULE RoleMounts -----------------------------
(* The role directories that v2 instances share (manager/fs_sidecar.py):     *)
(* rclone mounts inside the cr-fs container, counted per key by the Hub and  *)
(* unmounted when nobody has used them for a grace period.                   *)
EXTENDS Integers, FiniteSets

CONSTANTS
    MountKeys,    \* keys of role directories
    MountSlots    \* mounts that may run at once (_ROLE_MOUNT_CONCURRENCY)

ASSUME MountsAssumption == MountSlots \in Nat \ {0}

VARIABLES
    mounted,      \* key -> what cr-fs has at /srv/mnt/<key>
    refs,         \* RoleMounts._refs; 0 stands for an absent entry
    zero,         \* RoleMounts._zero_since: unset, within the grace or past it
    keyLocks,     \* keys whose asyncio.Lock is held
    fsLost        \* cr-fs started anew and FsSidecar.ensure has not said so yet

mountVars == <<mounted, refs, zero, keyLocks, fsLost>>

MountsTypeOK ==
    /\ mounted \in [MountKeys -> {"no", "alive", "dead"}]
    /\ refs \in [MountKeys -> Nat]
    /\ zero \in [MountKeys -> {"unset", "young", "old"}]
    /\ keyLocks \subseteq MountKeys
    /\ fsLost \in BOOLEAN

-----------------------------------------------------------------------------
(* What acquires and discards do.                                            *)

Alive(K) == \A k \in K : mounted[k] = "alive"

\* _acquire_one enters its two locks and asks cr-fs.
MountPossible(k, running) == k \notin keyLocks /\ running < MountSlots

MountBegin(k) ==
    /\ mounted[k] # "alive"
    /\ keyLocks' = keyLocks \union {k}
    /\ UNCHANGED <<mounted, refs, zero, fsLost>>

\* The count goes up only once the directory is there.
Count(k) ==
    /\ refs' = [refs EXCEPT ![k] = @ + 1]
    /\ zero' = [zero EXCEPT ![k] = "unset"]

MountFound(k) ==
    /\ mounted[k] = "alive"
    /\ Count(k)
    /\ UNCHANGED <<mounted, keyLocks, fsLost>>

MountDone(k) ==
    /\ mounted' = [mounted EXCEPT ![k] = "alive"]
    /\ keyLocks' = keyLocks \ {k}
    /\ Count(k)
    /\ UNCHANGED fsLost

\* A mount that was not ready in time may still appear, counted by nobody.
MountFailed(k) ==
    /\ keyLocks' = keyLocks \ {k}
    /\ \E m \in {"no", "alive"} : mounted' = [mounted EXCEPT ![k] = m]
    /\ UNCHANGED <<refs, zero, fsLost>>

\* Mutant: the count of a cancelled mount is kept.
MountDoneKept(k) == MountDone(k)

\* A mount whose acquire was cancelled still runs to its end, and is then
\* counted and released in one go.
MountDoneCancelled(k) ==
    /\ mounted' = [mounted EXCEPT ![k] = "alive"]
    /\ keyLocks' = keyLocks \ {k}
    /\ zero' = [zero EXCEPT ![k] = IF refs[k] = 0 THEN "young" ELSE "unset"]
    /\ UNCHANGED <<refs, fsLost>>

\* Mutant: a count that a reset has taken is taken once more.
ReleaseUnfloored(K) ==
    /\ refs' = [k \in MountKeys |-> IF k \in K THEN refs[k] - 1 ELSE refs[k]]
    /\ zero' = [k \in MountKeys |-> IF k \in K /\ refs[k] <= 1 THEN "young" ELSE zero[k]]

\* release: a count that is already gone only starts the grace period again.
ReleaseKeys(K) ==
    /\ refs' = [k \in MountKeys |-> IF k \in K /\ refs[k] > 0 THEN refs[k] - 1 ELSE refs[k]]
    /\ zero' = [k \in MountKeys |-> IF k \in K /\ refs[k] <= 1 THEN "young" ELSE zero[k]]

RestoreKeys(K) ==
    /\ refs' = [k \in MountKeys |-> IF k \in K THEN refs[k] + 1 ELSE refs[k]]
    /\ zero' = [k \in MountKeys |-> IF k \in K THEN "unset" ELSE zero[k]]

ResetKeys ==
    /\ refs' = [k \in MountKeys |-> 0]
    /\ zero' = [k \in MountKeys |-> "unset"]

-----------------------------------------------------------------------------
(* sweep: judged before the key's lock, checked again under it.              *)

Present == {k \in MountKeys : mounted[k] # "no"}

SweepJudge(k) ==
    /\ zero' = [zero EXCEPT ![k] = IF refs[k] = 0 /\ @ = "unset" THEN "young" ELSE @]
    /\ UNCHANGED <<mounted, refs, keyLocks, fsLost>>

Overdue(k) == refs[k] = 0 /\ zero[k] = "old"

\* Mutant: judged before the lock only.
SweepLockUnchecked(k) ==
    /\ k \notin keyLocks
    /\ keyLocks' = keyLocks \union {k}
    /\ UNCHANGED <<mounted, refs, zero, fsLost>>

SweepLock(k) ==
    /\ k \notin keyLocks
    /\ keyLocks' = IF refs[k] = 0 THEN keyLocks \union {k} ELSE keyLocks
    /\ UNCHANGED <<mounted, refs, zero, fsLost>>

SweepUnmount(k) ==
    /\ mounted' = [mounted EXCEPT ![k] = "no"]
    /\ zero' = [zero EXCEPT ![k] = "unset"]
    /\ keyLocks' = keyLocks \ {k}
    /\ UNCHANGED <<refs, fsLost>>

-----------------------------------------------------------------------------
(* What happens to cr-fs and to time.                                        *)

GraceEnds(k) ==
    /\ zero[k] = "young"
    /\ zero' = [zero EXCEPT ![k] = "old"]
    /\ UNCHANGED <<mounted, refs, keyLocks, fsLost>>

MountDies(k) ==
    /\ mounted[k] = "alive"
    /\ mounted' = [mounted EXCEPT ![k] = "dead"]
    /\ UNCHANGED <<refs, zero, keyLocks, fsLost>>

FsRestart ==
    /\ mounted' = [k \in MountKeys |-> "no"]
    /\ fsLost' = TRUE
    /\ UNCHANGED <<refs, zero, keyLocks>>

\* A restarted Hub counts from nothing; ensure has no generation to compare.
MountsForgotten ==
    /\ ResetKeys
    /\ keyLocks' = {}
    /\ fsLost' = FALSE
    /\ UNCHANGED mounted
=============================================================================
