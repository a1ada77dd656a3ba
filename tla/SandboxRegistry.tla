-------------------------- MODULE SandboxRegistry ---------------------------
(***************************************************************************)
(* The in-memory registry of allocated sandboxes: _by_id and _by_user_role.*)
(* Its methods hold an asyncio lock but never await inside it, so each of  *)
(* them is one atomic step of the event loop.                              *)
(*                                                                         *)
(* A record object outlives its entry in _by_id: a coroutine that looked   *)
(* it up keeps using it. A popped record is therefore "dropped", and keeps *)
(* its container and key.                                                  *)
(***************************************************************************)
EXTENDS Ids

VARIABLES
    records,      \* sandbox id -> its SandboxRecord
    index         \* (user, role) -> the sandbox id of its ready sandbox

registryVars == <<records, index>>

\* recent: last_active_at is later than the start of the reconciler's current
\* round. It stands for every comparison the code makes with that timestamp.
Record == [status : {"unused", "ready", "released", "dropped"},
           container : Containers \union {None},
           key : Keys \union {None},
           recent : BOOLEAN]

RegistryTypeOK ==
    /\ records \in [Sandboxes -> Record]
    /\ index \in [Keys -> Sandboxes \union {None}]
    /\ \A s \in Sandboxes : records[s].status # "unused" =>
           records[s].container \in Containers /\ records[s].key \in Keys

Unused == [status |-> "unused", container |-> None, key |-> None, recent |-> FALSE]

RegistryInit ==
    /\ records = [s \in Sandboxes |-> Unused]
    /\ index = [k \in Keys |-> None]

Registered == {s \in Sandboxes : records[s].status \in {"ready", "released"}}

ListReady == {s \in Sandboxes : records[s].status = "ready"}

TrackedContainerIds == {records[s].container : s \in Registered}

FindActive(k) ==
    IF index[k] \in ListReady THEN index[k] ELSE None

-----------------------------------------------------------------------------
Register(s, c, k) ==
    /\ records[s].status = "unused"
    /\ records' = [records EXCEPT ![s] =
           [status |-> "ready", container |-> c, key |-> k, recent |-> TRUE]]
    /\ index' = [index EXCEPT ![k] = s]

\* The code marks whatever record it finds, a released one included, and drops
\* the pair's index entry without looking at the sandbox it names.
MarkReleased(s) ==
    /\ s \in Registered
    /\ records' = [records EXCEPT ![s].status = "released", ![s].recent = TRUE]
    /\ index' = [index EXCEPT ![records[s].key] = None]

\* index without the entries that point into ss
Unindexed(ss) == [k \in Keys |-> IF index[k] \in ss THEN None ELSE index[k]]

Dropped(ss) ==
    [s \in Sandboxes |->
        IF s \in ss \intersect Registered
        THEN [records[s] EXCEPT !.status = "dropped"] ELSE records[s]]

\* Mutant of Evict: the pair's index entry stays.
EvictKeepingIndex(s) == records' = Dropped({s}) /\ UNCHANGED index

\* evict without if_last_active_at; nothing happens when s is not registered.
Evict(s) ==
    /\ records' = Dropped({s})
    /\ index' = Unindexed({s})

\* Mutant of EvictIsCurrent: the timestamp is not compared.
EvictIgnoringActivity(s) == s \in Registered

\* evict(s, if_last_active_at = the time the reconciler observed): the reconciler
\* only observes timestamps older than its round.
EvictIsCurrent(s) == s \in Registered /\ ~records[s].recent

Touch(s) ==
    /\ records' = [records EXCEPT ![s].recent = @ \/ s \in Registered]
    /\ UNCHANGED index

\* A reconciler round reads the clock: every timestamp so far is in its past.
NewRound ==
    /\ records' = [s \in Sandboxes |-> [records[s] EXCEPT !.recent = FALSE]]
    /\ UNCHANGED index

PruneReleased(ss) ==
    /\ \A s \in ss : records[s].status = "released"
    /\ records' = Dropped(ss)
    /\ UNCHANGED index

\* drain on shutdown, and the loss of the process's memory in a crash.
RegistryCleared ==
    /\ records' = Dropped(Sandboxes)
    /\ index' = [k \in Keys |-> None]

-----------------------------------------------------------------------------
(* The (user, role) index only ever names a registered sandbox that is ready *)
(* and belongs to that pair: what the comment on _by_user_role promises and  *)
(* every register, release, evict, prune and drain has to preserve together. *)
IndexSound ==
    \A k \in Keys : index[k] # None =>
        /\ index[k] \in ListReady
        /\ records[index[k]].key = k
=============================================================================
