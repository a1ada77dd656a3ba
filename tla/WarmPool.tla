------------------------------ MODULE WarmPool ------------------------------
(***************************************************************************)
(* The pool of idle containers that wait for a tenant, the background tasks*)
(* that clean a released container before it re-enters the pool, and the   *)
(* refill tasks that create new ones.                                      *)
(*                                                                         *)
(* The pool is a bag: the lists of all sandbox types together, whose order *)
(* no property depends on. A list can hold one container twice.            *)
(***************************************************************************)
EXTENDS Ids, Naturals, FiniteSets, Functions

CONSTANT
    PoolTarget    \* the size maintain_loop refills the pool to

ASSUME PoolAssumption == PoolTarget \in Nat

VARIABLES
    pool,         \* container -> how often it is in a pool list
    cleaning,     \* container -> how many release() tasks are cleaning it
    warming,      \* containers that refill tasks are creating
    paused        \* refill is suspended by a drain

poolVars == <<pool, cleaning, warming, paused>>

PoolTypeOK ==
    /\ pool \in [Containers -> Nat]
    /\ cleaning \in [Containers -> Nat]
    /\ warming \subseteq Containers
    /\ paused \in BOOLEAN

PoolInit ==
    /\ pool = [c \in Containers |-> 0]
    /\ cleaning = [c \in Containers |-> 0]
    /\ warming = {}
    /\ paused = FALSE

PoolContainerIds == {c \in Containers : pool[c] > 0}

-----------------------------------------------------------------------------
\* Mutants of PoolPop: it does not look whether there is an entry; it leaves
\* the entry in its list.
PoolPopUnguarded(c) ==
    /\ pool' = [pool EXCEPT ![c] = @ - 1]
    /\ UNCHANGED <<cleaning, warming, paused>>
PoolPeek(c) == pool[c] > 0 /\ UNCHANGED poolVars

\* acquire: pop an entry.
PoolPop(c) ==
    /\ pool[c] > 0
    /\ pool' = [pool EXCEPT ![c] = @ - 1]
    /\ UNCHANGED <<cleaning, warming, paused>>

\* restore: adopt a container found at start-up.
PoolRestore(c) ==
    /\ pool' = [pool EXCEPT ![c] = @ + 1]
    /\ UNCHANGED <<cleaning, warming, paused>>

\* remove_by_id for each of cs: the first entry with that id, if there is one.
PoolRemoveById(cs) ==
    /\ pool' = [c \in Containers |-> IF c \in cs /\ pool[c] > 0 THEN pool[c] - 1 ELSE pool[c]]
    /\ UNCHANGED <<cleaning, warming, paused>>

\* drain: empty the lists; the caller removes what was in them.
PoolCleared ==
    /\ pool' = [c \in Containers |-> 0]
    /\ UNCHANGED <<cleaning, warming>>

\* release of a plain container: a task starts to reset it.
CleanStart(c) ==
    /\ cleaning' = [cleaning EXCEPT ![c] = @ + 1]
    /\ UNCHANGED <<pool, warming, paused>>

\* release, the reset succeeded: the task appends the container and ends.
CleanAppend(c) ==
    /\ cleaning[c] > 0
    /\ cleaning' = [cleaning EXCEPT ![c] = @ - 1]
    /\ pool' = [pool EXCEPT ![c] = @ + 1]
    /\ UNCHANGED <<warming, paused>>

\* release, the reset or the switch back to the shared network failed.
CleanGiveUp(c) ==
    /\ cleaning[c] > 0
    /\ cleaning' = [cleaning EXCEPT ![c] = @ - 1]
    /\ UNCHANGED <<pool, warming, paused>>

\* The refill flag is set while creation tasks are outstanding.
Refilling == warming # {}

\* The number of entries in the lists.
PoolLength == FoldFunction(LAMBDA m, n : m + n, 0, pool)

\* _refill: one creation task per missing entry.
RefillStart(cs) ==
    /\ ~paused
    /\ ~Refilling
    /\ cs # {}
    /\ PoolLength + Cardinality(cs) <= PoolTarget
    /\ warming' = cs
    /\ UNCHANGED <<pool, cleaning, paused>>

\* _create_warm: the container is healthy and joins the list. Nobody looks at
\* paused again.
WarmAppend(c) ==
    /\ c \in warming
    /\ warming' = warming \ {c}
    /\ pool' = [pool EXCEPT ![c] = @ + 1]
    /\ UNCHANGED <<cleaning, paused>>

WarmGiveUp(c) ==
    /\ c \in warming
    /\ warming' = warming \ {c}
    /\ UNCHANGED <<pool, cleaning, paused>>

\* The process's memory is lost.
PoolLost ==
    /\ pool' = [c \in Containers |-> 0]
    /\ cleaning' = [c \in Containers |-> 0]
    /\ warming' = {}
    /\ paused' = FALSE
=============================================================================
