--------------------------- MODULE RegistryProofs ---------------------------
(***************************************************************************)
(* What every method of the registry preserves, whatever the Hub does       *)
(* between two of them.                                                     *)
(***************************************************************************)
EXTENDS SandboxRegistry, TLAPS

\* Sandboxes that were registered at some time: their container is known.
Issued == {s \in Sandboxes : records[s].status # "unused"}

\* Several evictions in one step.
EvictAll(ss) ==
    /\ records' = Dropped(ss)
    /\ index' = Unindexed(ss)

RegistryNext ==
    \/ \E s \in Sandboxes, c \in Containers, k \in Keys : Register(s, c, k)
    \/ \E s \in Sandboxes : MarkReleased(s) \/ Touch(s)
    \/ \E ss \in SUBSET Sandboxes : EvictAll(ss) \/ PruneReleased(ss)
    \/ NewRound
    \/ RegistryCleared

\* The methods that neither register nor release.
RegistryTakes ==
    \/ \E s \in Sandboxes : Touch(s)
    \/ \E ss \in SUBSET Sandboxes : EvictAll(ss) \/ PruneReleased(ss)
    \/ NewRound
    \/ RegistryCleared

\* What a step of the registry leaves alone: a sandbox keeps its container and
\* key, and its life only goes forward.
RecordsLast ==
    \A s \in Issued :
        /\ s \in Issued'
        /\ records'[s].container = records[s].container
        /\ records'[s].key = records[s].key
        /\ s \notin Registered => s \notin Registered'
        /\ s \in ListReady' => s \in ListReady

-----------------------------------------------------------------------------
(* A registry method keeps the record types, and never forgets or changes    *)
(* which container and pair a sandbox was registered for.                    *)
LEMMA RegistryStepTyped ==
    ASSUME RegistryTypeOK, RegistryNext
    PROVE  RegistryTypeOK' /\ RecordsLast
<1> USE DEF RegistryTypeOK, RecordsLast, Issued, Record, ListReady, Registered
<1>1. ASSUME NEW s \in Sandboxes, NEW c \in Containers, NEW k \in Keys, Register(s, c, k)
      PROVE  RegistryTypeOK' /\ RecordsLast
  BY <1>1 DEF Register
<1>2. ASSUME NEW s \in Sandboxes, MarkReleased(s)
      PROVE  RegistryTypeOK' /\ RecordsLast
  <2>1. records' \in [Sandboxes -> Record] /\ index' \in [Keys -> Sandboxes \union {None}]
    <3> DEFINE record == [records[s] EXCEPT !.status = "released", !.recent = TRUE]
    <3>1. record \in Record
      OBVIOUS
    <3>2. records' = [records EXCEPT ![s] = record]
      BY <1>2 DEF MarkReleased
    <3>3. index' \in [Keys -> Sandboxes \union {None}]
      BY <1>2 DEF MarkReleased
    <3> QED
      BY <3>1, <3>2, <3>3
  <2>2. RecordsLast
    BY <1>2 DEF MarkReleased
  <2>3. \A t \in Sandboxes :
            /\ records'[t].status # "unused" => records[t].status # "unused"
            /\ records'[t].container = records[t].container /\ records'[t].key = records[t].key
    BY <1>2 DEF MarkReleased
  <2> QED
    BY <2>1, <2>2, <2>3
<1>3. ASSUME NEW s \in Sandboxes, Touch(s)
      PROVE  RegistryTypeOK' /\ RecordsLast
  <2>1. records' \in [Sandboxes -> Record] /\ index' \in [Keys -> Sandboxes \union {None}]
    <3> DEFINE record == [records[s] EXCEPT !.recent = (@ \/ s \in Registered)]
    <3>1. record \in Record
      OBVIOUS
    <3>2. records' = [records EXCEPT ![s] = record]
      BY <1>3 DEF Touch
    <3>3. index' \in [Keys -> Sandboxes \union {None}]
      BY <1>3 DEF Touch
    <3> QED
      BY <3>1, <3>2, <3>3
  <2>2. RecordsLast
    BY <1>3 DEF Touch
  <2>3. \A t \in Sandboxes :
            /\ records'[t].status # "unused" => records[t].status # "unused"
            /\ records'[t].container = records[t].container /\ records'[t].key = records[t].key
    BY <1>3 DEF Touch
  <2> QED
    BY <2>1, <2>2, <2>3
<1>4. ASSUME NEW ss \in SUBSET Sandboxes, EvictAll(ss)
      PROVE  RegistryTypeOK' /\ RecordsLast
  BY <1>4 DEF EvictAll, Dropped, Unindexed
<1>5. ASSUME NEW ss \in SUBSET Sandboxes, PruneReleased(ss)
      PROVE  RegistryTypeOK' /\ RecordsLast
  BY <1>5 DEF PruneReleased, Dropped
<1>6. ASSUME NewRound PROVE RegistryTypeOK' /\ RecordsLast
  <2>1. records' \in [Sandboxes -> Record] /\ UNCHANGED index
    BY <1>6 DEF NewRound
  <2>2. \A t \in Sandboxes :
            /\ records'[t].status = records[t].status
            /\ records'[t].container = records[t].container /\ records'[t].key = records[t].key
    BY <1>6 DEF NewRound
  <2> QED
    BY <2>1, <2>2
<1>7. ASSUME RegistryCleared PROVE RegistryTypeOK' /\ RecordsLast
  BY <1>7 DEF RegistryCleared, Dropped
<1> QED
  BY <1>1, <1>2, <1>3, <1>4, <1>5, <1>6, <1>7 DEF RegistryNext

(* A registry method keeps the (user, role) index sound.                     *)
LEMMA RegistryStepIndexed ==
    ASSUME RegistryTypeOK, IndexSound, RegistryNext
    PROVE  IndexSound'
<1> USE DEF RegistryTypeOK, IndexSound, Record, ListReady, Registered
<1>1. ASSUME NEW s \in Sandboxes, NEW c \in Containers, NEW k \in Keys, Register(s, c, k)
      PROVE  IndexSound'
  BY <1>1 DEF Register
<1>2. ASSUME NEW s \in Sandboxes, MarkReleased(s) PROVE IndexSound'
  BY <1>2 DEF MarkReleased
<1>3. ASSUME NEW s \in Sandboxes, Touch(s) PROVE IndexSound'
  BY <1>3 DEF Touch
<1>4. ASSUME NEW ss \in SUBSET Sandboxes, EvictAll(ss) PROVE IndexSound'
  BY <1>4 DEF EvictAll, Dropped, Unindexed
<1>5. ASSUME NEW ss \in SUBSET Sandboxes, PruneReleased(ss) PROVE IndexSound'
  BY <1>5 DEF PruneReleased, Dropped
<1>6. ASSUME NewRound PROVE IndexSound'
  BY <1>6 DEF NewRound
<1>7. ASSUME RegistryCleared PROVE IndexSound'
  BY <1>7 DEF RegistryCleared, Dropped
<1> QED
  BY <1>1, <1>2, <1>3, <1>4, <1>5, <1>6, <1>7 DEF RegistryNext
=============================================================================
