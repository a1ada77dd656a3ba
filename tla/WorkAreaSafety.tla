--------------------------- MODULE WorkAreaSafety ---------------------------
(* What the v2 instance service promises.  The reconciler discards without   *)
(* the area's lock (reaped), and a cancelled call or a failed docker rm may  *)
(* leave things behind (lost); the properties say what holds besides.        *)
EXTENDS WorkAreas

TypeOK ==
    /\ MountsTypeOK
    /\ inst \in [Instances ->
         [area : Areas \union {None}, owner : Owners \union {None}, shape : Shapes \union {{}},
          status : {"none", "starting", "ready", "quiesced"}, held : BOOLEAN, info : BOOLEAN]]
    /\ reg \subseteq Instances /\ dirs \subseteq Instances /\ discarding \subseteq Instances
    /\ exists \subseteq Areas /\ deleting \subseteq Areas
    /\ byArea \in [Areas -> Instances \union {None}]
    /\ cont \in [Instances -> {"absent", "running", "exited"}]
    /\ \A c \in Calls :
         /\ calls[c].area \in Areas \union {None} /\ calls[c].inst \in Instances \union {None}
         /\ calls[c].run \union calls[c].todo \union calls[c].taken \subseteq MountKeys
    /\ hub \in {"up", "down", "boot"}

\* The limits per role and user hold for what was reserved since the process
\* started, however many acquires are creating at once; adoption may exceed
\* them (wa_registry.py:53).
LimitsHold ==
    \A o \in Owners :
        /\ MaxPerRole > 0 => Cardinality(SameRole(o) \ past.adopted) <= MaxPerRole
        /\ MaxPerUser > 0 => Cardinality(SameUser(o) \ past.adopted) <= MaxPerUser

\* Every acquire finds the one registered instance of its area: index and
\* records name each other.
RegistrySound ==
    \A a \in Areas, i \in Instances : byArea[a] = i <=> i \in reg /\ inst[i].area = a

\* No place of a limit is taken for good: an instance that is still starting
\* has a call that holds its area's lock and will decide on it.
PlacesAreOwned ==
    \A i \in reg \ past.lost :
        inst[i].status = "starting" => \E c \in Calls : calls[c].inst = i /\ Holds(c)

\* Two containers never write to one work area, unless one of them is left
\* from a discard by the reconciler or from an unfinished clean-up.
SoleTenant ==
    hub = "up" =>
        \A i, j \in {x \in Instances : cont[x] = "running"} \ (past.reaped \union past.lost) :
            inst[i].area = inst[j].area => i = j

Holders(k) ==
    Cardinality({i \in Instances : inst[i].held /\ k \in inst[i].shape})
      + Cardinality({c \in Calls : k \in calls[c].taken})

\* Role directories are counted exactly: one for every instance that holds
\* the directory and every acquire that has just got it (fs_sidecar.py:315),
\* apart from those a reset has wiped under a newcomer.
RefsMatchHolders == \A k \in MountKeys \ past.wiped : refs[k] = Holders(k)

\* The sweep never takes a directory from under an instance.
NoUnmountUnderInstance ==
    rec.pc = "unmount" => rec.now \in past.wiped \/ Holders(rec.now) = 0

\* The directories of an instance go with it.
DirsAreOwned ==
    hub = "up" => \A i \in dirs \ (past.reaped \union past.lost) : i \in reg \union discarding

\* An area's files are there for as long as an instance works on them: a
\* delete that arrives between an acquire's steps does not remove them.  A
\* container left behind may be adopted after its area was deleted.
FilesUnderInstance ==
    \A i \in reg \ past.stale : inst[i].status = "ready" => inst[i].area \in exists

\* A successful acquire names an instance that is registered and ready; only
\* the reconciler can have taken it away meanwhile.
AnswerStands ==
    [][\A c \in Calls :
         calls[c].pc # "answered" /\ calls'[c].pc = "answered" =>
            LET i == calls[c].inst IN (i \in reg' /\ inst'[i].status = "ready") \/ i \in past'.reaped]_vars
=============================================================================
