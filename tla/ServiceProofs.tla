---------------------------- MODULE ServiceProofs ----------------------------
(***************************************************************************)
(* Theorems about what serves an instance: the isolation of its network,    *)
(* its terminal jobs, its long-lived processes.  They share no state, so    *)
(* that each part has theorems of its own.                                  *)
(***************************************************************************)
EXTENDS NetGuard, TerminalJobs, EngineProcs, FiniteSetTheorems, SequenceTheorems,
        TLAPS

-----------------------------------------------------------------------------
\* The self-test of the isolation (NetGuard).

\* What may be open nevertheless: without a forward nobody tests the gateway.
Tolerated == IF Forwards THEN {} ELSE {"gateway"}
Tight == \A b \in Bridges : Open(b) \subseteq Tolerated

\* As long as nothing is undone, what a test has not found open stays closed:
\* bridge by bridge while it probes, as a whole when it ends, and then for as
\* long as its result stands.
GuardTyped ==
    /\ test \in [pc : {"idle", "verify", "probe", "end"}, todo : SUBSET Bridges,
                  rows : SUBSET (Bridges \X ProbeKinds),
                  failing : SUBSET ({"fs_sidecar", "netguard_rules"} \union ProbeKinds)]
    /\ doubt \in [test : BOOLEAN, result : BOOLEAN]

GuardInv ==
    /\ GuardTyped
    /\ ~doubt.test /\ test.pc = "probe" =>
         \A b \in Bridges \ test.todo : \A k \in Open(b) : <<b, k>> \in test.rows
    /\ ~doubt.test /\ test.pc = "end" /\ test.failing = {} => Tight
    /\ ~doubt.result /\ result = {} => Tight

(* The reconcile round opens nothing.                                        *)
LEMMA RoundOpensNothing ==
    ASSUME Round, NEW b \in Bridges
    PROVE  Open(b)' \subseteq Open(b)
<1>1. CASE RoundBegin \/ RoundFails
  BY <1>1 DEF RoundBegin, RoundFails, kernel, machine, Open
<1>2. CASE RoundGateway
  BY <1>2 DEF RoundGateway, kernel, Open
<1>3. CASE RoundRestore
  BY <1>3 DEF RoundRestore, Restored, machine, Open
<1>4. CASE RoundHook
  BY <1>4 DEF RoundHook, Chains, machine, Open
<1> QED
  BY <1>1, <1>2, <1>3, <1>4 DEF Round

(* A self-test that finds nothing has found every bridge closed.             *)
LEMMA NothingFoundIsTight ==
    ASSUME Summarized(test.rows) = {},
           \A b \in Bridges : \A k \in Open(b) : <<b, k>> \in test.rows
    PROVE  Tight
<1> SUFFICES ASSUME NEW b \in Bridges, NEW k \in Open(b)
             PROVE  k \in Tolerated
  BY DEF Tight
<1>1. k \in ProbeKinds
  BY DEF Open, ProbeKinds
<1> QED
  BY <1>1 DEF Summarized, Tolerated

(* The self-test keeps its types.                                            *)
LEMMA SelfTestTyped ==
    ASSUME GuardTyped, SelfTest
    PROVE  GuardTyped'
<1>1. \A b \in Bridges : Open(b) \subseteq ProbeKinds
  BY DEF Open, ProbeKinds
<1>2. Summarized(test.rows) \subseteq ProbeKinds
  BY DEF Summarized
<1> DEFINE Causes == {"fs_sidecar", "netguard_rules"} \union ProbeKinds
<1>3. CASE TestBegin \/ TestEnd
  <2>1. doubt' \in [test : BOOLEAN, result : BOOLEAN]
    BY <1>3 DEF TestBegin, TestEnd, GuardTyped
  <2>2. \/ test' = NoTest
        \/ test' = [NoTest EXCEPT !.pc = "verify"]
        \/ test' = [NoTest EXCEPT !.pc = "end", !.failing = Causes]
    BY <1>3 DEF TestBegin, TestEnd
  <2> HIDE DEF Causes
  <2>3. test' \in [pc : {"idle", "verify", "probe", "end"}, todo : SUBSET Bridges,
                  rows : SUBSET (Bridges \X ProbeKinds), failing : SUBSET Causes]
    <3>1. NoTest \in [pc : {"idle", "verify", "probe", "end"}, todo : SUBSET Bridges,
                     rows : SUBSET (Bridges \X ProbeKinds), failing : SUBSET Causes]
      BY DEF NoTest
    <3> QED
      BY <2>2, <3>1
  <2> QED
    BY <2>1, <2>3 DEF GuardTyped, Causes
<1>4. CASE TestVerify \/ TestRaises \/ TestSummarize
  <2>1. UNCHANGED doubt
    BY <1>4 DEF TestVerify, TestRaises, TestSummarize
  <2>2. \/ \E F \in SUBSET Causes : test' = [test EXCEPT !.pc = "probe", !.todo = Bridges, !.failing = F]
        \/ \E F \in SUBSET Causes : test' = [test EXCEPT !.pc = "end", !.todo = {}, !.failing = F]
        \/ \E F \in SUBSET Causes : test' = [test EXCEPT !.pc = "end", !.failing = F]
    <3>1. test.failing \in SUBSET Causes
      BY DEF GuardTyped
    <3>2. CASE TestVerify
      BY <3>1, <3>2 DEF TestVerify
    <3>3. CASE TestRaises
      BY <3>1, <3>3 DEF TestRaises
    <3>4. CASE TestSummarize
      BY <1>2, <3>1, <3>4 DEF TestSummarize
    <3> QED
      BY <1>4, <3>2, <3>3, <3>4
  <2> HIDE DEF Causes
  <2>3. test' \in [pc : {"idle", "verify", "probe", "end"}, todo : SUBSET Bridges,
                  rows : SUBSET (Bridges \X ProbeKinds), failing : SUBSET Causes]
    BY <2>2 DEF GuardTyped, Causes
  <2> QED
    BY <2>1, <2>3 DEF GuardTyped, Causes
<1>5. ASSUME NEW b \in Bridges, TestProbe(b) PROVE GuardTyped'
  <2>1. {<<b, k>> : k \in Open(b)} \subseteq Bridges \X ProbeKinds
    BY <1>1
  <2> QED
    BY <1>5, <2>1 DEF TestProbe, GuardTyped
<1> QED
  BY <1>3, <1>4, <1>5 DEF SelfTest

(* The self-test keeps the invariant, step by step.                          *)
LEMMA SelfTestSound ==
    ASSUME GuardInv, SelfTest
    PROVE  GuardInv'
<1> USE DEF GuardTyped
<1>t. GuardTyped'
  BY SelfTestTyped DEF GuardInv
<1>0. \A b \in Bridges : Open(b)' = Open(b)
  BY DEF SelfTest, TestBegin, TestVerify, TestProbe, TestSummarize, TestRaises, TestEnd,
     kernel, machine, Open
<1>1. Tight => Tight'
  BY <1>0 DEF Tight, Tolerated
<1>2. CASE TestBegin
  <2>1. UNCHANGED result /\ doubt'.result = doubt.result
    BY <1>2 DEF TestBegin, GuardInv
  <2>2. test'.pc = "verify" \/ (test'.pc = "end" /\ test'.failing # {})
    BY <1>2 DEF TestBegin, NoTest
  <2> QED
    BY <1>t, <1>1, <2>1, <2>2 DEF GuardInv
<1>3. CASE TestVerify
  <2>1. UNCHANGED <<result, doubt>>
    BY <1>3 DEF TestVerify, GuardInv
  <2>2. test'.pc = "probe" /\ test'.todo = Bridges
    BY <1>3 DEF TestVerify, GuardInv
  <2> QED
    BY <1>t, <1>1, <2>1, <2>2 DEF GuardInv
<1>4. ASSUME NEW b \in Bridges, TestProbe(b) PROVE GuardInv'
  <2>1. UNCHANGED <<result, doubt>> /\ test.pc = "probe" /\ test'.pc = "probe"
    BY <1>4 DEF TestProbe, GuardInv
  <2>2. /\ test'.todo = test.todo \ {b}
        /\ test'.rows = test.rows \union {<<b, k>> : k \in Open(b)}
    BY <1>4 DEF TestProbe, GuardInv
  <2> QED
    BY <1>t, <1>0, <1>1, <2>1, <2>2 DEF GuardInv
<1>5. CASE TestSummarize
  <2>1. UNCHANGED <<result, doubt>> /\ test'.pc = "end"
    BY <1>5 DEF TestSummarize, GuardInv
  <2>2. test'.failing = {} => Summarized(test.rows) = {}
    BY <1>5 DEF TestSummarize, GuardInv
  <2> QED
    BY <1>t, <1>1, <1>5, <2>1, <2>2, NothingFoundIsTight DEF GuardInv, TestSummarize
<1>6. CASE TestRaises
  <2>1. UNCHANGED <<result, doubt>> /\ test'.pc = "end" /\ test'.failing # {}
    BY <1>6 DEF TestRaises, ProbeKinds, GuardInv
  <2> QED
    BY <1>t, <1>1, <2>1 DEF GuardInv
<1>7. CASE TestEnd
  <2>1. /\ test.pc = "end" /\ test'.pc = "idle" /\ result' = test.failing
        /\ doubt'.test = doubt.test /\ doubt'.result = doubt.test
    BY <1>7 DEF TestEnd, NoTest, GuardInv
  <2> QED
    BY <1>t, <1>1, <2>1 DEF GuardInv
<1> QED
  BY <1>2, <1>3, <1>4, <1>5, <1>6, <1>7 DEF SelfTest

(* The invariant is inductive: trouble raises both doubts, a round only      *)
(* closes.                                                                   *)
LEMMA GuardStep ==
    ASSUME GuardInv, [GuardNext]_guardVars
    PROVE  GuardInv'
<1>1. CASE Round
  <2>1. UNCHANGED <<test, result, doubt>>
    BY <1>1 DEF Round, RoundBegin, RoundGateway, RoundRestore, RoundHook, RoundFails
  <2>2. Tight => Tight'
    BY <1>1, RoundOpensNothing DEF Tight, Tolerated
  <2> QED
    BY <1>1, <2>1, <2>2, RoundOpensNothing DEF GuardInv, GuardTyped
<1>2. CASE JumpLost \/ RulesLost \/ GatewayLost \/ FsLost \/ \E b \in Bridges : Remade(b)
  <2>1. doubt'.test /\ doubt'.result
    BY <1>2 DEF JumpLost, RulesLost, GatewayLost, FsLost, Remade, Trouble
  <2>2. test' = test /\ doubt' = [test |-> TRUE, result |-> TRUE]
    BY <1>2 DEF JumpLost, RulesLost, GatewayLost, FsLost, Remade, Trouble
  <2>3. GuardTyped'
    BY <2>2 DEF GuardInv, GuardTyped
  <2> QED
    BY <2>1, <2>3 DEF GuardInv
<1>3. CASE UNCHANGED guardVars
  BY <1>3 DEF guardVars, GuardInv, GuardTyped, Tight, Open, Tolerated
<1> QED
  BY <1>1, <1>2, <1>3, SelfTestSound DEF GuardNext

(* While new instances are admitted, every bridge is closed to peers, host   *)
(* and storage, unless something was undone after the test began on whose    *)
(* result they are admitted: whatever else fails, and in any order of test   *)
(* and reconcile round.                                                      *)
THEOREM AdmissionMeansIsolation == GuardSpec => []AdmittedMeansIsolated
<1>1. GuardInit => GuardInv
  BY DEF GuardInit, GuardInv, GuardTyped, NoTest, Pending
<1>2. GuardInv /\ [GuardNext]_guardVars => GuardInv'
  BY GuardStep
<1>3. GuardInv => AdmittedMeansIsolated
  BY DEF GuardInv, AdmittedMeansIsolated, Tight, Tolerated
<1> QED
  BY <1>1, <1>2, <1>3, PTL DEF GuardSpec

-----------------------------------------------------------------------------
\* The terminal jobs (TerminalJobs).

TermTyped ==
    /\ status \in [Jobs -> {"none", "starting", "running", "exited", "killed", "cut"}]
    /\ pane \in [Jobs -> {"none", "asked", "live", "dead", "gone"}]
    /\ group \in [Jobs -> {"none", "alive", "rest", "over"}]
    /\ strays \subseteq Jobs /\ origin \subseteq Jobs /\ ends \subseteq Jobs
    /\ lock \in Jobs \union {NoJob}
    /\ snapshot \in [at : {"none", "listed", "round"}, live : SUBSET Jobs,
                     dead : SUBSET Jobs, todo : SUBSET Jobs]
    /\ activity \in [pc : {"idle", "listed", "scanned", "answered"}, live : Nat,
                     marked : SUBSET Jobs, before : SUBSET Jobs, unborn : SUBSET Jobs]
    /\ past \in [early : SUBSET Jobs, unseen : SUBSET Jobs]

\* No process of the job is alive, and none can come any more.
Quiet(j) ==
    /\ j \notin strays
    /\ group[j] = "over" \/ (group[j] = "none" /\ pane[j] \in {"dead", "gone"})

\* How far the start, the window and the processes of a job may be at once.
JobSound(j) ==
    /\ status[j] = "none" => pane[j] = "none"
    /\ status[j] = "starting" => lock = j
    /\ status[j] \in {"running", "exited", "killed"} => pane[j] \notin {"none", "asked"}
    /\ status[j] \in {"exited", "killed"} /\ j \notin past.early => pane[j] \in {"dead", "gone"}
    /\ pane[j] = "asked" => status[j] \in {"starting", "cut"}
    /\ group[j] # "none" \/ j \in strays => pane[j] \notin {"none", "asked"}
    /\ j \in ends \ (past.early \union past.unseen) => Quiet(j)

\* The windows ever asked for, and those that the limit is about.
Opened == {j \in Jobs : pane[j] # "none"}
Bounded == {j \in Jobs : pane[j] \in {"asked", "live"} /\ status[j] # "cut"}

WindowsSound ==
    /\ IsFiniteSet(Opened) /\ Cardinality(Bounded) <= MaxLive
    /\ snapshot.at = "round" => snapshot.todo \subseteq RunningJobs

\* What /activity has seen so far still tells something.
ActivitySound ==
    /\ IsFiniteSet(activity.marked)
    /\ activity.pc = "scanned" =>
         \A j \in Jobs \ (activity.marked \union activity.unborn) :
             group[j] = "over" /\ j \notin strays
    /\ activity.pc \in {"listed", "scanned"} /\ activity.live = 0 =>
         \A j \in activity.before : pane[j] \in {"dead", "gone"}
    /\ activity.pc = "scanned" /\ activity.live = 0 =>
         \A j \in activity.before \ activity.marked : Quiet(j)

TermInv == TermTyped /\ (\A j \in Jobs : JobSound(j)) /\ WindowsSound /\ ActivitySound

\* What any step may do to one job.
StatusMoves(j) ==
    \/ status'[j] = status[j]
    \/ status[j] = "none" /\ status'[j] = "starting" /\ lock = NoJob
    \/ status[j] = "starting" /\ status'[j] = "cut"
    \/ /\ status[j] = "starting" /\ status'[j] = "running"
       /\ pane[j] \notin {"none", "asked"} /\ pane'[j] = pane[j]
    \/ /\ status[j] = "running" /\ status'[j] \in {"exited", "killed"}
       /\ j \in past'.early \/ pane'[j] # "live"

PaneMoves(j) ==
    \/ pane'[j] = pane[j]
    \/ pane[j] = "none" /\ pane'[j] = "asked" /\ status[j] = "none" /\ status'[j] = "starting"
    \/ pane[j] = "asked" /\ pane'[j] = "live"
    \/ pane[j] = "asked" /\ pane'[j] = "none" /\ status'[j] = "cut"
    \/ pane[j] \notin {"none", "asked"} /\ pane'[j] \in {"dead", "gone"}

ProcessMoves(j) ==
    /\ \/ group'[j] = group[j]
       \/ group[j] = "none" /\ group'[j] = "alive" /\ pane[j] = "live"
       \/ group[j] = "alive" /\ group'[j] = "rest"
       \/ pane[j] \notin {"none", "asked"} /\ group'[j] = "over"
    /\ j \in strays' => j \in strays \/ group[j] = "alive"

JobMoves(j) == StatusMoves(j) /\ PaneMoves(j) /\ ProcessMoves(j)

(* Every step keeps the types.                                               *)
LEMMA TermTypedStep ==
    ASSUME TermTyped, IsFiniteSet(Opened), TermNext
    PROVE  TermTyped'
<1> USE DEF records, files, os, tasks
<1> DEFINE Snapshots == [at : {"none", "listed", "round"}, live : SUBSET Jobs,
                         dead : SUBSET Jobs, todo : SUBSET Jobs]
           Activities == [pc : {"idle", "listed", "scanned", "answered"}, live : Nat,
                          marked : SUBSET Jobs, before : SUBSET Jobs, unborn : SUBSET Jobs]
           Pasts == [early : SUBSET Jobs, unseen : SUBSET Jobs]
<1>0. /\ NoSnapshot \in Snapshots /\ NoActivity \in Activities
      /\ snapshot \in Snapshots /\ activity \in Activities /\ past \in Pasts
  BY DEF NoSnapshot, NoActivity, TermTyped
<1>1. ASSUME NEW j \in Jobs, Submit(j) \/ WindowOpens(j) \/ JobRegistered(j) \/ StartCut(j)
      PROVE  TermTyped'
  BY <1>1 DEF Submit, WindowOpens, JobRegistered, StartCut, TermTyped
<1>2. ASSUME NEW j \in Jobs, Born(j) \/ Exits(j) \/ LeftoversEnd(j) \/ CloseWindow(j)
      PROVE  TermTyped'
  BY <1>2 DEF Born, Exits, LeftoversEnd, CloseWindow, DeadPane, TermTyped
<1>3. ASSUME NEW j \in Jobs, Kill(j) \/ Expire(j) \/ GraceOver(j) \/ Sweep(j)
      PROVE  TermTyped'
  BY <1>3 DEF Kill, Expire, GraceOver, Sweep, SigKill, KilledGroup, KilledPane, TermTyped
<1>4. CASE Reset
  BY <1>4 DEF Reset, TermTyped
<1>5. CASE SuperviseList
  <2>1. InPane("live") \ FinishedJobs \in SUBSET Jobs /\ InPane("dead") \ FinishedJobs \in SUBSET Jobs
    BY DEF InPane
  <2>2. snapshot' \in Snapshots
    BY <1>0, <1>5, <2>1 DEF SuperviseList
  <2> QED
    BY <1>5, <2>2 DEF SuperviseList, TermTyped
<1>6. ASSUME NEW j \in Jobs, SuperviseJob(j)
      PROVE  TermTyped'
  <2>1. ToVisit \in SUBSET Jobs
    BY <1>0 DEF ToVisit, RunningJobs, Is
  <2>2. snapshot' \in Snapshots
    BY <1>0, <1>6, <2>1 DEF SuperviseJob
  <2>3. past' \in Pasts
    BY <1>0, <1>6 DEF SuperviseJob, Settle, Visited
  <2>4. /\ status' \in [Jobs -> {"none", "starting", "running", "exited", "killed", "cut"}]
        /\ pane' \in [Jobs -> {"none", "asked", "live", "dead", "gone"}]
    BY <1>6 DEF SuperviseJob, Settle, Visited, TermTyped
  <2>5. UNCHANGED <<group, strays, files, lock, activity>>
    BY <1>6 DEF SuperviseJob
  <2> QED
    BY <2>2, <2>3, <2>4, <2>5 DEF TermTyped
<1>7. CASE Track
  BY <1>7 DEF Track, WithoutProcess, FinishedJobs, Is, TermTyped
<1>8. CASE ActivityList \/ ActivityScan
  <2>1. Cardinality(InPane("live")) \in Nat
    <3>1. InPane("live") \in SUBSET Opened
      BY DEF InPane, Opened
    <3> QED
      BY <3>1, FS_Subset, FS_CardinalityType
  <2>2. /\ RunningJobs \union FinishedJobs \in SUBSET Jobs
        /\ Marked \in SUBSET Jobs /\ {j \in Jobs : group[j] = "none"} \in SUBSET Jobs
    BY DEF RunningJobs, FinishedJobs, Is, Marked, TermTyped
  <2>3. activity' \in Activities
    BY <1>0, <1>8, <2>1, <2>2 DEF ActivityList, ActivityScan
  <2> QED
    BY <1>8, <2>3 DEF ActivityList, ActivityScan, TermTyped
<1>9. CASE ActivityEnd
  <2> DEFINE gone == origin \ (ends \union activity.marked \union RunningJobs \union Is("starting"))
  <2>1. activity' \in Activities
    BY <1>0, <1>9 DEF ActivityEnd
  <2>2. gone \intersect activity.unborn \in SUBSET Jobs
    BY <1>0
  <2>3. past' \in Pasts
    BY <1>0, <1>9, <2>2 DEF ActivityEnd
  <2> QED
    BY <1>9, <2>1, <2>3 DEF ActivityEnd, TermTyped
<1> QED
  BY <1>1, <1>2, <1>3, <1>4, <1>5, <1>6, <1>7, <1>8, <1>9 DEF TermNext, Supervise

(* What any step does to a job is one of these moves.                        *)
LEMMA TermMoves ==
    ASSUME TermInv, TermNext, NEW i \in Jobs
    PROVE  JobMoves(i)
<1> USE DEF records, files, os, tasks
<1>0. TermTyped /\ JobSound(i)
  BY DEF TermInv
<1>1. ASSUME NEW j \in Jobs, Submit(j) \/ WindowOpens(j) \/ JobRegistered(j) \/ StartCut(j)
      PROVE  JobMoves(i)
  BY <1>0, <1>1 DEF Submit, WindowOpens, JobRegistered, StartCut, MaySubmit, TermTyped, JobSound,
     JobMoves, StatusMoves, PaneMoves, ProcessMoves
<1>2. ASSUME NEW j \in Jobs, Born(j) \/ Exits(j) \/ LeftoversEnd(j) \/ CloseWindow(j)
      PROVE  JobMoves(i)
  BY <1>0, <1>2 DEF Born, Exits, LeftoversEnd, CloseWindow, DeadPane, TermTyped, JobSound,
     JobMoves, StatusMoves, PaneMoves, ProcessMoves
<1>3. ASSUME NEW j \in Jobs, Kill(j) \/ Expire(j) \/ GraceOver(j) \/ Sweep(j)
      PROVE  JobMoves(i)
  BY <1>0, <1>3 DEF Kill, Expire, GraceOver, Sweep, SigKill, KilledGroup, KilledPane,
     KilledAfterGrace, RunningJobs, Is, TermTyped, JobSound,
     JobMoves, StatusMoves, PaneMoves, ProcessMoves
<1>4. CASE Reset
  BY <1>0, <1>4 DEF Reset, RunningJobs, Is, TermTyped, JobSound,
     JobMoves, StatusMoves, PaneMoves, ProcessMoves
<1>5. CASE SuperviseList \/ Track \/ ActivityList \/ ActivityScan \/ ActivityEnd
  BY <1>5 DEF SuperviseList, Track, ActivityList, ActivityScan, ActivityEnd,
     JobMoves, StatusMoves, PaneMoves, ProcessMoves
<1>6. ASSUME NEW j \in Jobs, SuperviseJob(j)
      PROVE  JobMoves(i)
  <2>1. ToVisit \subseteq RunningJobs
    BY <1>6 DEF SuperviseJob, ToVisit, TermInv, TermTyped, WindowsSound
  <2>2. j \in RunningJobs
    BY <1>6, <2>1 DEF SuperviseJob
  <2>3. UNCHANGED <<group, strays>>
    BY <1>6 DEF SuperviseJob
  <2>4. CASE Visited(j)
    BY <2>3, <2>4 DEF Visited, JobMoves, StatusMoves, PaneMoves, ProcessMoves
  <2>5. CASE Settle(j)
    <3>1. past'.early = past.early \union {k \in {j} : pane[k] = "live"}
      BY <2>5 DEF Settle, TermInv, TermTyped
    <3>2. StatusMoves(i) /\ PaneMoves(i)
      BY <1>0, <2>2, <2>5, <3>1
         DEF Settle, RunningJobs, Is, StatusMoves, PaneMoves, TermTyped, JobSound
    <3> QED
      BY <2>3, <3>2 DEF JobMoves, ProcessMoves
  <2> QED
    BY <1>6, <2>4, <2>5 DEF SuperviseJob
<1> QED
  BY <1>1, <1>2, <1>3, <1>4, <1>5, <1>6 DEF TermNext, Supervise

(* Quiet jobs stay quiet.                                                    *)
LEMMA QuietStays ==
    ASSUME NEW j \in Jobs, JobMoves(j), Quiet(j)
    PROVE  Quiet(j)'
BY DEF JobMoves, PaneMoves, ProcessMoves, Quiet

(* A job that is not marked, and whose window is closed, is quiet.           *)
LEMMA UnmarkedIsQuiet ==
    ASSUME TermTyped, NEW j \in Jobs, j \notin Marked, pane[j] \in {"dead", "gone"}
    PROVE  Quiet(j)
BY DEF TermTyped, Marked, Quiet

(* The submit lock is held from the count of windows to the record.          *)
LEMMA LockMoves ==
    ASSUME TermInv, TermNext, NEW i \in Jobs, status'[i] = "starting"
    PROVE  lock' = i
<1> USE TerminalAssumption DEF records, files, os, tasks
<1>0. TermTyped /\ JobSound(i)
  BY DEF TermInv
<1>1. ASSUME NEW j \in Jobs, Submit(j) \/ JobRegistered(j) \/ StartCut(j)
      PROVE  lock' = i
  BY <1>0, <1>1 DEF TermInv, Submit, JobRegistered, StartCut, MaySubmit, TermTyped, JobSound
<1>2. ASSUME NEW j \in Jobs, SuperviseJob(j)
      PROVE  lock' = i
  BY <1>0, <1>2 DEF SuperviseJob, Settle, Visited, TermTyped, JobSound
<1>3. CASE \/ \E j \in Jobs : \/ WindowOpens(j) \/ Born(j) \/ Exits(j) \/ LeftoversEnd(j)
                              \/ CloseWindow(j) \/ Kill(j) \/ Expire(j) \/ GraceOver(j) \/ Sweep(j)
           \/ Reset \/ SuperviseList \/ Track \/ ActivityList \/ ActivityScan \/ ActivityEnd
  <2>1. UNCHANGED <<status, lock>>
    BY <1>3 DEF WindowOpens, Born, Exits, LeftoversEnd, CloseWindow, Kill, Expire, GraceOver,
       Sweep, Reset, SuperviseList, Track, ActivityList, ActivityScan, ActivityEnd
  <2> QED
    BY <1>0, <2>1 DEF JobSound
<1> QED
  BY <1>1, <1>2, <1>3 DEF TermNext, Supervise

(* What is noted as ended was found without a process, by a scan that could  *)
(* see it; and the notes of what is exempt are kept.                         *)
LEMMA EndMoves ==
    ASSUME TermInv, TermNext, NEW i \in Jobs
    PROVE  /\ i \in ends' \ (ends \union past'.early \union past'.unseen) => Quiet(i)
           /\ past.early \subseteq past'.early /\ past.unseen \subseteq past'.unseen
<1> USE DEF records, files, os, tasks
<1>0. TermTyped /\ JobSound(i)
  BY DEF TermInv
<1>1. CASE Track
  <2>1. UNCHANGED past
    BY <1>1 DEF Track
  <2>2. ASSUME i \in ends' \ (ends \union past.early) PROVE Quiet(i)
    <3>1. i \in FinishedJobs /\ i \notin Marked
      BY <1>1, <2>2 DEF Track, WithoutProcess
    <3> QED
      BY <1>0, <2>2, <3>1, UnmarkedIsQuiet DEF FinishedJobs, Is, JobSound
  <2> QED
    BY <2>1, <2>2
<1>2. CASE ActivityEnd
  <2> DEFINE gone == origin \ (ends \union activity.marked \union RunningJobs \union Is("starting"))
  <2>1. /\ activity.pc = "scanned" /\ ends' = ends \union gone
        /\ past' = [past EXCEPT !.unseen = @ \union (gone \intersect activity.unborn)]
    BY <1>2 DEF ActivityEnd
  <2>2. past'.early = past.early /\ past'.unseen = past.unseen \union (gone \intersect activity.unborn)
    BY <1>0, <2>1 DEF TermTyped
  <2>3. ASSUME i \in gone \ activity.unborn PROVE Quiet(i)
    BY <2>1, <2>3 DEF TermInv, ActivitySound, Quiet
  <2> HIDE DEF gone
  <2> QED
    BY <2>1, <2>2, <2>3
<1>3. ASSUME NEW j \in Jobs, SuperviseJob(j)
      PROVE  UNCHANGED ends /\ past.early \subseteq past'.early /\ past.unseen \subseteq past'.unseen
  BY <1>0, <1>3 DEF SuperviseJob, Settle, Visited, TermTyped
<1>4. CASE \/ \E j \in Jobs : \/ Submit(j) \/ WindowOpens(j) \/ JobRegistered(j) \/ StartCut(j)
                              \/ Born(j) \/ Exits(j) \/ LeftoversEnd(j)
                              \/ CloseWindow(j) \/ Kill(j) \/ Expire(j) \/ GraceOver(j) \/ Sweep(j)
           \/ Reset \/ SuperviseList \/ ActivityList \/ ActivityScan
  BY <1>4 DEF Submit, WindowOpens, JobRegistered, StartCut, Born, Exits, LeftoversEnd,
     CloseWindow, Kill, Expire, GraceOver, Sweep, Reset, SuperviseList, ActivityList, ActivityScan
<1> QED
  BY <1>1, <1>2, <1>3, <1>4 DEF TermNext, Supervise

(* The moves keep a job sound.                                               *)
LEMMA JobSoundStep ==
    ASSUME TermInv, TermNext, NEW j \in Jobs
    PROVE  JobSound(j)'
<1>0. TermTyped /\ TermTyped' /\ JobSound(j) /\ JobMoves(j)
  BY TermTypedStep, TermMoves DEF TermInv, WindowsSound
<1>1. status'[j] = "none" => pane'[j] = "none"
  BY <1>0 DEF TermTyped, JobMoves, StatusMoves, PaneMoves, JobSound
<1>2. status'[j] = "starting" => lock' = j
  BY LockMoves
<1>3. status'[j] \in {"running", "exited", "killed"} => pane'[j] \notin {"none", "asked"}
  BY <1>0 DEF TermTyped, JobMoves, StatusMoves, PaneMoves, JobSound
<1>4. status'[j] \in {"exited", "killed"} /\ j \notin past'.early => pane'[j] \in {"dead", "gone"}
  BY <1>0, EndMoves DEF TermTyped, JobMoves, StatusMoves, PaneMoves, JobSound
<1>5. pane'[j] = "asked" => status'[j] \in {"starting", "cut"}
  BY <1>0 DEF TermTyped, JobMoves, StatusMoves, PaneMoves, JobSound
<1>6. group'[j] # "none" \/ j \in strays' => pane'[j] \notin {"none", "asked"}
  BY <1>0 DEF TermTyped, JobMoves, PaneMoves, ProcessMoves, JobSound
<1>7. j \in ends' \ (past'.early \union past'.unseen) => Quiet(j)'
  <2>1. ASSUME j \in ends' \ (past'.early \union past'.unseen) PROVE Quiet(j)
    BY <1>0, <2>1, EndMoves DEF JobSound
  <2> QED
    BY <1>0, <2>1, QuietStays
<1> QED
  BY <1>1, <1>2, <1>3, <1>4, <1>5, <1>6, <1>7 DEF JobSound

(* A submission counts the live windows and adds one; nothing else adds a    *)
(* window that the limit is about.                                           *)
LEMMA WindowsSoundStep ==
    ASSUME TermInv, TermNext
    PROVE  WindowsSound'
<1> USE DEF records, files, os, tasks
<1>0. TermTyped /\ TermTyped' /\ WindowsSound /\ \A j \in Jobs : JobSound(j) /\ JobMoves(j)
  BY TermTypedStep, TermMoves DEF TermInv, WindowsSound
<1>1. CASE \E j \in Jobs : Submit(j)
  <2> PICK j \in Jobs : Submit(j)
    BY <1>1
  <2>1. lock = NoJob /\ Cardinality(InPane("live")) < MaxLive /\ UNCHANGED snapshot
    BY DEF Submit, MaySubmit
  <2>2. /\ pane' = [i \in Jobs |-> IF i = j THEN "asked"
                                   ELSE IF pane[i] = "dead" /\ i \in FinishedJobs THEN "gone"
                                   ELSE pane[i]]
        /\ status' = [status EXCEPT ![j] = "starting"] /\ status[j] = "none"
    BY DEF Submit
  <2>3. Opened' \subseteq Opened \union {j}
    BY <2>2 DEF Opened
  <2>4. IsFiniteSet(Opened \union {j})
    BY <1>0, FS_AddElement DEF WindowsSound
  <2>5. IsFiniteSet(Opened')
    BY <2>3, <2>4, FS_Subset
  <2>6. Bounded' \subseteq InPane("live") \union {j}
    <3> SUFFICES ASSUME NEW i \in Jobs, i # j, pane'[i] \in {"asked", "live"}, status'[i] # "cut"
                 PROVE  pane[i] = "live"
      BY DEF Bounded, InPane
    <3>1. pane[i] \in {"asked", "live"} /\ status[i] # "cut"
      BY <1>0, <2>2 DEF TermTyped
    <3>2. status[i] # "starting"
      BY <1>0, <2>1, TerminalAssumption DEF JobSound
    <3> QED
      BY <1>0, <3>1, <3>2 DEF JobSound
  <2>7. InPane("live") \in SUBSET Opened
    BY DEF InPane, Opened
  <2>8. IsFiniteSet(InPane("live"))
    BY <1>0, <2>7, FS_Subset DEF WindowsSound
  <2>9. /\ IsFiniteSet(InPane("live") \union {j})
        /\ Cardinality(InPane("live") \union {j}) <= Cardinality(InPane("live")) + 1
        /\ Cardinality(InPane("live")) \in Nat
    <3>1. Cardinality(InPane("live")) \in Nat
      BY <2>8, FS_CardinalityType
    <3>2. /\ IsFiniteSet(InPane("live") \union {j})
          /\ Cardinality(InPane("live") \union {j})
               = IF j \in InPane("live") THEN Cardinality(InPane("live"))
                 ELSE Cardinality(InPane("live")) + 1
      BY <2>8, FS_AddElement
    <3> HIDE DEF InPane
    <3> QED
      BY <3>1, <3>2
  <2>10. Cardinality(Bounded') <= Cardinality(InPane("live") \union {j}) /\ IsFiniteSet(Bounded')
    BY <2>6, <2>9, FS_Subset
  <2>11. Cardinality(Bounded') \in Nat /\ Cardinality(InPane("live") \union {j}) \in Nat
    BY <2>9, <2>10, FS_CardinalityType
  <2>12. Cardinality(Bounded') <= MaxLive
    BY <2>1, <2>9, <2>10, <2>11, TerminalAssumption
  <2>13. snapshot.at = "round" => snapshot.todo \subseteq RunningJobs'
    BY <1>0, <2>2 DEF WindowsSound, RunningJobs, Is, TermTyped
  <2> QED
    BY <2>1, <2>5, <2>12, <2>13 DEF WindowsSound
<1>2. CASE ~\E j \in Jobs : Submit(j)
  <2>1. \A j \in Jobs : status'[j] = "starting" => status[j] = "starting"
    <3> SUFFICES ASSUME NEW j \in Jobs, status'[j] = "starting", status[j] # "starting" PROVE FALSE
      OBVIOUS
    <3>1. ASSUME NEW i \in Jobs, \/ JobRegistered(i) \/ StartCut(i) \/ SuperviseJob(i)
          PROVE  FALSE
      BY <1>0, <3>1 DEF JobRegistered, StartCut, SuperviseJob, Settle, Visited, TermTyped
    <3>2. UNCHANGED status
      BY <1>2, <3>1 DEF TermNext, WindowOpens, Born, Exits, LeftoversEnd, CloseWindow,
         Kill, Expire, GraceOver, Sweep, Reset, Supervise, SuperviseList, Track, ActivityList,
         ActivityScan, ActivityEnd
    <3> QED
      BY <3>2
  <2>2. \A j \in Jobs : pane'[j] # "none" => pane[j] # "none"
    BY <1>0, <2>1 DEF JobMoves, PaneMoves, JobSound
  <2>3. Opened' \in SUBSET Opened
    BY <2>2 DEF Opened
  <2>4. Bounded' \in SUBSET Bounded
    BY <1>0, <2>1 DEF Bounded, JobMoves, StatusMoves, PaneMoves, JobSound, TermTyped
  <2>5. IsFiniteSet(Opened') /\ Bounded \in SUBSET Opened
    BY <1>0, <2>3, FS_Subset DEF WindowsSound, Bounded, Opened
  <2>6. IsFiniteSet(Bounded) /\ IsFiniteSet(Bounded') /\ Cardinality(Bounded') <= Cardinality(Bounded)
    BY <1>0, <2>4, <2>5, FS_Subset DEF WindowsSound
  <2>7. Cardinality(Bounded) \in Nat /\ Cardinality(Bounded') \in Nat
    BY <2>6, FS_CardinalityType
  <2>8. Cardinality(Bounded') <= MaxLive
    BY <1>0, <2>6, <2>7, TerminalAssumption DEF WindowsSound
  <2>9. snapshot'.at = "round" => snapshot'.todo \subseteq RunningJobs'
    <3>1. ASSUME NEW i \in Jobs, SuperviseJob(i)
          PROVE  snapshot'.at = "round" => snapshot'.todo \subseteq RunningJobs'
      <4>1. ToVisit \subseteq RunningJobs
        BY <1>0, <3>1 DEF SuperviseJob, ToVisit, WindowsSound, TermTyped
      <4>2. snapshot'.at = "round" => snapshot'.todo = ToVisit \ {i}
        BY <1>0, <3>1 DEF SuperviseJob, NoSnapshot, TermTyped
      <4>3. \A j \in Jobs \ {i} : status'[j] = status[j]
        BY <1>0, <3>1 DEF SuperviseJob, Settle, Visited, TermTyped
      <4> QED
        BY <4>1, <4>2, <4>3 DEF RunningJobs, Is
    <3>2. CASE SuperviseList
      BY <3>2 DEF SuperviseList, NoSnapshot
    <3>3. CASE UNCHANGED snapshot
      <4>1. ASSUME NEW j \in RunningJobs, j \notin RunningJobs' PROVE \E i \in Jobs : SuperviseJob(i)
        <5>1. status'[j] # status[j] /\ status[j] = "running" /\ j \in Jobs
          BY <4>1 DEF RunningJobs, Is
        <5>2. \A i \in Jobs : ~JobRegistered(i) /\ ~StartCut(i)
          BY <1>0, <5>1 DEF JobRegistered, StartCut, TermTyped
        <5>3. status' # status
          BY <5>1
        <5> QED
          BY <1>2, <5>2, <5>3 DEF TermNext, WindowOpens, Born, Exits,
             LeftoversEnd, CloseWindow, Kill, Expire, GraceOver, Sweep, Reset, Supervise,
             SuperviseList, Track, ActivityList, ActivityScan, ActivityEnd
      <4> QED
        BY <1>0, <3>1, <3>3, <4>1 DEF WindowsSound
    <3> QED
      BY <1>2, <3>1, <3>2, <3>3 DEF TermNext, WindowOpens, JobRegistered, StartCut, Born, Exits,
         LeftoversEnd, CloseWindow, Kill, Expire, GraceOver, Sweep, Reset, Supervise,
         Track, ActivityList, ActivityScan, ActivityEnd
  <2> QED
    BY <2>5, <2>8, <2>9 DEF WindowsSound
<1> QED
  BY <1>1, <1>2

(* What /activity has seen stays true: no process comes to a closed window,  *)
(* nor back to a group that is over.                                         *)
LEMMA ActivitySoundStep ==
    ASSUME TermInv, TermNext
    PROVE  ActivitySound'
<1> USE DEF records, files, os, tasks
<1>0. /\ TermTyped /\ TermTyped' /\ WindowsSound /\ ActivitySound
      /\ \A j \in Jobs : JobSound(j) /\ JobMoves(j)
  BY TermTypedStep, TermMoves DEF TermInv, WindowsSound
<1>1. CASE UNCHANGED activity
  <2>1. \A j \in Jobs : Quiet(j) => Quiet(j)'
    BY <1>0, QuietStays
  <2>2. \A j \in Jobs : pane[j] \in {"dead", "gone"} => pane'[j] \in {"dead", "gone"}
    BY <1>0 DEF JobMoves, PaneMoves
  <2>3. \A j \in Jobs : group[j] = "over" /\ j \notin strays => group'[j] = "over" /\ j \notin strays'
    BY <1>0 DEF JobMoves, ProcessMoves
  <2>4. activity.before \subseteq Jobs
    BY <1>0 DEF TermTyped
  <2> QED
    BY <1>0, <1>1, <2>1, <2>2, <2>3, <2>4 DEF ActivitySound
<1>2. CASE ActivityList
  <2>1. activity' = [NoActivity EXCEPT !.pc = "listed", !.live = Cardinality(InPane("live")),
                                       !.before = RunningJobs \union FinishedJobs]
    BY <1>2 DEF ActivityList
  <2>2. /\ activity'.pc = "listed" /\ activity'.live = Cardinality(InPane("live"))
        /\ activity'.before = RunningJobs \union FinishedJobs /\ activity'.marked = {}
    BY <2>1 DEF NoActivity
  <2>3. ASSUME activity'.live = 0, NEW j \in activity'.before
        PROVE  pane'[j] \in {"dead", "gone"}
    <3>1. InPane("live") \in SUBSET Opened
      BY DEF InPane, Opened
    <3>2. InPane("live") = {}
      BY <1>0, <2>2, <2>3, <3>1, FS_Subset, FS_EmptySet DEF WindowsSound
    <3>3. /\ j \in Jobs /\ status[j] \in {"running", "exited", "killed"}
          /\ pane[j] # "live" /\ pane'[j] = pane[j]
      BY <1>2, <2>2, <2>3, <3>2 DEF RunningJobs, FinishedJobs, Is, InPane, ActivityList
    <3> QED
      BY <1>0, <3>3 DEF TermTyped, JobSound
  <2>4. IsFiniteSet(activity'.marked)
    BY <2>2, FS_EmptySet
  <2> QED
    BY <2>2, <2>3, <2>4 DEF ActivitySound
<1>3. CASE ActivityScan
  <2>1. activity.pc = "listed" /\ UNCHANGED <<pane, group, strays>>
    BY <1>3 DEF ActivityScan
  <2>2. /\ activity'.pc = "scanned" /\ activity'.marked = Marked
        /\ activity'.unborn = {j \in Jobs : group[j] = "none"}
        /\ activity'.live = activity.live /\ activity'.before = activity.before
    BY <1>0, <1>3 DEF ActivityScan, TermTyped
  <2>3. IsFiniteSet(activity'.marked)
    <3>1. Marked \in SUBSET Opened
      BY <1>0 DEF Marked, Opened, JobSound, TermTyped
    <3> QED
      BY <1>0, <2>2, <3>1, FS_Subset DEF WindowsSound
  <2>4. ASSUME NEW j \in Jobs \ (activity'.marked \union activity'.unborn)
        PROVE  group'[j] = "over" /\ j \notin strays'
    BY <1>0, <2>1, <2>2, <2>4 DEF Marked, TermTyped
  <2>5. ASSUME activity'.live = 0, NEW j \in activity'.before
        PROVE  pane'[j] \in {"dead", "gone"}
    BY <1>0, <2>1, <2>2, <2>5 DEF ActivitySound
  <2>6. ASSUME activity'.live = 0, NEW j \in activity'.before \ activity'.marked
        PROVE  Quiet(j)'
    <3>1. j \in Jobs /\ Quiet(j)
      BY <1>0, <2>1, <2>2, <2>5, <2>6, UnmarkedIsQuiet DEF TermTyped
    <3> QED
      BY <2>1, <3>1 DEF Quiet
  <2> QED
    BY <2>2, <2>3, <2>4, <2>5, <2>6 DEF ActivitySound
<1>4. CASE ActivityEnd
  <2>1. activity'.pc = "answered" /\ activity'.marked = {}
    BY <1>4 DEF ActivityEnd, NoActivity
  <2> QED
    BY <2>1, FS_EmptySet DEF ActivitySound
<1> QED
  BY <1>1, <1>2, <1>3, <1>4 DEF TermNext, Submit, WindowOpens, JobRegistered, StartCut, Born,
     Exits, LeftoversEnd, CloseWindow, Kill, Expire, GraceOver, Sweep, Reset, Supervise,
     SuperviseList, SuperviseJob, Track

(* The conjunction is inductive.                                             *)
LEMMA TermInductive ==
    /\ TermInit => TermInv
    /\ TermInv /\ [TermNext]_termVars => TermInv'
<1>1. ASSUME TermInit PROVE TermInv
  <2>1. Opened = {} /\ Bounded = {} /\ activity.marked = {}
    BY <1>1 DEF TermInit, Opened, Bounded, NoActivity
  <2>2. IsFiniteSet({}) /\ Cardinality({}) = 0
    BY FS_EmptySet
  <2>3. WindowsSound
    BY <1>1, <2>1, <2>2, TerminalAssumption DEF TermInit, WindowsSound, NoSnapshot
  <2>4. ActivitySound
    BY <1>1, <2>1, <2>2 DEF TermInit, ActivitySound, NoActivity
  <2>5. TermTyped
    <3>1. NoSnapshot \in [at : {"none", "listed", "round"}, live : SUBSET Jobs,
                          dead : SUBSET Jobs, todo : SUBSET Jobs]
      BY DEF NoSnapshot
    <3>2. NoActivity \in [pc : {"idle", "listed", "scanned", "answered"}, live : Nat,
                          marked : SUBSET Jobs, before : SUBSET Jobs, unborn : SUBSET Jobs]
      BY DEF NoActivity
    <3> QED
      BY <1>1, <3>1, <3>2 DEF TermInit, TermTyped
  <2>6. \A j \in Jobs : JobSound(j)
    BY <1>1 DEF TermInit, JobSound
  <2> QED
    BY <2>3, <2>4, <2>5, <2>6 DEF TermInv
<1>2. ASSUME TermInv, TermNext PROVE TermInv'
  <2>1. TermTyped'
    BY <1>2, TermTypedStep DEF TermInv, WindowsSound
  <2> QED
    BY <1>2, <2>1, JobSoundStep, WindowsSoundStep, ActivitySoundStep DEF TermInv
<1>3. ASSUME TermInv, UNCHANGED termVars PROVE TermInv'
  <2> USE <1>3 DEF termVars, records, files, os, tasks
  <2>1. TermTyped'
    BY DEF TermInv, TermTyped
  <2>2. \A j \in Jobs : JobSound(j)'
    BY DEF TermInv, JobSound, Quiet
  <2>3. WindowsSound'
    BY DEF TermInv, WindowsSound, Opened, Bounded, RunningJobs, Is
  <2>4. ActivitySound'
    BY DEF TermInv, ActivitySound, Quiet
  <2> QED
    BY <2>1, <2>2, <2>3, <2>4 DEF TermInv
<1> QED
  BY <1>1, <1>2, <1>3

(* However many submissions come at once and whatever is cut off, the live   *)
(* windows stay within the limit.                                            *)
THEOREM LiveWindowsBounded == TermSpec => []WindowsAreBounded
<1>1. TermInv => WindowsAreBounded
  <2> SUFFICES ASSUME TermInv PROVE WindowsAreBounded
    OBVIOUS
  <2>1. InPane("live") \ Is("cut") \in SUBSET Bounded /\ Bounded \in SUBSET Opened
    BY DEF InPane, Is, Bounded, Opened
  <2>2. IsFiniteSet(Bounded) /\ Cardinality(Bounded) <= MaxLive
    BY <2>1, FS_Subset DEF TermInv, WindowsSound
  <2>3. /\ IsFiniteSet(InPane("live") \ Is("cut"))
        /\ Cardinality(InPane("live") \ Is("cut")) <= Cardinality(Bounded)
    BY <2>1, <2>2, FS_Subset
  <2>4. Cardinality(InPane("live") \ Is("cut")) \in Nat /\ Cardinality(Bounded) \in Nat
    BY <2>2, <2>3, FS_CardinalityType
  <2> QED
    BY <2>2, <2>3, <2>4, TerminalAssumption DEF WindowsAreBounded
<1> QED
  BY <1>1, TermInductive, PTL DEF TermSpec

(* A job whose end is recorded has no live process and gets none, in its     *)
(* group or out of it: in every order of windows, exits, scans and rounds of *)
(* the supervisor, but for the two cases that the property exempts.          *)
THEOREM RecordedEndsAreOver == TermSpec => []EndedMeansOver
<1>1. TermInv => EndedMeansOver
  BY DEF TermInv, TermTyped, JobSound, Quiet, EndedMeansOver, Marked
<1> QED
  BY <1>1, TermInductive, PTL DEF TermSpec

(* An instance that /activity calls idle has no process of any job whose     *)
(* start had returned when it was asked, although windows and processes come *)
(* and go between its list of windows, its scan and its answer.              *)
THEOREM IdleAnswersHold == TermSpec => IdleMeansIdle
<1>1. ASSUME TermInv, activity.pc = "scanned", Counted = 0
      PROVE  activity.before \intersect Marked = {}
  <2>1. RunningJobs \in SUBSET Opened
    BY <1>1 DEF TermInv, JobSound, RunningJobs, Is, Opened
  <2>2. Cardinality(RunningJobs) \in Nat /\ Cardinality(activity.marked) \in Nat
    BY <1>1, <2>1, FS_Subset, FS_CardinalityType DEF TermInv, WindowsSound, ActivitySound
  <2>3. activity.live \in Nat /\ activity.before \subseteq Jobs
    BY <1>1 DEF TermInv, TermTyped
  <2>4. activity.live = 0 /\ Cardinality(activity.marked) = 0
    <3>1. \A k, m, n \in Nat : k + m + n = 0 => m = 0 /\ n = 0
      OBVIOUS
    <3> QED
      BY <1>1, <2>2, <2>3, <3>1, Zenon DEF Counted
  <2>5. activity.marked = {}
    BY <1>1, <2>4, FS_EmptySet DEF TermInv, ActivitySound
  <2>6. \A j \in activity.before : Quiet(j)
    BY <1>1, <2>4, <2>5 DEF TermInv, ActivitySound
  <2> QED
    BY <2>3, <2>6 DEF Quiet, Marked
<1>2. TermInv /\ [TermNext]_termVars
        => [activity.pc = "scanned" /\ activity'.pc = "answered" /\ Counted = 0
              => activity.before \intersect Marked = {}]_termVars
  BY <1>1
<1> QED
  BY <1>2, TermInductive, PTL DEF TermSpec, IdleMeansIdle

-----------------------------------------------------------------------------
\* The long-lived processes (EngineProcs).

Logs == [size : Nat, segs : Seq(Nat), frozen : BOOLEAN]

ProcTyped ==
    /\ state \in [Procs -> {"none", "starting", "running", "failed", "exited", "killed"}]
    /\ reg \subseteq Procs
    /\ log \in [Procs -> Logs]
    /\ told \in [Procs -> Nat]

\* A start has the name to itself; what it starts is registered before the
\* next one, and stays so while it runs, unless it is given up.
StartsSound ==
    /\ \A p \in Procs : state[p] = "starting" => startLock = p
    /\ startLock # Nobody => reg = {}
    /\ \A p, q \in reg : p = q
    /\ \A p \in Procs \ stopped : state[p] = "running" => p \in reg \/ startLock = p

\* A log is closed, has one segment, or two of which the first is full.
SegmentsSound(l) ==
    /\ Len(l.segs) <= 2
    /\ Len(l.segs) = 0 => l.frozen
    /\ Len(l.segs) = 1 => l.segs[1] = 0
    /\ Len(l.segs) = 2 => l.segs[1] + Retain <= l.segs[2] /\ l.segs[2] <= l.size

LogsSound ==
    \A p \in Procs : /\ SegmentsSound(log[p])
                     /\ p \in Over => log[p].frozen /\ log[p].size = told[p]

ProcInv == ProcTyped /\ StartsSound /\ LogsSound

\* What is left of a sequence that must not be longer than two.
LastTwo(s) == IF Len(s) > 2 THEN Tail(s) ELSE s

(* Rolling keeps the last segment and the new one.                           *)
LEMMA RolledSegments ==
    ASSUME NEW s \in Seq(Nat), Len(s) = 1 \/ Len(s) = 2, NEW e \in Nat
    PROVE  /\ LastTwo(Append(s, e)) \in Seq(Nat) /\ Len(LastTwo(Append(s, e))) = 2
           /\ LastTwo(Append(s, e))[1] = s[Len(s)] /\ LastTwo(Append(s, e))[2] = e
           /\ s[Len(s)] \in Nat
<1>0. s[Len(s)] \in Nat
  <2>1. Len(s) \in 1 .. Len(s)
    OBVIOUS
  <2> QED
    BY <2>1, ElementOfSeq
<1> DEFINE t == Append(s, e)
<1>1. /\ t \in Seq(Nat) /\ t # <<>> /\ Len(t) = Len(s) + 1 /\ t[Len(s) + 1] = e
      /\ \A i \in 1 .. Len(s) : t[i] = s[i]
  BY AppendProperties
<1> HIDE DEF t
<1>2. CASE Len(s) = 1
  <2>1. Len(t) = 2 /\ t[1] = s[1] /\ t[2] = e
    BY <1>1, <1>2
  <2> QED
    BY <1>0, <1>1, <1>2, <2>1 DEF t, LastTwo
<1>3. CASE Len(s) = 2
  <2>1. Len(t) = 3 /\ t[2] = s[2] /\ t[3] = e
    BY <1>1, <1>3
  <2>2. /\ Tail(t) \in Seq(Nat) /\ Len(Tail(t)) = 2
        /\ \A i \in 1 .. Len(Tail(t)) : Tail(t)[i] = t[i + 1]
    <3>1. /\ Tail(t) \in Seq(Nat) /\ Len(Tail(t)) = Len(t) - 1
          /\ \A i \in 1 .. Len(Tail(t)) : Tail(t)[i] = t[i + 1]
      BY <1>1, HeadTailProperties
    <3> QED
      BY <2>1, <3>1
  <2>3. LastTwo(t) = Tail(t)
    BY <2>1 DEF LastTwo
  <2>4. Tail(t)[1] = t[1 + 1] /\ Tail(t)[2] = t[2 + 1]
    <3>1. 1 \in 1 .. 2 /\ 2 \in 1 .. 2
      OBVIOUS
    <3> QED
      BY <2>2, <3>1, Zenon
  <2>5. 1 + 1 = 2 /\ 2 + 1 = 3
    OBVIOUS
  <2> QED
    BY <1>0, <1>3, <2>1, <2>2, <2>3, <2>4, <2>5 DEF t
<1> QED
  BY <1>2, <1>3

(* A write keeps the segments of a log sound, wherever it ends.              *)
LEMMA AppendedSound ==
    ASSUME NEW l \in Logs, SegmentsSound(l), NEW n \in Nat
    PROVE  /\ Appended(l, n) \in Logs
           /\ SegmentsSound(Appended(l, n))
           /\ l.frozen => Appended(l, n) = l
<1> USE ProcsAssumption
<1>1. CASE l.frozen
  BY <1>1 DEF Appended
<1>2. CASE ~l.frozen
  <2> DEFINE grown == [l EXCEPT !.size = @ + n]
  <2>1. /\ grown \in Logs /\ grown.size = l.size + n /\ grown.segs = l.segs
        /\ grown.frozen = l.frozen
        /\ l.size \in Nat /\ l.segs \in Seq(Nat) /\ l.size + n \in Nat
    BY DEF Logs
  <2>2. Appended(l, n) = IF grown.size - l.segs[Len(l.segs)] >= Retain THEN Rolled(grown) ELSE grown
    BY <1>2 DEF Appended
  <2> DEFINE rolled == LastTwo(Append(l.segs, l.size + n))
  <2>3. Rolled(grown) = [grown EXCEPT !.segs = rolled]
    BY <2>1 DEF Rolled, LastTwo
  <2>4. Len(l.segs) = 1 \/ Len(l.segs) = 2
    <3>1. \A k \in Nat : k <= 2 /\ k # 0 => k = 1 \/ k = 2
      OBVIOUS
    <3>2. Len(l.segs) \in Nat
      BY <2>1, LenProperties
    <3> QED
      BY <1>2, <3>1, <3>2, Zenon DEF SegmentsSound
  <2>5. /\ rolled \in Seq(Nat) /\ Len(rolled) = 2 /\ rolled[1] = l.segs[Len(l.segs)]
        /\ rolled[2] = l.size + n /\ l.segs[Len(l.segs)] \in Nat
    BY <2>1, <2>4, RolledSegments
  <2> HIDE DEF rolled, grown
  <2>6. /\ Rolled(grown) \in Logs
        /\ Rolled(grown).segs = rolled /\ Rolled(grown).size = l.size + n
    BY <2>1, <2>3, <2>5 DEF Logs
  <2>7. CASE grown.size - l.segs[Len(l.segs)] >= Retain
    <3>1. \A a, b \in Nat : b - a >= Retain => a + Retain <= b
      OBVIOUS
    <3>2. l.segs[Len(l.segs)] + Retain <= l.size + n
      BY <2>1, <2>5, <2>7, <3>1
    <3>3. Appended(l, n) = Rolled(grown)
      BY <2>2, <2>7
    <3>4. SegmentsSound(Rolled(grown))
      <4>1. 2 <= 2 /\ 2 # 0 /\ 2 # 1 /\ l.size + n <= l.size + n
        BY <2>1
      <4> QED
        BY <2>5, <2>6, <3>2, <4>1, Zenon DEF SegmentsSound
    <3> QED
      BY <1>2, <2>6, <3>3, <3>4
  <2>8. CASE ~(grown.size - l.segs[Len(l.segs)] >= Retain)
    <3>1. Len(l.segs) = 2 => l.segs[2] <= grown.size
      BY <2>1, <2>5 DEF SegmentsSound
    <3> QED
      BY <1>2, <2>1, <2>2, <2>4, <2>8, <3>1 DEF SegmentsSound
  <2> QED
    BY <2>7, <2>8
<1> QED
  BY <1>1, <1>2

(* Nothing but a write, a freeze or a removal happens to a log.              *)
LEMMA LogMoves ==
    ASSUME ProcInv, ProcNext, NEW p \in Procs
    PROVE  \/ log'[p] = log[p]
           \/ \E n \in Nat : log'[p] = Appended(log[p], n)
           \/ log'[p] = Frozen(log[p])
           \/ log'[p] = Closed(log[p])
<1> USE DEF ProcInv, ProcTyped, start, ended, forgetting
<1>1. ASSUME NEW q \in Procs, Start(q)
      PROVE  log'[p] = log[p] \/ log'[p] = Closed(log[p])
  BY <1>1 DEF Start
<1>2. ASSUME NEW q \in Procs, Pump(q)
      PROVE  log'[p] = log[p] \/ \E n \in Nat : log'[p] = Appended(log[p], n)
  BY <1>2 DEF Pump
<1>3. ASSUME NEW q \in Procs, PumpBreaks(q) \/ Drained(q) \/ Discard(q)
      PROVE  log'[p] = log[p] \/ log'[p] = Frozen(log[p]) \/ log'[p] = Closed(log[p])
  BY <1>3 DEF PumpBreaks, Drained, Discard
<1>4. CASE \/ \E q \in Procs : \/ Spawned(q) \/ ProcRegistered(q) \/ StartFails(q) \/ MainExits(q)
                               \/ Reap(q) \/ StdinClosed(q) \/ Announced(q) \/ Read(q)
                               \/ WriteStdin(q) \/ WriteEnds(q) \/ Signal(q) \/ Remove(q) \/ Forget(q)
           \/ ReaderChecks \/ ReaderTimesOut
  BY <1>4 DEF Spawned, ProcRegistered, StartFails, MainExits, Reap, StdinClosed, Announced, Read,
     WriteStdin, WriteEnds, Signal, Remove, Forget, ReaderChecks, ReaderTimesOut
<1> QED
  BY <1>1, <1>2, <1>3, <1>4 DEF ProcNext, Watcher, WriteGivesUp

(* Every step keeps the types of the processes.                              *)
LEMMA ProcTypedStep ==
    ASSUME ProcInv, ProcNext
    PROVE  ProcTyped'
<1> USE DEF start, ended, forgetting
<1>0. ProcTyped
  BY DEF ProcInv
<1>1. \A p \in Procs : log'[p] \in Logs
  <2> SUFFICES ASSUME NEW p \in Procs PROVE log'[p] \in Logs
    OBVIOUS
  <2>1. log[p] \in Logs /\ SegmentsSound(log[p])
    BY DEF ProcInv, ProcTyped, LogsSound
  <2>2. Frozen(log[p]) \in Logs
    BY <2>1 DEF Frozen, Logs
  <2>3. Closed(log[p]) \in Logs
    <3>1. <<>> \in Seq(Nat)
      BY EmptySeq
    <3> QED
      BY <2>1, <3>1 DEF Closed, Logs
  <2> QED
    BY <2>1, <2>2, <2>3, LogMoves, AppendedSound
<1>2. log' = [p \in Procs |-> log'[p]]
  <2>1. log = [p \in Procs |-> log[p]]
    BY <1>0 DEF ProcTyped
  <2>2. UNCHANGED log => log' = [p \in Procs |-> log'[p]]
    BY <2>1
  <2>3. ASSUME NEW q \in Procs, Start(q) \/ Pump(q) \/ PumpBreaks(q) \/ Drained(q) \/ Discard(q)
        PROVE  log' = [p \in Procs |-> log'[p]]
    BY <1>0, <2>3 DEF Start, Pump, PumpBreaks, Drained, Discard, ProcTyped
  <2> QED
    BY <2>2, <2>3 DEF ProcNext, Watcher, WriteGivesUp, Spawned, ProcRegistered, StartFails,
       MainExits, Reap, StdinClosed, Announced, Read, WriteStdin, WriteEnds, Signal, Remove,
       Forget, ReaderChecks, ReaderTimesOut
<1>3. log' \in [Procs -> Logs]
  <2> DEFINE f == log'
  <2>1. f = [p \in Procs |-> f[p]] /\ \A p \in Procs : f[p] \in Logs
    BY <1>1, <1>2
  <2> HIDE DEF f
  <2>2. f \in [Procs -> Logs]
    BY <2>1
  <2> QED
    BY <2>2 DEF f
<1>4. ASSUME NEW q \in Procs, \/ Start(q) \/ Spawned(q) \/ ProcRegistered(q) \/ StartFails(q)
                              \/ Drained(q) \/ Forget(q)
      PROVE  /\ state' \in [Procs -> {"none", "starting", "running", "failed", "exited", "killed"}]
             /\ reg' \subseteq Procs /\ told' \in [Procs -> Nat]
  <2>1. log[q].size \in Nat
    BY <1>0 DEF ProcTyped, Logs
  <2> QED
    BY <1>0, <1>4, <2>1 DEF ProcTyped, Start, Spawned, ProcRegistered, StartFails, Drained, Forget
<1>5. CASE UNCHANGED <<state, reg, told>>
  BY <1>0, <1>3, <1>5 DEF ProcTyped
<1> QED
  BY <1>3, <1>4, <1>5 DEF ProcTyped, ProcNext, Watcher, WriteGivesUp, MainExits, Pump, PumpBreaks,
     Reap, StdinClosed, Announced, Read, WriteStdin, WriteEnds, Signal, Remove, Discard,
     ReaderChecks, ReaderTimesOut

(* A start leaves no other run, and what it starts stays registered.         *)
LEMMA StartsSoundStep ==
    ASSUME ProcInv, ProcNext
    PROVE  StartsSound'
<1> USE ProcsAssumption DEF start, ended, forgetting
<1>0. ProcTyped /\ StartsSound
  BY DEF ProcInv
<1>1. ASSUME NEW q \in Procs, Start(q)
      PROVE  StartsSound'
  <2>1. startLock = Nobody /\ startLock' = q /\ reg' = {} /\ stopped' = stopped \union reg
        /\ state' = [state EXCEPT ![q] = "starting"] /\ reg \intersect RunningProcs = {}
    BY <1>1 DEF Start, StartsAlone
  <2>2. \A p \in Procs \ stopped : state[p] # "running"
    BY <1>0, <2>1 DEF StartsSound, RunningProcs
  <2>3. \A p \in Procs : state[p] # "starting"
    BY <1>0, <2>1 DEF StartsSound
  <2> QED
    BY <1>0, <2>1, <2>2, <2>3 DEF StartsSound, ProcTyped
<1>2. ASSUME NEW q \in Procs, Spawned(q) \/ StartFails(q)
      PROVE  StartsSound'
  BY <1>0, <1>2 DEF Spawned, StartFails, StartsSound, ProcTyped
<1>3. ASSUME NEW q \in Procs, ProcRegistered(q)
      PROVE  StartsSound'
  BY <1>0, <1>3 DEF ProcRegistered, StartsSound, ProcTyped
<1>4. ASSUME NEW q \in Procs, Drained(q) \/ Forget(q)
      PROVE  StartsSound'
  BY <1>0, <1>4 DEF Drained, Forget, StartsSound, ProcTyped
<1>5. CASE UNCHANGED <<state, reg, startLock, stopped>>
  BY <1>0, <1>5 DEF StartsSound
<1> QED
  BY <1>1, <1>2, <1>3, <1>4, <1>5 DEF ProcNext, Watcher, WriteGivesUp, MainExits, Pump, PumpBreaks,
     Reap, StdinClosed, Announced, Read, WriteStdin, WriteEnds, Signal, Remove, Discard,
     ReaderChecks, ReaderTimesOut

(* A frozen log keeps its size, and the log of what is over is frozen.       *)
LEMMA LogsSoundStep ==
    ASSUME ProcInv, ProcNext
    PROVE  LogsSound'
<1> USE DEF start, ended, forgetting
<1> SUFFICES ASSUME NEW p \in Procs
             PROVE  /\ SegmentsSound(log'[p])
                    /\ p \in Over' => log'[p].frozen /\ log'[p].size = told'[p]
  BY DEF LogsSound, SegmentsSound
<1>0. ProcTyped /\ SegmentsSound(log[p]) /\ log[p] \in Logs
      /\ (p \in Over => log[p].frozen /\ log[p].size = told[p])
  BY DEF ProcInv, LogsSound, ProcTyped
<1>1. /\ Frozen(log[p]).segs = log[p].segs /\ Frozen(log[p]).size = log[p].size
      /\ Frozen(log[p]).frozen
  BY <1>0 DEF Frozen, Logs
<1>2. /\ Closed(log[p]).segs = <<>> /\ Closed(log[p]).size = log[p].size
      /\ Closed(log[p]).frozen
  BY <1>0 DEF Closed, Logs
<1>3. SegmentsSound(log'[p])
  <2>1. SegmentsSound(Frozen(log[p]))
    BY <1>0, <1>1 DEF SegmentsSound
  <2>2. SegmentsSound(Closed(log[p]))
    <3>1. Len(<<>>) = 0 /\ 0 <= 2
      OBVIOUS
    <3> QED
      BY <1>2, <3>1 DEF SegmentsSound
  <2> QED
    BY <1>0, <2>1, <2>2, LogMoves, AppendedSound
<1>4. log[p].frozen => log'[p].frozen /\ log'[p].size = log[p].size
  BY <1>0, <1>1, <1>2, LogMoves, AppendedSound
<1>5. CASE Drained(p)
  <2>1. log'[p] = Frozen(log[p]) /\ told'[p] = log[p].size
    BY <1>0, <1>5 DEF Drained, ProcTyped
  <2> QED
    BY <1>1, <1>3, <2>1
<1>6. CASE ~Drained(p)
  <2>1. told'[p] = told[p] /\ (p \in Over' => p \in Over)
    <3>1. ASSUME NEW q \in Procs, \/ Start(q) \/ Spawned(q) \/ StartFails(q) \/ (Drained(q) /\ q # p)
          PROVE  told'[p] = told[p] /\ (p \in Over' => p \in Over)
      BY <1>0, <3>1 DEF Start, Spawned, StartFails, Drained, Over, ProcTyped
    <3>2. CASE UNCHANGED <<state, told>>
      BY <3>2 DEF Over
    <3> QED
      BY <1>6, <3>1, <3>2 DEF ProcNext, Watcher, WriteGivesUp, ProcRegistered, MainExits, Pump,
         PumpBreaks, Reap, StdinClosed, Announced, Read, WriteStdin, WriteEnds, Signal, Remove,
         Forget, Discard, ReaderChecks, ReaderTimesOut
  <2> QED
    BY <1>0, <1>3, <1>4, <2>1
<1> QED
  BY <1>5, <1>6

(* The conjunction is inductive.                                             *)
LEMMA ProcInductive ==
    /\ ProcInit => ProcInv
    /\ ProcInv /\ [ProcNext]_procVars => ProcInv'
<1>1. ASSUME ProcInit PROVE ProcInv
  <2>1. /\ NewLog \in Logs /\ NewLog.segs = <<0>> /\ NewLog.size = 0
    BY DEF NewLog, Logs
  <2>2. SegmentsSound(NewLog)
    <3>1. Len(<<0>>) = 1 /\ <<0>>[1] = 0 /\ 1 <= 2 /\ 1 # 0 /\ 1 # 2
      OBVIOUS
    <3> QED
      BY <2>1, <3>1, Zenon DEF SegmentsSound
  <2>3. ProcTyped /\ StartsSound
    BY <1>1, <2>1 DEF ProcInit, ProcTyped, StartsSound
  <2>4. LogsSound
    BY <1>1, <2>2 DEF ProcInit, LogsSound, Over
  <2> QED
    BY <2>3, <2>4 DEF ProcInv
<1>2. ASSUME ProcInv, ProcNext PROVE ProcInv'
  BY <1>2, ProcTypedStep, StartsSoundStep, LogsSoundStep DEF ProcInv
<1>3. ASSUME ProcInv, UNCHANGED procVars PROVE ProcInv'
  BY <1>3 DEF procVars, ended, start, forgetting, ProcInv, ProcTyped, StartsSound, LogsSound, Over,
     SegmentsSound
<1> QED
  BY <1>1, <1>2, <1>3

(* No two runs of one name are started or running at once, whatever starts,  *)
(* stops, DELETEs and failures overlap.                                      *)
THEOREM OneEngineEver == ProcSpec => []OneEngine
<1>1. ProcInv => OneEngine
  <2> SUFFICES ASSUME ProcInv PROVE OneEngine
    OBVIOUS
  <2> DEFINE S == {p \in Procs : state[p] \in {"starting", "running"}} \ stopped
  <2>1. \A p, q \in S : p = q
    BY ProcsAssumption DEF ProcInv, ProcTyped, StartsSound
  <2> HIDE DEF S
  <2>2. Cardinality(S) <= 1
    <3>1. CASE S = {}
      <4>1. Cardinality({}) = 0
        BY FS_EmptySet
      <4> QED
        BY <3>1, <4>1
    <3>2. CASE S # {}
      <4> PICK p \in S : TRUE
        BY <3>2
      <4>1. S = {p}
        BY <2>1
      <4>2. Cardinality({p}) = 1
        BY FS_Singleton
      <4> QED
        BY <4>1, <4>2
    <3> QED
      BY <3>1, <3>2
  <2> QED
    BY <2>2 DEF S, OneEngine
<1> QED
  BY <1>1, ProcInductive, PTL DEF ProcSpec

(* The last Retain bytes stay readable for every Retain and every sequence   *)
(* of writes, and the size told with the end of a run stands.                *)
THEOREM LogsStaySound == ProcSpec => []LogsAreSound
<1>1. ProcInv => LogsAreSound
  <2> SUFFICES ASSUME ProcInv, NEW p \in Procs
               PROVE  /\ log[p].segs # <<>> =>
                           log[p].segs[1] <= (IF log[p].size > Retain THEN log[p].size - Retain ELSE 0)
                      /\ p \in Over => log[p].size = told[p]
    BY DEF LogsAreSound, RecentBytesReadable, EndedSizeStands, Over
  <2>1. log[p] \in Logs /\ SegmentsSound(log[p]) /\ (p \in Over => log[p].size = told[p])
    BY DEF ProcInv, ProcTyped, LogsSound
  <2>2. log[p].size \in Nat /\ log[p].segs \in Seq(Nat) /\ Len(log[p].segs) \in Nat
    BY <2>1, LenProperties DEF Logs
  <2>3. ASSUME log[p].segs # <<>>
        PROVE  log[p].segs[1] <= (IF log[p].size > Retain THEN log[p].size - Retain ELSE 0)
    <3>1. Len(log[p].segs) \in Nat \ {0}
      BY <2>2, <2>3, EmptySeq
    <3>2. Len(log[p].segs) = 1 \/ Len(log[p].segs) = 2
      <4>1. \A k \in Nat \ {0} : k <= 2 => k = 1 \/ k = 2
        OBVIOUS
      <4> QED
        BY <2>1, <3>1, <4>1, Zenon DEF SegmentsSound
    <3>3. CASE Len(log[p].segs) = 1
      <4>1. log[p].segs[1] = 0
        BY <2>1, <3>3 DEF SegmentsSound
      <4> QED
        BY <2>2, <4>1, ProcsAssumption
    <3>4. CASE Len(log[p].segs) = 2
      <4>1. log[p].segs[1] + Retain <= log[p].segs[2] /\ log[p].segs[2] <= log[p].size
        BY <2>1, <3>4 DEF SegmentsSound
      <4>2. 1 \in 1 .. 2 /\ 2 \in 1 .. 2
        OBVIOUS
      <4>3. log[p].segs[1] \in Nat /\ log[p].segs[2] \in Nat
        BY <2>2, <3>4, <4>2, ElementOfSeq
      <4>4. \A a, b, n \in Nat : a + Retain <= b /\ b <= n =>
                                   a <= (IF n > Retain THEN n - Retain ELSE 0)
        BY ProcsAssumption
      <4> QED
        BY <2>2, <4>1, <4>3, <4>4
    <3> QED
      BY <3>2, <3>3, <3>4
  <2> QED
    BY <2>1, <2>3
<1> QED
  BY <1>1, ProcInductive, PTL DEF ProcSpec
=============================================================================
