---------------------------- MODULE TerminalJobs -----------------------------
(* The terminal jobs inside an instance (images/ubuntu/app/tools/bash.py):   *)
(* every command is a tmux window; a supervisor polls the windows, settles   *)
(* what ended and stops what is overdue; a tracker and /activity scan the    *)
(* marked processes.  Every await of the service is a point where the others *)
(* run; tmux and the kernel act between them.                                *)
EXTENDS Naturals, FiniteSets

CONSTANTS
    Jobs,      \* job ids, each submitted at most once
    Timed,     \* those with a timeout
    MaxLive,   \* MAX_LIVE_WINDOWS
    MaxEvents, \* bound: calls of kill and restart, cuts, closed windows
               \* and exits that leave processes behind
    NoJob      \* nobody holds the submit lock

ASSUME TerminalAssumption ==
    Timed \subseteq Jobs /\ MaxLive \in Nat \ {0} /\ MaxEvents \in Nat /\ NoJob \notin Jobs

VARIABLES
    status,   \* Job.status, or how far the start is; "cut" is a start without a record
    reason,   \* jobs with a kill_reason: timeout, kill, restart or window_closed
    pane,     \* its tmux window: asked for, live, dead (remain-on-exit) or gone
    group,    \* the process group of the wrapper: "rest" is what it left running
    strays,   \* jobs with a live process that left the group (setsid)
    origin,   \* jobs with an .origin file
    ends,     \* jobs with an .end file, or an end in memory
    lock,     \* _submit_lock
    late,     \* jobs past their timeout
    stopping, \* _terminate tasks in their grace period
    sweeps,   \* _sweep_group tasks
    snapshot, \* the supervisor's list of windows, and the jobs its round still has to visit
    activity, \* the one /activity call that is followed
    events,   \* events so far
    past      \* history: settled while the window lived; booked by an older scan

termVars == <<status, reason, pane, group, strays, origin, ends, lock, late, stopping, sweeps,
              snapshot, activity, events, past>>
records == <<status, reason>>
files == <<origin, ends>>
os == <<pane, group, strays>>
tasks == <<late, stopping, sweeps, snapshot>>

Event == events < MaxEvents /\ events' = events + 1

NoSnapshot == [at |-> "none", live |-> {}, dead |-> {}, todo |-> {}]
NoActivity == [pc |-> "idle", live |-> 0, marked |-> {}, before |-> {}, unborn |-> {}]

Is(s) == {j \in Jobs : status[j] = s}
RunningJobs == Is("running")
FinishedJobs == Is("exited") \union Is("killed")
InPane(s) == {j \in Jobs : pane[j] = s}

\* scan_marked_processes: the marker is inherited by all that the job starts.
Marked == {j \in Jobs : group[j] \in {"alive", "rest"}} \union strays

-----------------------------------------------------------------------------
(* Submission: one at a time, from the count of windows to the new window.   *)

\* mutant: the count is not taken under the lock.
Unlocked(j) == TRUE
MaySubmit(j) == lock = NoJob

\* _reap_windows counts; the origin is on disk before the process.
Submit(j) ==
    /\ MaySubmit(j) /\ status[j] = "none"
    /\ Cardinality(InPane("live")) < MaxLive
    /\ status' = [status EXCEPT ![j] = "starting"]
    /\ pane' = [i \in Jobs |-> IF i = j THEN "asked"
                               ELSE IF pane[i] = "dead" /\ i \in FinishedJobs THEN "gone"
                               ELSE pane[i]]
    /\ origin' = origin \union {j}
    /\ lock' = j
    /\ UNCHANGED <<reason, group, strays, ends, tasks, activity, events, past>>

WindowOpens(j) ==
    /\ pane[j] = "asked"
    /\ pane' = [pane EXCEPT ![j] = "live"]
    /\ UNCHANGED <<records, group, strays, files, lock, tasks, activity, events, past>>

JobRegistered(j) ==
    /\ status[j] = "starting" /\ pane[j] \notin {"asked", "none"}
    /\ status' = [status EXCEPT ![j] = "running"]
    /\ lock' = NoJob
    /\ UNCHANGED <<reason, os, files, tasks, activity, events, past>>

\* tmux fails, or the streaming request is cancelled while a thread waits for
\* tmux, which may still open the window.
StartCut(j) ==
    /\ Event
    /\ status[j] = "starting"
    /\ status' = [status EXCEPT ![j] = "cut"]
    /\ \/ pane[j] = "asked" /\ pane' = [pane EXCEPT ![j] = "none"]
       \/ UNCHANGED pane
    /\ origin' = origin \ {j}
    /\ lock' = NoJob
    /\ UNCHANGED <<reason, group, strays, ends, tasks, activity, past>>

-----------------------------------------------------------------------------
(* The processes (external).                                                 *)

Born(j) ==
    /\ pane[j] = "live" /\ group[j] = "none"
    /\ group' = [group EXCEPT ![j] = "alive"]
    /\ UNCHANGED <<records, pane, strays, files, lock, tasks, activity, events, past>>

DeadPane(J) == [j \in Jobs |-> IF j \in J /\ pane[j] = "live" THEN "dead" ELSE pane[j]]

\* The wrapper exits; background processes may stay, in its group or not.
Exits(j) ==
    /\ group[j] = "alive"
    /\ pane' = DeadPane({j})
    /\ \/ /\ group' = [group EXCEPT ![j] = "over"]
          /\ UNCHANGED <<strays, events>>
       \/ /\ Event
          /\ \E g \in {"rest", "over"} : group' = [group EXCEPT ![j] = g]
          /\ strays' \in {strays, strays \union {j}}
    /\ UNCHANGED <<records, files, lock, tasks, activity, past>>

LeftoversEnd(j) ==
    /\ \/ group[j] = "rest" /\ group' = [group EXCEPT ![j] = "over"] /\ UNCHANGED strays
       \/ j \in strays /\ strays' = strays \ {j} /\ UNCHANGED group
    /\ UNCHANGED <<records, pane, files, lock, tasks, activity, events, past>>

\* A command closes a window with tmux; its processes may ignore the hangup.
CloseWindow(j) ==
    /\ Event
    /\ pane[j] = "live"
    /\ pane' = [pane EXCEPT ![j] = "gone"]
    /\ group' \in {group, [group EXCEPT ![j] = "over"]}
    /\ group'[j] # "none"
    /\ UNCHANGED <<records, strays, files, lock, tasks, activity, past>>

-----------------------------------------------------------------------------
(* Signals.  SIGINT and SIGTERM ask; what they do is an exit or nothing.     *)

\* SIGKILL of a group; before its pid is on file the window is closed instead.
KilledGroup(J) == [j \in Jobs |-> IF j \in J THEN "over" ELSE group[j]]
KilledPane(J) == [j \in Jobs |-> CASE j \in J /\ group[j] = "none" -> "gone"
                                   [] j \in J /\ pane[j] = "live" -> "dead"
                                   [] OTHER -> pane[j]]
SigKill(J) == group' = KilledGroup(J) /\ pane' = KilledPane(J)

Kill(j) ==
    /\ Event
    /\ j \in RunningJobs
    /\ reason' = reason \union {j}
    /\ \/ SigKill({j})
       \/ UNCHANGED <<group, pane>>
    /\ UNCHANGED <<status, strays, files, lock, tasks, activity, past>>

\* restart of the session: every recorded job is killed, every window closed.
Reset ==
    /\ Event
    /\ RunningJobs # {}
    /\ reason' = reason \union RunningJobs
    /\ group' = [j \in Jobs |-> IF j \in RunningJobs \/ pane[j] = "live" THEN "over" ELSE group[j]]
    /\ pane' = [j \in Jobs |-> IF pane[j] \in {"live", "dead"} THEN "gone" ELSE pane[j]]
    /\ UNCHANGED <<status, strays, files, lock, tasks, activity, past>>

Expire(j) ==
    /\ j \in Timed \intersect RunningJobs
    /\ late' = late \union {j}
    /\ UNCHANGED <<records, os, files, lock, stopping, sweeps, snapshot, activity, events, past>>

\* mutant: the grace period ends with nothing.
NothingKilled(j) == {}
KilledAfterGrace(j) == {j} \intersect RunningJobs

\* _terminate: SIGINT when it starts, SIGKILL when the grace period ends.
GraceOver(j) ==
    /\ j \in stopping
    /\ stopping' = stopping \ {j}
    /\ SigKill(KilledAfterGrace(j))
    /\ UNCHANGED <<records, strays, files, lock, late, sweeps, snapshot, activity, events, past>>

\* _sweep_group: what the killed job left in its group.
Sweep(j) ==
    /\ j \in sweeps
    /\ sweeps' = sweeps \ {j}
    /\ IF group[j] \in {"alive", "rest"} THEN SigKill({j}) ELSE UNCHANGED <<group, pane>>
    /\ UNCHANGED <<records, strays, files, lock, late, stopping, snapshot, activity, events, past>>

-----------------------------------------------------------------------------
(* The supervisor: a list of windows, then a round over what is running now. *)

SuperviseList ==
    /\ snapshot.at = "none" /\ RunningJobs # {}
    /\ snapshot' = [NoSnapshot EXCEPT !.at = "listed", !.live = InPane("live") \ FinishedJobs,
                                      !.dead = InPane("dead") \ FinishedJobs]
    /\ UNCHANGED <<records, os, files, lock, late, stopping, sweeps, activity, events, past>>

\* The round visits what runs when it starts.
ToVisit == IF snapshot.at = "listed" THEN RunningJobs ELSE snapshot.todo

\* mutant: only the wrapper of a killed job is waited for.
NothingSwept(J) == {}
Swept(J) == {j \in J : group[j] \in {"alive", "rest"}}

\* _settle, with the reason the record has by then; a window that is missing
\* is one.
Settle(j) ==
    /\ reason' = IF j \in snapshot.dead THEN reason ELSE reason \union {j}
    /\ status' = [status EXCEPT ![j] = IF j \in reason' THEN "killed" ELSE "exited"]
    /\ pane' = IF j \in snapshot.dead THEN [pane EXCEPT ![j] = "gone"] ELSE pane
    /\ sweeps' = sweeps \union Swept({i \in {j} : status'[i] = "killed"})
    /\ late' = late \ {j}
    /\ past' = [past EXCEPT !.early = @ \union {i \in {j} : pane[i] = "live"}]
    /\ UNCHANGED stopping

\* _terminate starts for a job past its timeout.
Visited(j) ==
    /\ reason' = reason \union ({j} \intersect late)
    /\ stopping' = stopping \union ({j} \intersect late)
    /\ UNCHANGED <<status, pane, sweeps, late, past>>

\* One job of the round: closing a dead window is awaited, so that others run
\* before the next job.  The few rounds that wait for an exit status are left out.
SuperviseJob(j) ==
    /\ snapshot.at # "none" /\ j \in ToVisit
    /\ snapshot' = IF ToVisit = {j} THEN NoSnapshot
                   ELSE [snapshot EXCEPT !.at = "round", !.todo = ToVisit \ {j}]
    /\ IF j \in snapshot.live THEN Visited(j) ELSE Settle(j)
    /\ UNCHANGED <<group, strays, files, lock, activity, events>>

-----------------------------------------------------------------------------
(* Ends, and /activity.                                                      *)

\* mutant: a job has ended when its window has.
WithoutWindow(J) == J
WithoutProcess(J) == J \ Marked

\* A finished job without a process gets none any more, unless it was settled
\* while its window lived (past.early): the scan and the note of the end are one
\* step.
Track ==
    /\ WithoutProcess(FinishedJobs \ ends) # {}
    /\ ends' = ends \union WithoutProcess(FinishedJobs \ ends)
    /\ UNCHANGED <<records, os, origin, lock, tasks, activity, events, past>>

ActivityList ==
    /\ activity.pc = "idle"
    /\ activity' = [NoActivity EXCEPT !.pc = "listed", !.live = Cardinality(InPane("live")),
                                      !.before = RunningJobs \union FinishedJobs]
    /\ UNCHANGED <<records, os, files, lock, tasks, past, events>>

ActivityScan ==
    /\ activity.pc = "listed"
    /\ activity' = [activity EXCEPT !.pc = "scanned", !.marked = Marked,
                                    !.unborn = {j \in Jobs : group[j] = "none"}]
    /\ UNCHANGED <<records, os, files, lock, tasks, past, events>>

\* ledger(): what has an origin and nothing alive in the scan ends now.
ActivityEnd ==
    LET gone == origin \ (ends \union activity.marked \union RunningJobs \union Is("starting")) IN
    /\ activity.pc = "scanned"
    /\ activity' = [NoActivity EXCEPT !.pc = "answered"]
    /\ ends' = ends \union gone
    /\ past' = [past EXCEPT !.unseen = @ \union (gone \intersect activity.unborn)]
    /\ UNCHANGED <<records, os, origin, lock, tasks, events>>

\* mutant: the detached processes are not counted.
CountedWithoutScan == Cardinality(RunningJobs) + activity.live
Counted == Cardinality(RunningJobs) + activity.live + Cardinality(activity.marked)

TermInit ==
    /\ status = [j \in Jobs |-> "none"] /\ reason = {}
    /\ pane = [j \in Jobs |-> "none"] /\ group = [j \in Jobs |-> "none"]
    /\ strays = {} /\ origin = {} /\ ends = {}
    /\ lock = NoJob
    /\ late = {} /\ stopping = {} /\ sweeps = {}
    /\ snapshot = NoSnapshot /\ activity = NoActivity
    /\ events = 0
    /\ past = [early |-> {}, unseen |-> {}]

Supervise == SuperviseList \/ \E j \in Jobs : SuperviseJob(j)

TermNext ==
    \/ \E j \in Jobs : Submit(j) \/ WindowOpens(j) \/ JobRegistered(j) \/ StartCut(j)
                       \/ Born(j) \/ Exits(j) \/ LeftoversEnd(j) \/ CloseWindow(j)
                       \/ Kill(j) \/ Expire(j) \/ GraceOver(j) \/ Sweep(j)
    \/ Reset \/ Supervise \/ Track
    \/ ActivityList \/ ActivityScan \/ ActivityEnd

\* The tasks of the event loop run on, and tmux answers the supervisor.  That
\* some timer goes off is less than the fairness of each.
Timers == \E j \in Jobs : GraceOver(j) \/ Sweep(j)
TermFairness == WF_termVars(Supervise) /\ WF_termVars(Timers)

TermSpec == TermInit /\ [][TermNext]_termVars /\ TermFairness
-----------------------------------------------------------------------------

\* However many submissions come at once, the live windows stay within the
\* limit; only a start cut off while tmux opens its window escapes the count
\* (bash.py:454).
WindowsAreBounded == Cardinality(InPane("live") \ Is("cut")) <= MaxLive

\* A recorded end means that no process of the job is alive, be it detached
\* (bash.py:712), unless the job was settled while its window lived, or
\* started after the scan that books it.
EndedMeansOver == (ends \ (past.early \union past.unseen)) \intersect Marked = {}

\* When /activity counts nothing, no job whose start had returned before the
\* question is alive, and none will be found later (routers/terminal.py:173).
IdleMeansIdle ==
    [][activity.pc = "scanned" /\ activity'.pc = "answered" /\ Counted = 0
         => activity.before \intersect Marked = {}]_termVars

\* A job past its timeout is settled (bash.py:556), whatever it ignores.
OverdueJobsSettle == \A j \in Timed : (j \in late) ~> (status[j] \in {"exited", "killed"})

\* Of a killed job's group nothing is left running (bash.py:603), unless it
\* was settled while its window lived and its process was still to come.
KilledGroupsEnd ==
    \A j \in Jobs : (status[j] = "killed" /\ j \notin past.early)
                        ~> (group[j] \in {"none", "over"})
=============================================================================
