----------------------------- MODULE EngineProcs -----------------------------
(* The long-lived processes inside an instance (tools/procs.py): one run of  *)
(* an engine per name, its output in a segmented log that readers follow by  *)
(* offset, its exit watched by a thread.  Pumps, watcher, readers, stdin     *)
(* writers and requests are threads that share the locks of the source.      *)
(* Procs are the runs under one name: other names share nothing with them.   *)
(* One output stands for stdout and stderr, which are alike.                 *)
EXTENDS Naturals, Sequences, FiniteSets, Folds, Functions

CONSTANTS
    Procs,      \* proc ids of the runs under one name, each started at most once
    Retain,     \* log_retain_bytes
    MaxBytes,   \* bound: bytes that the runs write together
    MaxCalls,   \* bound: reads, writes, signals, DELETEs, and failures of the pump
    Nobody      \* nobody holds the start lock; a reader of no proc

ASSUME ProcsAssumption == Retain \in Nat \ {0} /\ MaxBytes \in Nat /\ MaxCalls \in Nat /\ Nobody \notin Procs

VARIABLES
    state,      \* Proc.state, before it how far the start is
    reg,        \* _procs
    startLock,  \* _start_lock
    main,       \* procs whose main process lives; descendants may outlive it
    signaled,   \* Proc.signaled
    watch,      \* where the exit watcher is; past "wait", _reaped is set
    log,        \* size, starts of the segments, frozen
    told,       \* history: the size when the run ended
    writing,    \* procs whose stdin lock a blocked write holds
    stopped,    \* _stop of a forgotten proc
    removing,   \* DELETE calls that wait for the end
    calls,      \* calls so far
    reader      \* one reader: where it is, whose output, from which offset

procVars == <<state, reg, startLock, main, signaled, watch, log, told, writing,
              stopped, removing, calls, reader>>
start == <<reg, startLock>>
ended == <<state, told>>
forgetting == <<writing, stopped, removing>>

Call == calls < MaxCalls /\ calls' = calls + 1

NoReader == [pc |-> "idle", of |-> Nobody, cursor |-> 0]
Written == FoldFunction(LAMBDA l, n : n + l.size, 0, log)
NewLog == [size |-> 0, segs |-> <<0>>, frozen |-> FALSE]
RunningProcs == {p \in Procs : state[p] = "running"}
Over == {p \in Procs : state[p] \in {"exited", "killed"}}
Reaped == {p \in Procs : watch[p] \notin {"none", "wait"}}

-----------------------------------------------------------------------------
(* The log.                                                                  *)

\* mutant: the full segment is dropped with the next one opened.
RolledToOne(l) == [l EXCEPT !.segs = <<l.size>>]

\* A full segment is kept until the next one is full as well.
Rolled(l) ==
    LET segs == Append(l.segs, l.size)
    IN  [l EXCEPT !.segs = IF Len(segs) > 2 THEN Tail(segs) ELSE segs]

Appended(l, n) ==
    LET grown == [l EXCEPT !.size = @ + n] IN
    IF l.frozen THEN l
    ELSE IF grown.size - l.segs[Len(l.segs)] >= Retain THEN Rolled(grown) ELSE grown

\* mutant: the watcher leaves the log open to the pump.
LeftOpen(l) == l
Frozen(l) == [l EXCEPT !.frozen = TRUE]
Closed(l) == [l EXCEPT !.frozen = TRUE, !.segs = <<>>]

-----------------------------------------------------------------------------
(* Start, under the start lock, in a thread that no caller can cancel.       *)

\* mutant: starts of one name overlap.
StartsOverlap == TRUE
StartsAlone == startLock = Nobody

Start(p) ==
    /\ StartsAlone /\ state[p] = "none"
    /\ reg \intersect RunningProcs = {}
    /\ reg \intersect writing = {}
    /\ startLock' = p
    /\ state' = [state EXCEPT ![p] = "starting"]
    /\ reg' = {}
    /\ stopped' = stopped \union reg
    /\ log' = [q \in Procs |-> IF q \in reg THEN Closed(log[q]) ELSE log[q]]
    /\ UNCHANGED <<main, signaled, watch, told, writing, removing, calls, reader>>

Spawned(p) ==
    /\ state[p] = "starting"
    /\ state' = [state EXCEPT ![p] = "running"]
    /\ main' = main \union {p}
    /\ watch' = [watch EXCEPT ![p] = "wait"]
    /\ UNCHANGED <<start, signaled, log, told, forgetting, calls, reader>>

ProcRegistered(p) ==
    /\ startLock = p /\ state[p] # "starting"
    /\ startLock' = Nobody /\ reg' = reg \union {p}
    /\ UNCHANGED <<ended, main, signaled, watch, log, forgetting, calls, reader>>

StartFails(p) ==
    /\ state[p] = "starting"
    /\ state' = [state EXCEPT ![p] = "failed"]
    /\ startLock' = Nobody
    /\ UNCHANGED <<reg, main, signaled, watch, log, told, forgetting, calls, reader>>

-----------------------------------------------------------------------------
(* The processes (external), and the pump.                                   *)

MainExits(p) ==
    /\ p \in main /\ main' = main \ {p}
    /\ UNCHANGED <<ended, start, signaled, watch, log, forgetting, calls, reader>>

Woken(p) == IF reader.pc = "waiting" /\ reader.of = p THEN [reader EXCEPT !.pc = "check"]
            ELSE reader

\* Output is left in the pipe when the main process is over, and descendants
\* write more; the pump may have read some when it is told to stop.
Pump(p) ==
    /\ state[p] = "running" \/ watch[p] = "close"
    /\ \E n \in 1 .. MaxBytes - Written : log' = [log EXCEPT ![p] = Appended(@, n)]
    /\ reader' = IF log[p].frozen THEN reader ELSE Woken(p)
    /\ UNCHANGED <<ended, start, main, signaled, watch, forgetting, calls>>

\* What cannot be stored ends the run.
PumpBreaks(p) ==
    /\ Call
    /\ p \in RunningProcs /\ ~log[p].frozen
    /\ log' = [log EXCEPT ![p] = Frozen(@)]
    /\ main' = main \ {p}
    /\ UNCHANGED <<ended, start, signaled, watch, forgetting, reader>>

-----------------------------------------------------------------------------
(* The exit watcher.                                                         *)

WatchStep(p, from, to) == watch[p] = from /\ watch' = [watch EXCEPT ![p] = to]

Reap(p) ==
    /\ p \notin main /\ WatchStep(p, "wait", "drain")
    /\ UNCHANGED <<ended, start, main, signaled, log, forgetting, calls, reader>>

\* The pumps are done, or a descendant has held the pipes for DRAIN_GRACE.
Drained(p) ==
    /\ WatchStep(p, "drain", "close")
    /\ log' = [log EXCEPT ![p] = Frozen(@)]
    /\ told' = [told EXCEPT ![p] = log[p].size]
    /\ state' = [state EXCEPT ![p] = IF p \in signaled THEN "killed" ELSE "exited"]
    /\ UNCHANGED <<start, main, signaled, forgetting, calls, reader>>

StdinClosed(p) ==
    /\ p \notin writing /\ WatchStep(p, "close", "notify")
    /\ UNCHANGED <<ended, start, main, signaled, log, forgetting, calls, reader>>

Announced(p) ==
    /\ WatchStep(p, "notify", "done")
    /\ reader' = Woken(p)
    /\ UNCHANGED <<ended, start, main, signaled, log, forgetting, calls>>

-----------------------------------------------------------------------------
(* Readers, stdin, signals, DELETE.                                          *)

Read(p) ==
    /\ Call
    /\ reader.pc = "idle" /\ p \in reg
    /\ reader' = [pc |-> "check", of |-> p, cursor |-> IF reader.of = p THEN reader.cursor ELSE 0]
    /\ UNCHANGED <<ended, start, main, signaled, watch, log, forgetting>>

\* wait_until: judged, and enrolled among the waiters, under one lock.
ReaderChecks ==
    /\ reader.pc = "check"
    /\ reader' = IF reader.of \in RunningProcs /\ log[reader.of].size = reader.cursor
                 THEN [reader EXCEPT !.pc = "waiting"]
                 ELSE [reader EXCEPT !.pc = "idle", !.cursor = log[reader.of].size]
    /\ UNCHANGED <<ended, start, main, signaled, watch, log, forgetting, calls>>

ReaderTimesOut ==
    /\ reader.pc = "waiting"
    /\ reader' = [reader EXCEPT !.pc = "idle"]
    /\ UNCHANGED <<ended, start, main, signaled, watch, log, forgetting, calls>>

\* A write that fills the pipe.
WriteStdin(p) ==
    /\ Call
    /\ p \in (reg \intersect RunningProcs) \ writing
    /\ writing' = writing \union {p}
    /\ UNCHANGED <<ended, start, main, signaled, watch, log, stopped, removing,
                   reader>>

\* mutant: the writer waits for a reader of the pipe only.
GivesUpNever(p) == FALSE
GivesUp(p) == p \in Reaped \/ p \in stopped

\* Somebody reads the pipe, or nobody can any more: EPIPE.
WriteEnds(p) ==
    /\ p \in writing
    /\ writing' = writing \ {p}
    /\ UNCHANGED <<ended, start, main, signaled, watch, log, stopped, removing,
                   calls, reader>>

WriteGivesUp(p) == GivesUp(p) /\ WriteEnds(p)

\* The group dies, or does not mind; either way the end counts as a kill.
Signal(p) ==
    /\ Call
    /\ p \in reg \intersect RunningProcs
    /\ signaled' = IF p \in Reaped THEN signaled ELSE signaled \union {p}
    /\ \/ main' = main \ {p}
       \/ UNCHANGED main
    /\ UNCHANGED <<ended, start, watch, log, forgetting, reader>>

Remove(p) ==
    /\ Call
    /\ p \in reg \ removing
    /\ removing' = removing \union {p}
    /\ IF p \in RunningProcs
       THEN /\ signaled' = IF p \in Reaped THEN signaled ELSE signaled \union {p}
            /\ main' = main \ {p}
       ELSE UNCHANGED <<signaled, main>>
    /\ UNCHANGED <<ended, start, watch, log, writing, stopped, reader>>

\* After the end, or after REMOVE_WAIT; a write is stopped first.
Forget(p) ==
    /\ p \in removing
    /\ reg' = reg \ {p}
    /\ stopped' = stopped \union {p}
    /\ UNCHANGED <<ended, startLock, main, signaled, watch, log, writing, removing,
                   calls, reader>>

Discard(p) ==
    /\ p \in removing \intersect stopped /\ p \notin writing
    /\ removing' = removing \ {p}
    /\ log' = [log EXCEPT ![p] = Closed(@)]
    /\ UNCHANGED <<ended, start, main, signaled, watch, writing, stopped, calls, reader>>

ProcInit ==
    /\ state = [p \in Procs |-> "none"] /\ reg = {} /\ startLock = Nobody
    /\ main = {} /\ signaled = {}
    /\ watch = [p \in Procs |-> "none"]
    /\ log = [p \in Procs |-> NewLog] /\ told = [p \in Procs |-> 0]
    /\ writing = {} /\ stopped = {} /\ removing = {} /\ calls = 0
    /\ reader = NoReader

Watcher(p) == Reap(p) \/ Drained(p) \/ StdinClosed(p) \/ Announced(p)

ProcNext ==
    \/ \E p \in Procs :
         \/ Start(p) \/ Spawned(p) \/ ProcRegistered(p) \/ StartFails(p)
         \/ MainExits(p) \/ Pump(p) \/ PumpBreaks(p)
         \/ Watcher(p)
         \/ Read(p) \/ WriteStdin(p) \/ WriteEnds(p) \/ WriteGivesUp(p)
         \/ Signal(p) \/ Remove(p) \/ Forget(p) \/ Discard(p)
    \/ ReaderChecks \/ ReaderTimesOut

\* The threads of the service run; no process has to exit or to read.  Some
\* thread's progress is less than the fairness of each.
Threads == ReaderChecks \/ \E p \in Procs : Watcher(p) \/ WriteGivesUp(p)
ProcFairness == WF_procVars(Threads)

ProcSpec == ProcInit /\ [][ProcNext]_procVars /\ ProcFairness
-----------------------------------------------------------------------------

\* At most one run of a name is being started or running, but for a run that
\* a DELETE has given up waiting for (procs.py:584).
OneEngine == Cardinality({p \in Procs : state[p] \in {"starting", "running"}} \ stopped) <= 1

RecentBytesReadable ==
    \A p \in Procs : log[p].segs # <<>> =>
        log[p].segs[1] <= (IF log[p].size > Retain THEN log[p].size - Retain ELSE 0)

EndedSizeStands == \A p \in Over : log[p].size = told[p]

\* The segments always hold the last Retain bytes, whatever the sizes of the
\* writes (procs.py:268), and the size told with the end of a run never grows,
\* although a descendant still writes (procs.py:391).
LogsAreSound == RecentBytesReadable /\ EndedSizeStands

\* A reader that waits on a run that has ended is woken, although a stdin
\* write holds the lock that the watcher needs first (procs.py:397).
EndReachesReader ==
    (reader.pc = "waiting" /\ reader.of \in Over) ~> (reader.pc # "waiting")
=============================================================================
