----------------------------- MODULE JobLedger ------------------------------
(* The origins of one work area's terminal jobs (manager/wa_jobs.py): what   *)
(* the Hub notes when it forwards a start, what it merges from the           *)
(* container's reports, and what /jobs answers.  The ledger's methods do not *)
(* await; requests, reports, discards and crashes come between them.         *)
EXTENDS Naturals, FiniteSets

CONSTANTS
    Jobs,        \* job ids, each started at most once
    Sandboxes,   \* the instances that the work area gets, one after another
    Observers,   \* activity calls that may run at once
    MaxEvents,   \* bound: questions asked of containers, and crashes of the Hub
    None         \* no instance, no token

ASSUME LedgerAssumption == MaxEvents \in Nat /\ None \notin Sandboxes \union Nat

VARIABLES
    jobs,        \* job -> where it is, how far, whether its origin is on file
    conts,       \* instances whose container runs
    inst,        \* the registered instance: its id and status
    discarding,  \* instances being discarded
    ledger,      \* the file: jobs -> open, ended or absent, with or without origin;
                 \* instances with unobserved starts; gaps, by instance
    seq,         \* _start_seq
    inFlight,    \* _in_flight
    proxied,     \* jobs whose start the proxy still awaits
    obs,         \* the observers
    answer,      \* the last answer of /jobs
    aged,        \* instances gone for longer than the retention
    events,      \* questions and crashes so far
    past         \* history: jobs cut off from their request, or misjudged

jobVars == <<jobs, conts, inst, discarding, aged, proxied>>
ledgerVars == <<jobVars, ledger, seq, inFlight, obs, answer, events, past>>

NoJob == [at |-> None, state |-> "none", origin |-> TRUE]
NoEntry == [end |-> "absent", origin |-> FALSE]
NoObs == [pc |-> "idle", of |-> None, token |-> None, kind |-> "activity", live |-> {},
          before |-> {}, returned |-> {}, running |-> {}, over |-> {}, bare |-> {}]
NoAnswer == [known |-> FALSE, returned |-> {}]

Of(s) == {j \in Jobs : jobs[j].at = s}
Launched == {j \in Jobs : jobs[j].state \in {"running", "over"}}
Entry(j) == ledger.jobs[j]
Entered == {j \in Jobs : Entry(j).end # "absent"}

-----------------------------------------------------------------------------
(* Starts: announced on disk before the container is asked.                  *)

StartBegin(j) ==
    /\ inst.status = "ready" /\ jobs[j].state = "none"
    /\ jobs' = [jobs EXCEPT ![j].at = inst.id, ![j].state = "asked"]
    /\ proxied' = proxied \union {j}
    /\ seq' = [seq EXCEPT ![inst.id] = @ + 1]
    /\ inFlight' = [inFlight EXCEPT ![inst.id] = @ + 1]
    /\ ledger' = [ledger EXCEPT !.unobserved = @ \union {inst.id}]
    /\ UNCHANGED <<conts, inst, discarding, aged, obs, events, past>> /\ answer' = NoAnswer

\* The container starts the job; its origin file may be missing (external).
Launch(j) ==
    /\ jobs[j].state = "asked" /\ jobs[j].at \in conts
    /\ \E o \in BOOLEAN : jobs' = [jobs EXCEPT ![j].state = "running", ![j].origin = o]
    /\ UNCHANGED <<conts, inst, discarding, aged, proxied, ledger, seq, inFlight, obs,
                   events, past>> /\ answer' = NoAnswer

\* The count may have been reset by a settlement since.
OneLess(n) == IF n > 0 THEN n - 1 ELSE 0

\* The request ends: with the job launched, refused, or cut off before.
StartEnd(j) ==
    LET s == jobs[j].at IN
    /\ j \in proxied
    /\ proxied' = proxied \ {j}
    /\ inFlight' = [inFlight EXCEPT ![s] = OneLess(@)]
    /\ \/ jobs[j].state # "asked" /\ UNCHANGED <<jobs, past>>
       \/ /\ jobs[j].state = "asked"
          /\ jobs' = [jobs EXCEPT ![j].state = "refused"]
          /\ UNCHANGED past
       \/ /\ jobs[j].state = "asked"
          /\ past' = [past EXCEPT !.cut = @ \union {j}]
          /\ UNCHANGED jobs
    /\ UNCHANGED <<conts, inst, discarding, aged, ledger, seq, obs, events>> /\ answer' = NoAnswer

Finish(j) ==
    /\ jobs[j].state = "running"
    /\ jobs' = [jobs EXCEPT ![j].state = "over"]
    /\ UNCHANGED <<conts, inst, discarding, aged, proxied, ledger, seq, inFlight, obs,
                   events, past>> /\ answer' = NoAnswer

-----------------------------------------------------------------------------
(* The ledger's own operations, as functions of the file l.                 *)

Ended(l, J) ==
    [l EXCEPT !.jobs = [j \in Jobs |->
        IF j \in J /\ @[j].end = "open" THEN [@[j] EXCEPT !.end = "ended"] ELSE @[j]]]

\* _prune: what ended longer ago than the retention is forgotten.
Pruned(l) ==
    [l EXCEPT
       !.jobs = [j \in Jobs |-> IF @[j].end = "ended" /\ jobs[j].at \in aged THEN NoEntry ELSE @[j]],
       !.gaps = @ \ aged]

\* mutant: the mark goes without a gap.
SettledWithoutGap(l, S) ==
    [Ended(l, UNION {Of(s) : s \in S}) EXCEPT !.unobserved = @ \ S]

\* _settle: the open jobs end, an unobserved start becomes a gap.
Settled(l, S) ==
    [Ended(l, UNION {Of(s) : s \in S}) EXCEPT
       !.gaps = @ \union (l.unobserved \intersect S),
       !.unobserved = @ \ S]

SettleSandbox(s) ==
    /\ ledger' = Settled(ledger, {s})
    /\ seq' = [seq EXCEPT ![s] = 0]
    /\ inFlight' = [inFlight EXCEPT ![s] = 0]

\* mutant: the latest record stands.
NotedLatest(l, r) ==
    [l EXCEPT !.jobs = [j \in Jobs |->
        CASE j \in r.running -> [end |-> "open", origin |-> TRUE]
          [] j \in r.over -> [end |-> "ended", origin |-> TRUE]
          [] @[j].end = "absent" /\ j \in r.bare -> [end |-> "open", origin |-> FALSE]
          [] OTHER -> @[j]]]

\* The report's records: the first one stands, the ended stay ended.
Noted(l, r) ==
    [l EXCEPT !.jobs = [j \in Jobs |->
        CASE @[j].end = "absent" /\ j \in r.running \union r.over ->
               [end |-> IF j \in r.over THEN "ended" ELSE "open", origin |-> TRUE]
          [] @[j].end = "absent" /\ j \in r.bare -> [end |-> "open", origin |-> FALSE]
          [] @[j].end = "open" /\ j \in r.over -> [@[j] EXCEPT !.end = "ended"]
          [] OTHER -> @[j]]]

\* mutant: jobs without an origin do not count as reported.
SilentIfBare(r) == Of(r.of) \ (r.running \union r.over)
Silent(r) == Of(r.of) \ (r.running \union r.over \union r.bare)

\* mutant: only what is in flight at the merge counts.
CoversNow(r) == inFlight[r.of] = 0

\* A start that began or ended after the token was taken is not covered.
Covers(r) == r.token # None /\ r.token = seq[r.of]

Merged(l, r) ==
    LET m == Pruned(Ended(Noted(l, r), Silent(r))) IN
    IF Covers(r) THEN [m EXCEPT !.unobserved = @ \ {r.of}] ELSE m

\* snapshot: instances that are not live are settled on the way.
Dead(l, live) ==
    {s \in Sandboxes : s \in l.unobserved \/ \E j \in Of(s) : l.jobs[j].end = "open"} \ live
Snapshot(l, live) == Pruned(Settled(l, Dead(l, live)))
Complete(l) == l.gaps = {} /\ \A j \in Jobs : l.jobs[j].end # "absent" => l.jobs[j].origin

-----------------------------------------------------------------------------
(* Observations: the token, the container's answer, the merge.               *)

Token(s) == IF inFlight[s] > 0 THEN None ELSE seq[s]

Observe(o, s, kind) ==
    /\ events < MaxEvents /\ events' = events + 1
    /\ obs' = [obs EXCEPT ![o] =
         [NoObs EXCEPT !.pc = "asked", !.of = s, !.token = Token(s), !.kind = kind,
                       !.live = {s} \union discarding,
                       !.before = Launched,
                       !.returned = IF kind = "jobs" THEN Launched \ proxied ELSE {}]]

\* /activity, the reconciler, or the last look of a discard.
Activity(o) ==
    /\ obs[o].pc = "idle"
    /\ \E s \in discarding \union (IF inst.status = "ready" THEN {inst.id} ELSE {}) :
         Observe(o, s, "activity")
    /\ UNCHANGED <<jobVars, ledger, seq, inFlight, past>> /\ answer' = NoAnswer

\* The container lists its jobs with an origin file, and the live ones without.
Answered(o) ==
    LET J == Of(obs[o].of) IN
    /\ obs[o].pc = "asked" /\ obs[o].of \in conts
    /\ obs' = [obs EXCEPT ![o] = [@ EXCEPT
          !.pc = "answered",
          !.running = {j \in J : jobs[j].state = "running" /\ jobs[j].origin},
          !.over = {j \in J : jobs[j].state = "over" /\ jobs[j].origin},
          !.bare = {j \in J : jobs[j].state = "running" /\ ~jobs[j].origin}]]
    /\ UNCHANGED <<jobVars, ledger, seq, inFlight, events, past>> /\ answer' = NoAnswer

\* Running jobs, started since the question, whose open entries end now.
Judge(before) ==
    past' = [past EXCEPT !.misjudged = @ \union
                {j \in Jobs \ before : jobs[j].state = "running" /\ Entry(j).end = "open"
                                        /\ ledger'.jobs[j].end = "ended"}]

\* With the answer, or, when the container cannot be asked, without.
AfterProbe(r) == IF r.pc = "answered" THEN Merged(ledger, r) ELSE ledger

ActivityEnds(o) ==
    /\ obs[o].pc # "idle" /\ obs[o].kind = "activity"
    /\ ledger' = AfterProbe(obs[o])
    /\ Judge(obs[o].before)
    /\ obs' = [obs EXCEPT ![o] = NoObs]
    /\ UNCHANGED <<jobVars, seq, inFlight, events>> /\ answer' = NoAnswer

\* job_report: what is live is noted before the container is asked.
ReportBegin(o) ==
    /\ obs[o].pc = "idle" /\ inst.status = "ready"
    /\ Observe(o, inst.id, "jobs")
    /\ UNCHANGED <<jobVars, ledger, seq, inFlight, past>> /\ answer' = NoAnswer

Answer(l, observed, live, returned) ==
    /\ ledger' = Snapshot(l, live)
    /\ answer' = [known |-> observed /\ Complete(ledger'), returned |-> returned]

ReportEnds(o) ==
    LET r == obs[o] IN
    /\ r.pc # "idle" /\ r.kind = "jobs"
    /\ Answer(AfterProbe(r), r.pc = "answered" /\ r.live = {r.of}, r.live, r.returned)
    /\ Judge(r.before)
    /\ obs' = [obs EXCEPT ![o] = NoObs]
    /\ UNCHANGED <<jobVars, seq, inFlight, events>>

\* Without a ready instance there is nothing to ask.
ReportNow ==
    /\ inst.status # "ready"
    /\ Answer(ledger, discarding = {}, discarding \union ({inst.id} \ {None}), Launched \ proxied)
    /\ Judge(Launched)
    /\ UNCHANGED <<jobVars, seq, inFlight, obs, events>>

-----------------------------------------------------------------------------
(* The instances of the area.                                                *)

InstanceUnchanged == UNCHANGED <<aged, proxied, obs, events, past>> /\ answer' = NoAnswer

Create(s) ==
    /\ inst.id = None /\ s \notin conts \union discarding \union aged /\ Of(s) = {}
    /\ inst' = [id |-> s, status |-> "ready"]
    /\ conts' = conts \union {s}
    /\ UNCHANGED <<jobs, discarding, ledger, seq, inFlight>> /\ InstanceUnchanged

Killed(s) == [j \in Jobs |-> IF j \in Of(s) /\ jobs[j].state = "running"
                             THEN [jobs[j] EXCEPT !.state = "over"] ELSE jobs[j]]

\* docker rm or stop of a discard or a quiesce, or the container's own death.
Kill(s) ==
    /\ s \in conts
    /\ conts' = conts \ {s}
    /\ jobs' = Killed(s)
    /\ UNCHANGED <<inst, discarding, ledger, seq, inFlight>> /\ InstanceUnchanged

DiscardBegin ==
    /\ inst.id # None
    /\ discarding' = discarding \union {inst.id}
    /\ inst' = [id |-> None, status |-> "none"]
    /\ UNCHANGED <<jobs, conts, ledger, seq, inFlight>> /\ InstanceUnchanged

DiscardEnd(s) ==
    /\ s \in discarding \ conts
    /\ SettleSandbox(s)
    /\ discarding' = discarding \ {s}
    /\ UNCHANGED <<jobs, conts, inst>> /\ InstanceUnchanged

Quiesce ==
    /\ inst.status = "ready" /\ inst.id \notin conts
    /\ SettleSandbox(inst.id)
    /\ inst' = [inst EXCEPT !.status = "quiesced"]
    /\ UNCHANGED <<jobs, conts, discarding>> /\ InstanceUnchanged

\* The retention passes.
Age(s) ==
    /\ s \notin conts \union discarding \union aged /\ s # inst.id /\ Of(s) # {}
    /\ aged' = aged \union {s}
    /\ UNCHANGED <<jobs, conts, inst, discarding, ledger, seq, inFlight, proxied, obs,
                   events, past>> /\ answer' = NoAnswer

\* The file outlives the Hub, the counters do not.  The container is adopted
\* or removed and settled at startup; what is asked may still be launched.
Crash ==
    /\ events < MaxEvents /\ events' = events + 1
    /\ seq' = [s \in Sandboxes |-> 0]
    /\ inFlight' = [s \in Sandboxes |-> 0]
    /\ obs' = [o \in Observers |-> NoObs]
    /\ past' = [past EXCEPT !.cut = @ \union {j \in proxied : jobs[j].state = "asked"}]
    /\ proxied' = {} /\ discarding' = {} /\ answer' = NoAnswer
    /\ UNCHANGED aged
    /\ \/ /\ conts # {}
          /\ \E s \in conts :
               /\ inst' = [id |-> s, status |-> "ready"]
               /\ conts' = {s}
               /\ jobs' = [j \in Jobs |-> IF jobs[j].at # s /\ jobs[j].state = "running"
                                          THEN [jobs[j] EXCEPT !.state = "over"] ELSE jobs[j]]
               /\ ledger' = Settled(ledger, conts \ {s})
       \/ /\ inst' = [id |-> None, status |-> "none"]
          /\ conts' = {}
          /\ jobs' = [j \in Jobs |-> IF jobs[j].state = "running"
                                     THEN [jobs[j] EXCEPT !.state = "over"] ELSE jobs[j]]
          /\ ledger' = Settled(ledger, conts)

LedgerInit ==
    /\ jobs = [j \in Jobs |-> NoJob]
    /\ conts = {} /\ discarding = {} /\ aged = {} /\ proxied = {}
    /\ inst = [id |-> None, status |-> "none"]
    /\ ledger = [jobs |-> [j \in Jobs |-> NoEntry], unobserved |-> {}, gaps |-> {}]
    /\ seq = [s \in Sandboxes |-> 0]
    /\ inFlight = [s \in Sandboxes |-> 0]
    /\ obs = [o \in Observers |-> NoObs]
    /\ answer = NoAnswer
    /\ events = 0
    /\ past = [cut |-> {}, misjudged |-> {}]

LedgerNext ==
    \/ \E j \in Jobs : StartBegin(j) \/ Launch(j) \/ StartEnd(j) \/ Finish(j)
    \/ \E o \in Observers : Activity(o) \/ Answered(o) \/ ActivityEnds(o)
                            \/ ReportBegin(o) \/ ReportEnds(o)
    \/ ReportNow \/ DiscardBegin \/ Quiesce \/ Crash
    \/ \E s \in Sandboxes : Create(s) \/ Kill(s) \/ DiscardEnd(s) \/ Age(s)
-----------------------------------------------------------------------------

\* A job that the container has started and the ledger does not have is still
\* announced: its instance is marked unobserved, or has left a gap.  The mark
\* is on disk before the request, so a crash keeps it (wa_jobs.py:186).
NothingForgotten ==
    \A j \in Launched \ (Entered \union past.cut) :
        jobs[j].origin /\ jobs[j].at \notin aged => jobs[j].at \in ledger.unobserved \union ledger.gaps

\* When /jobs says known, every job whose start had returned before the
\* question is in the list, with its origin (wa_instances.py:782).
KnownIsComplete ==
    answer.known => \A j \in answer.returned \ past.cut :
        jobs[j].origin /\ jobs[j].at \notin aged => Entry(j).end # "absent" /\ Entry(j).origin

\* No job is booked as ended while it runs, unless it was started after the
\* question whose answer ends it (wa_jobs.py:258).
RunningIsOpen ==
    \A j \in Jobs \ past.misjudged : jobs[j].state = "running" => Entry(j).end # "ended"

\* What ended is never reopened, and an origin on record never changes
\* (wa_jobs.py:222).
EndedStaysEnded ==
    [][\A j \in Entered :
         /\ Entry(j).end = "ended" => ledger'.jobs[j].end \in {"ended", "absent"}
         /\ ledger'.jobs[j].end = "absent" \/ ledger'.jobs[j].origin = Entry(j).origin]_ledgerVars

LedgerSpec == LedgerInit /\ [][LedgerNext]_ledgerVars
=============================================================================
