----------------------------- MODULE MCService ------------------------------
(* Three parts that share nothing but the instance they serve: the isolation *)
(* of its network, its terminal jobs, its long-lived processes.  A behaviour *)
(* is a behaviour of one of them, so that their product is not enumerated.   *)
EXTENDS NetGuard, TerminalJobs, EngineProcs

VARIABLE part   \* the part that runs; the others rest in their initial state

serviceVars == <<guardVars, termVars, procVars, part>>

\* The resting guard is one that the startup refuses.
ServiceInit ==
    /\ GuardInit /\ TermInit /\ ProcInit
    /\ part \in {"guard", "jobs", "procs"}
    /\ part # "guard" => iccOn = Bridges

ServiceNext ==
    /\ \/ part = "guard" /\ GuardNext /\ UNCHANGED <<termVars, procVars>>
       \/ part = "jobs" /\ TermNext /\ UNCHANGED <<guardVars, procVars>>
       \/ part = "procs" /\ ProcNext /\ UNCHANGED <<guardVars, termVars>>
    /\ UNCHANGED part

\* The fairness of each part, for the part that runs.
ServiceFairness ==
    /\ WF_guardVars(part = "guard" /\ Round) /\ WF_guardVars(part = "guard" /\ SelfTest)
    /\ WF_termVars(part = "jobs" /\ Supervise) /\ WF_termVars(part = "jobs" /\ Timers)
    /\ WF_procVars(part = "procs" /\ Threads)

ServiceSpec == ServiceInit /\ [][ServiceNext]_serviceVars /\ ServiceFairness
=============================================================================
