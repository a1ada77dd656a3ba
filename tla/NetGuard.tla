------------------------------ MODULE NetGuard ------------------------------
(* The isolation of the v2 networks (manager/netguard.py): the firewall      *)
(* rules that each reconcile round puts back, and the self-test whose last   *)
(* result admits or refuses new instances.  Docker restarts, a recreated     *)
(* gateway and a stopped cr-fs undo the rules or the means to set them.      *)
EXTENDS Naturals

CONSTANTS
    Bridges,     \* the bridges of the two v2 networks
    Forwards,    \* some gateway forward is configured: there is a positive control
    MaxTroubles  \* bound: events that undo something, and failing calls

ASSUME GuardAssumption == Forwards \in BOOLEAN /\ MaxTroubles \in Nat

Chains == {"forward", "input"}
ProbeKinds == {"peer", "host", "storage", "gateway"}

VARIABLES
    ruled,     \* bridges that the rules in the kernel name
    rulesGw,   \* the gateway address in these rules
    jumps,     \* chains that DOCKER-USER and INPUT jump to
    gateway,   \* the address of the gateway container, 0 when it is down
    gateways,  \* addresses given so far
    iccOn,     \* networks that Docker lets their containers talk on
    fsUp,      \* cr-fs runs
    applied,   \* last_applied: the gateway in the rules set last
    round,     \* where the reconcile round is
    test,      \* the self-test under way
    result,    \* its last result: what fails, or pending
    doubt,     \* history: something was undone since the test, or the one behind the
               \* result, began
    troubles   \* undone or failed so far

guardVars == <<ruled, rulesGw, jumps, gateway, gateways, iccOn, fsUp, applied, round, test,
               result, doubt, troubles>>
kernel == <<ruled, rulesGw, jumps>>
machine == <<gateway, gateways, iccOn>>

NoTest == [pc |-> "idle", failing |-> {}, rows |-> {}, todo |-> {}]
Pending == {"selftest_pending"}

\* What an instance on bridge b can reach although it must not, or the reverse.
Open(b) ==
    (IF b \in iccOn THEN {"peer"} ELSE {})
    \union (IF b \in ruled /\ "input" \in jumps THEN {} ELSE {"host"})
    \union (IF b \in ruled /\ "forward" \in jumps THEN {} ELSE {"storage"})
    \union (IF gateway # 0 /\ (b \in iccOn \/ (b \in ruled /\ "forward" \in jumps
                                               /\ rulesGw = gateway))
            THEN {} ELSE {"gateway"})

-----------------------------------------------------------------------------
(* The round: cr-fs, gateway, rules, jumps.  What fails ends it.             *)

\* The first round that succeeds is the startup, which refuses networks with ICC
\* on; later rounds do not look.
RoundBegin ==
    /\ round = "idle"
    /\ applied # 0 \/ iccOn = {}
    /\ fsUp' = TRUE /\ round' = "gateway"
    /\ UNCHANGED <<kernel, machine, applied, test, result, doubt, troubles>>

RoundGateway ==
    /\ round = "gateway"
    /\ IF gateway # 0 THEN UNCHANGED <<gateway, gateways>>
       ELSE gateways' = gateways + 1 /\ gateway' = gateways'
    /\ round' = "restore"
    /\ UNCHANGED <<kernel, iccOn, fsUp, applied, test, result, doubt, troubles>>

\* mutant: rules that were set before are not set again.
RestoredOnce == IF applied = gateway THEN <<ruled, rulesGw>> ELSE <<Bridges, gateway>>

\* The rules for both bridges replace the chains in one transaction.
Restored == <<Bridges, gateway>>

RoundRestore ==
    /\ round = "restore" /\ fsUp /\ gateway # 0
    /\ ruled' = Restored[1] /\ rulesGw' = Restored[2]
    /\ round' = "hook"
    /\ UNCHANGED <<jumps, machine, fsUp, applied, test, result, doubt, troubles>>

RoundHook ==
    /\ round = "hook" /\ fsUp
    /\ jumps' = Chains
    /\ applied' = rulesGw
    /\ round' = "idle"
    /\ UNCHANGED <<ruled, rulesGw, machine, fsUp, test, result, doubt, troubles>>

RoundFails ==
    /\ round # "idle"
    /\ \/ round \in {"restore", "hook"} /\ (~fsUp \/ gateway = 0) /\ UNCHANGED troubles
       \/ troubles < MaxTroubles /\ troubles' = troubles + 1
    /\ round' = "idle"
    /\ UNCHANGED <<kernel, machine, fsUp, applied, test, result, doubt>>

-----------------------------------------------------------------------------
(* The self-test: cr-fs, the rules, then a probe container on each bridge.   *)

TestBegin ==
    /\ test.pc = "idle"
    /\ IF fsUp THEN test' = [NoTest EXCEPT !.pc = "verify"]
       ELSE test' = [NoTest EXCEPT !.pc = "end",
                       !.failing = {"fs_sidecar", "netguard_rules"} \union ProbeKinds]
    /\ doubt' = [doubt EXCEPT !.test = FALSE]
    /\ UNCHANGED <<kernel, machine, fsUp, applied, round, result, troubles>>

\* verify, by way of cr-fs: both jumps, and the two drops for every bridge.
TestVerify ==
    /\ test.pc = "verify" /\ gateway # 0
    /\ test' = [test EXCEPT !.pc = "probe", !.todo = Bridges,
                  !.failing = IF fsUp /\ jumps = Chains /\ ruled = Bridges THEN @
                              ELSE @ \union {"netguard_rules"}]
    /\ UNCHANGED <<kernel, machine, fsUp, applied, round, result, doubt, troubles>>

TestProbe(b) ==
    /\ test.pc = "probe" /\ b \in test.todo
    /\ test' = [test EXCEPT !.todo = @ \ {b}, !.rows = @ \union {<<b, k>> : k \in Open(b)}]
    /\ UNCHANGED <<kernel, machine, fsUp, applied, round, result, doubt, troubles>>

\* mutant: what is open on some networks only is taken for noise.
OpenEverywhere(rows) == {k \in ProbeKinds : \A b \in Bridges : <<b, k>> \in rows}

\* summarize: one failing row fails its kind; without a forward there is no
\* positive control.
Summarized(rows) ==
    {k \in ProbeKinds : \E b \in Bridges : <<b, k>> \in rows}
        \ (IF Forwards THEN {} ELSE {"gateway"})

TestSummarize ==
    /\ test.pc = "probe" /\ test.todo = {}
    /\ test' = [test EXCEPT !.pc = "end", !.failing = @ \union Summarized(test.rows)]
    /\ UNCHANGED <<kernel, machine, fsUp, applied, round, result, doubt, troubles>>

\* An exception fails the rules, if not yet verified, and every probe.
TestRaises ==
    /\ \/ test.pc = "verify" /\ gateway = 0 /\ UNCHANGED troubles
       \/ /\ test.pc \in {"verify", "probe"}
          /\ troubles < MaxTroubles /\ troubles' = troubles + 1
    /\ test' = [test EXCEPT !.pc = "end", !.todo = {},
                  !.failing = @ \union ProbeKinds \union
                      (IF test.pc = "verify" THEN {"netguard_rules"} ELSE {})]
    /\ UNCHANGED <<kernel, machine, fsUp, applied, round, result, doubt>>

TestEnd ==
    /\ test.pc = "end"
    /\ result' = test.failing
    /\ test' = NoTest
    /\ doubt' = [doubt EXCEPT !.result = doubt.test]
    /\ UNCHANGED <<kernel, machine, fsUp, applied, round, troubles>>

-----------------------------------------------------------------------------
(* What the host does to them (external).                                    *)

Trouble ==
    /\ troubles < MaxTroubles /\ troubles' = troubles + 1
    /\ doubt' = [test |-> TRUE, result |-> TRUE]
    /\ UNCHANGED <<gateways, applied, round, test, result>>

\* A Docker restart drops its jump, a firewall reload everything.
JumpLost == jumps' = jumps \ {"forward"} /\ UNCHANGED <<ruled, rulesGw, gateway, iccOn, fsUp>> /\ Trouble
RulesLost == jumps' = {} /\ ruled' = {} /\ UNCHANGED <<rulesGw, gateway, iccOn, fsUp>> /\ Trouble
GatewayLost == gateway' = 0 /\ UNCHANGED <<kernel, iccOn, fsUp>> /\ Trouble
FsLost == fsUp' = FALSE /\ UNCHANGED <<kernel, gateway, iccOn>> /\ Trouble

\* A network is made again by hand, the gateway on it: another bridge, and ICC.
Remade(b) ==
    /\ iccOn' = iccOn \union {b} /\ ruled' = ruled \ {b}
    /\ UNCHANGED <<rulesGw, jumps, gateway, fsUp>> /\ Trouble

GuardInit ==
    /\ ruled = {} /\ rulesGw = 0 /\ jumps = {}
    /\ gateway = 0 /\ gateways = 0
    /\ iccOn \in SUBSET Bridges
    /\ fsUp = FALSE /\ applied = 0
    /\ round = "idle" /\ test = NoTest /\ result = Pending
    /\ doubt = [test |-> FALSE, result |-> FALSE] /\ troubles = 0

Round == RoundBegin \/ RoundGateway \/ RoundRestore \/ RoundHook \/ RoundFails
SelfTest == TestBegin \/ TestVerify \/ (\E b \in Bridges : TestProbe(b)) \/ TestSummarize
            \/ TestRaises \/ TestEnd

GuardNext ==
    \/ Round \/ SelfTest \/ JumpLost \/ RulesLost \/ GatewayLost \/ FsLost
    \/ \E b \in Bridges : Remade(b)

\* The reconcile loop runs for the life of the Hub, and with it the self-test.
GuardFairness == WF_guardVars(Round) /\ WF_guardVars(SelfTest)

GuardSpec == GuardInit /\ [][GuardNext]_guardVars /\ GuardFairness
-----------------------------------------------------------------------------

\* While new instances are admitted, every bridge is closed to peers, host and
\* storage, unless something was undone after the test began, on whose result
\* they are admitted (netguard.py:263, wa_instances.py:368).
AdmittedMeansIsolated ==
    result = {} /\ ~doubt.result
        => \A b \in Bridges : Open(b) \subseteq (IF Forwards THEN {} ELSE {"gateway"})

\* After the last trouble the rules come back and the self-test sees it
\* (netguard.py:14): admission resumes for good where Docker isolates peers.
IsolationReturns ==
    [](iccOn = {}) => <>[](result = {} /\ \A b \in Bridges : Open(b) = {})
=============================================================================
