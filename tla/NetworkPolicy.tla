--------------------------- MODULE NetworkPolicy ----------------------------
(* One sandbox between the open and the isolated network: the switch of a    *)
(* running container (container_manager.py), the calls that ask for it, the  *)
(* records they and the reconcilers keep.  A v1 sandbox is switched by any   *)
(* number of requests at once; a v2 instance under the lock of its area.     *)
EXTENDS Naturals, FiniteSets

CONSTANTS
    Networks,     \* the two managed networks, one for each mode
    Callers,      \* requests that may run at once
    MaxSwitches,  \* bound: requests in all
    NoNetwork     \* no network, no answer

ASSUME NetworkAssumption == MaxSwitches \in Nat /\ NoNetwork \notin Networks

VARIABLES
    kind,      \* v1 or v2
    attached,  \* the networks that Docker has the container on
    recorded,  \* info.network, which changes together with info.container_ip
    mode,      \* v2: instance.network_mode
    alive,     \* the sandbox has not been destroyed
    calls,     \* caller -> where it is and what it has read
    listed,    \* the reconcile round's own reading of the network, None outside
    asked,     \* requests so far
    answered,  \* the network that the last finished request answered
    upset      \* history: what made record and container differ

netVars == <<kind, attached, recorded, mode, alive, calls, listed, asked, answered, upset>>

NoCall == [pc |-> "idle", want |-> NoNetwork, leave |-> {}, join |-> FALSE]
Busy == {c \in Callers : calls[c].pc # "idle"}

-----------------------------------------------------------------------------
(* A request: acquire or apply.                                              *)

Succeeds(c, want) ==
    /\ calls' = [calls EXCEPT ![c] = NoCall]
    /\ answered' = want

\* apply_network_all leaves an instance alone whose mode is the one asked for.
Skips(want) == kind = "v2" /\ mode = want
Ask(c, want, via) ==
    /\ alive /\ calls[c].pc = "idle" /\ asked < MaxSwitches
    /\ kind = "v2" => Busy = {}
    /\ asked' = asked + 1
    /\ \/ /\ via = "apply" /\ Skips(want)
          /\ Succeeds(c, want) /\ UNCHANGED <<mode, upset>>
       \/ /\ ~(via = "apply" /\ Skips(want)) /\ recorded = want
          /\ Succeeds(c, want) /\ mode' = want /\ UNCHANGED upset
       \/ /\ ~(via = "apply" /\ Skips(want)) /\ recorded # want
          /\ calls' = [calls EXCEPT ![c].pc = "list", ![c].want = want]
          /\ answered' = NoNetwork
          /\ upset' = IF Busy # {} THEN upset \union {"raced"} ELSE upset
          /\ UNCHANGED mode
    /\ UNCHANGED <<kind, attached, recorded, alive, listed>>

\* mutant: the networks of before are kept.
KeepsOthers(want) == {}

\* Everything but the target is left first.
Others(want) == attached \ {want}

List(c) ==
    /\ calls[c].pc = "list"
    /\ calls' = [calls EXCEPT ![c].pc = "leave", ![c].leave = Others(calls[c].want),
                              ![c].join = calls[c].want \notin attached]
    /\ UNCHANGED <<kind, attached, recorded, mode, alive, listed, asked, answered, upset>>

\* A failed switch destroys a v1 sandbox; a v2 instance stays, record unchanged.
SwitchFails(c) ==
    /\ IF kind = "v1"
       THEN /\ alive' = FALSE /\ attached' = {}
            /\ calls' = [d \in Callers |-> NoCall]
            /\ UNCHANGED upset
       ELSE /\ calls' = [calls EXCEPT ![c] = NoCall]
            /\ upset' = upset \union {"failed"}
            /\ UNCHANGED <<alive, attached>>
    /\ answered' = NoNetwork
    /\ UNCHANGED <<kind, recorded, mode, listed, asked>>

Disconnect(c, n) ==
    /\ calls[c].pc = "leave" /\ n \in calls[c].leave /\ n \in attached
    /\ attached' = attached \ {n}
    /\ calls' = [calls EXCEPT ![c].leave = @ \ {n}]
    /\ UNCHANGED <<kind, recorded, mode, alive, listed, asked, answered, upset>>

HasLeft(c) == calls[c].leave = {}

Connect(c) ==
    LET want == calls[c].want IN
    /\ calls[c].pc = "leave" /\ calls[c].join /\ want \notin attached /\ HasLeft(c)
    /\ attached' = attached \union {want}
    /\ calls' = [calls EXCEPT ![c].join = FALSE]
    /\ UNCHANGED <<kind, recorded, mode, alive, listed, asked, answered, upset>>

\* The API answers on the new address; then the marker, then the record.
Healthy(c) ==
    /\ calls[c].pc = "leave" /\ calls[c].leave = {} /\ ~calls[c].join
    /\ calls[c].want \in attached
    /\ calls' = [calls EXCEPT ![c].pc = "record"]
    /\ UNCHANGED <<kind, attached, recorded, mode, alive, listed, asked, answered, upset>>

Record(c) ==
    LET want == calls[c].want IN
    /\ calls[c].pc = "record"
    /\ recorded' = want /\ mode' = want
    /\ Succeeds(c, want)
    /\ UNCHANGED <<kind, attached, alive, listed, asked, upset>>

\* Docker refuses what another call has done already; the API may stay silent.
Unhealthy(c) ==
    /\ calls[c].pc = "leave"
    /\ \/ \E n \in calls[c].leave : n \notin attached
       \/ calls[c].leave = {} /\ calls[c].join /\ calls[c].want \in attached
       \/ calls[c].leave = {} /\ ~calls[c].join
    /\ SwitchFails(c)

-----------------------------------------------------------------------------
(* The reconcilers align the record with what Docker said when they listed;  *)
(* they leave the mode.  A restart adopts what it finds.                     *)

RoundLists ==
    /\ alive /\ listed = NoNetwork
    /\ \E n \in attached : listed' = n
    /\ UNCHANGED <<kind, attached, recorded, mode, alive, calls, asked, answered, upset>>

RoundAligns ==
    /\ alive /\ listed # NoNetwork
    /\ recorded' = listed
    /\ \/ /\ attached # {listed}
          /\ upset' = upset \union {"stale"} /\ UNCHANGED answered
       \/ /\ attached = {listed} /\ upset # {} /\ Busy = {} /\ kind = "v1"
          /\ upset' = {} /\ answered' = NoNetwork
       \/ /\ attached = {listed} /\ (upset = {} \/ Busy # {} \/ kind = "v2")
          /\ UNCHANGED <<upset, answered>>
    /\ listed' = NoNetwork
    /\ UNCHANGED <<kind, attached, mode, alive, calls, asked>>

Restart ==
    /\ kind = "v2" /\ alive /\ Cardinality(attached) <= 1
    /\ asked < MaxSwitches /\ asked' = asked + 1
    /\ recorded' = IF attached = {} THEN NoNetwork ELSE CHOOSE n \in attached : TRUE
    /\ mode' = recorded'
    /\ calls' = [c \in Callers |-> NoCall]
    /\ listed' = NoNetwork /\ answered' = NoNetwork /\ upset' = {}
    /\ UNCHANGED <<kind, attached, alive>>

NetworkInit ==
    /\ kind \in {"v1", "v2"}
    /\ \E n \in Networks : attached = {n} /\ recorded = n /\ mode = n
    /\ alive = TRUE
    /\ calls = [c \in Callers |-> NoCall]
    /\ listed = NoNetwork /\ asked = 0 /\ answered = NoNetwork /\ upset = {}

NetworkNext ==
    \/ \E c \in Callers :
         \/ \E want \in Networks, via \in {"acquire", "apply"} : Ask(c, want, via)
         \/ List(c) \/ Connect(c) \/ Healthy(c) \/ Record(c) \/ Unhealthy(c)
         \/ \E n \in calls[c].leave : Disconnect(c, n)
    \/ RoundLists \/ RoundAligns \/ Restart

NetworkSpec == NetworkInit /\ [][NetworkNext]_netVars
-----------------------------------------------------------------------------

\* Once a request has answered, and until the next one, the container is on
\* the network that the answer names and on no other.  The exceptions are what
\* leaves an untrue record: an alignment with a list that a switch overtook and
\* overlapping requests, until a round has aligned a v1 record with no request
\* running, and the failed switch of an instance (container_manager.py:521,
\* reconciler.py:184).
NetworkAsAnswered ==
    alive /\ answered # NoNetwork /\ Busy = {} /\ upset = {} => attached = {answered}

\* wa_instances.py:611 without the exception for failed switches.
AppliedIsInEffect ==
    kind = "v2" /\ answered # NoNetwork /\ Busy = {} /\ "stale" \notin upset
        => attached = {answered}
=============================================================================
