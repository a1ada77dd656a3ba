----------------------------- MODULE DataProofs ------------------------------
(***************************************************************************)
(* Theorems about what the Hub keeps or sets for a sandbox: its network,    *)
(* its input files, the origins of its jobs.  They share no state.          *)
(***************************************************************************)
EXTENDS JobLedger, InputsCache, NetworkPolicy, FiniteSetTheorems, TLAPS

-----------------------------------------------------------------------------
\* The network of a sandbox (NetworkPolicy).

NetworkCalls == [pc : {"idle", "list", "leave", "record"}, want : Networks \union {NoNetwork},
                 leave : SUBSET Networks, join : BOOLEAN]

NetworkTyped ==
    /\ kind \in {"v1", "v2"} /\ alive \in BOOLEAN
    /\ attached \subseteq Networks /\ IsFiniteSet(attached)
    /\ {recorded, mode, listed, answered} \subseteq Networks \union {NoNetwork}
    /\ calls \in [Callers -> NetworkCalls]
    /\ \A c \in Callers : calls[c].pc # "idle" => calls[c].want \in Networks

\* What a switch has done so far.
SwitchSound(c) ==
    LET want == calls[c].want IN
    /\ calls[c].pc = "leave" =>
         /\ want \notin calls[c].leave
         /\ attached = calls[c].leave \union (IF calls[c].join THEN {} ELSE {want})
    /\ calls[c].pc = "record" => attached = {want}

\* Without a request the record is the container's network, or both are none.
RecordSound ==
    /\ attached = {recorded} \/ (attached = {} /\ recorded = NoNetwork)
    /\ kind = "v2" => mode = recorded
    /\ answered # NoNetwork => attached = {answered}

NetworkInv ==
    /\ NetworkTyped
    /\ alive /\ upset = {} =>
         /\ \A c, d \in Busy : c = d
         /\ \A c \in Callers : SwitchSound(c)
         /\ Busy = {} => RecordSound

(* The steps of a switch change its own call only, and keep it a call for    *)
(* the same network.                                                         *)
LEMMA SwitchGoesOn ==
    ASSUME NetworkTyped, NEW c \in Callers,
           List(c) \/ Connect(c) \/ Healthy(c) \/ \E n \in calls[c].leave : Disconnect(c, n)
    PROVE  /\ calls' \in [Callers -> NetworkCalls]
           /\ \A d \in Callers \ {c} : calls'[d] = calls[d]
           /\ calls[c].pc # "idle" /\ calls'[c].pc # "idle" /\ calls'[c].want = calls[c].want
<1>0. calls \in [Callers -> NetworkCalls] /\ calls[c] \in NetworkCalls
  BY DEF NetworkTyped
<1>1. CASE List(c)
  <2>1. Others(calls[c].want) \in SUBSET Networks
    BY DEF Others, NetworkTyped
  <2> QED
    BY <1>0, <1>1, <2>1 DEF List, NetworkCalls
<1>2. CASE Connect(c)
  BY <1>0, <1>2 DEF Connect, NetworkCalls
<1>3. CASE Healthy(c)
  BY <1>0, <1>3 DEF Healthy, NetworkCalls
<1>4. ASSUME NEW n, Disconnect(c, n)
      PROVE  /\ calls' \in [Callers -> NetworkCalls]
             /\ \A d \in Callers \ {c} : calls'[d] = calls[d]
             /\ calls[c].pc # "idle" /\ calls'[c].pc # "idle" /\ calls'[c].want = calls[c].want
  BY <1>0, <1>4 DEF Disconnect, NetworkCalls
<1> QED
  BY <1>1, <1>2, <1>3, <1>4

(* Every step keeps the types.                                               *)
LEMMA NetworkTypedStep ==
    ASSUME NetworkTyped, NetworkNext
    PROVE  NetworkTyped'
<1> USE NetworkAssumption
<1>0. NoCall \in NetworkCalls /\ NoCall.pc = "idle"
  BY DEF NoCall, NetworkCalls
<1>1. ASSUME NEW c \in Callers, NEW want \in Networks, NEW via \in {"acquire", "apply"},
             Ask(c, want, via)
      PROVE  NetworkTyped'
  <2>1. /\ calls' \in [Callers -> NetworkCalls]
        /\ \A d \in Callers : calls'[d].pc # "idle" => calls'[d].want \in Networks
    <3>1. CASE Succeeds(c, want)
      BY <1>0, <3>1 DEF Succeeds, NetworkTyped
    <3>2. CASE calls' = [calls EXCEPT ![c].pc = "list", ![c].want = want]
      BY <3>2 DEF NetworkTyped, NetworkCalls
    <3> QED
      BY <1>1, <3>1, <3>2 DEF Ask
  <2>2. {mode', answered'} \subseteq Networks \union {NoNetwork}
    BY <1>1 DEF Ask, Succeeds, NetworkTyped
  <2> QED
    BY <1>1, <2>1, <2>2 DEF Ask, NetworkTyped
<1>2. ASSUME NEW c \in Callers, List(c) \/ Connect(c) \/ Healthy(c) \/ \E n \in calls[c].leave : Disconnect(c, n)
      PROVE  NetworkTyped'
  <2>1. /\ calls' \in [Callers -> NetworkCalls]
        /\ \A d \in Callers : calls'[d].pc # "idle" => calls'[d].want \in Networks
    BY <1>2, SwitchGoesOn DEF NetworkTyped
  <2>2. attached' \subseteq Networks /\ IsFiniteSet(attached')
    <3>1. \/ attached' = attached
          \/ \E n \in Networks : attached' = attached \union {n}
          \/ \E n : attached' = attached \ {n}
      BY <1>2 DEF List, Connect, Healthy, Disconnect, NetworkTyped
    <3> QED
      BY <3>1, FS_AddElement, FS_RemoveElement DEF NetworkTyped
  <2> QED
    BY <1>2, <2>1, <2>2 DEF List, Connect, Healthy, Disconnect, NetworkTyped
<1>3. ASSUME NEW c \in Callers, Record(c) \/ Unhealthy(c)
      PROVE  NetworkTyped'
  <2>1. /\ calls' \in [Callers -> NetworkCalls]
        /\ \A d \in Callers : calls'[d].pc # "idle" => calls'[d].want \in Networks
    BY <1>0, <1>3 DEF Record, Succeeds, Unhealthy, SwitchFails, NetworkTyped
  <2>2. attached' = attached \/ attached' = {}
    BY <1>3 DEF Record, Unhealthy, SwitchFails
  <2>3. {recorded', mode', answered'} \subseteq Networks \union {NoNetwork}
    BY <1>3 DEF Record, Succeeds, Unhealthy, SwitchFails, NetworkTyped
  <2> QED
    BY <1>3, <2>1, <2>2, <2>3, FS_EmptySet DEF Record, Unhealthy, SwitchFails, NetworkTyped
<1>4. CASE RoundLists \/ RoundAligns
  BY <1>4 DEF RoundLists, RoundAligns, NetworkTyped
<1>5. CASE Restart
  BY <1>0, <1>5 DEF Restart, NetworkTyped
<1> QED
  BY <1>1, <1>2, <1>3, <1>4, <1>5 DEF NetworkNext

(* A switch that nothing races leaves the container on what it records.      *)
LEMMA NetworkStep ==
    ASSUME NetworkInv, NetworkNext
    PROVE  NetworkInv'
<1> USE NetworkAssumption
<1>t. NetworkTyped /\ NetworkTyped'
  BY NetworkTypedStep DEF NetworkInv
<1> SUFFICES ASSUME alive', upset' = {}
             PROVE  /\ \A c, d \in Busy' : c = d
                    /\ \A c \in Callers : SwitchSound(c)'
                    /\ Busy' = {} => RecordSound'
  BY <1>t DEF NetworkInv
<1>0. NoCall.pc = "idle"
  BY DEF NoCall
<1>1. ASSUME NEW c \in Callers, NEW want \in Networks, NEW via \in {"acquire", "apply"},
             Ask(c, want, via)
      PROVE  /\ \A d, e \in Busy' : d = e
             /\ \A d \in Callers : SwitchSound(d)'
             /\ Busy' = {} => RecordSound'
  <2>1. alive /\ upset = {} /\ calls[c].pc = "idle" /\ (kind = "v2" => Busy = {})
        /\ UNCHANGED <<kind, attached, recorded>>
    BY <1>1 DEF Ask
  <2>2. /\ \A d, e \in Busy : d = e
        /\ \A d \in Callers : SwitchSound(d)
        /\ Busy = {} => RecordSound
    BY <2>1 DEF NetworkInv
  <2>3. CASE calls' = [calls EXCEPT ![c].pc = "list", ![c].want = want]
    <3>1. Busy = {}
      BY <1>1, <2>1, <2>3, <1>0, <1>t DEF Ask, Succeeds, NetworkTyped, NetworkCalls
    <3>2. Busy' = {c}
      BY <1>t, <2>3, <3>1 DEF Busy, NetworkTyped, NetworkCalls
    <3>3. \A d \in Callers : SwitchSound(d)'
      BY <1>t, <2>1, <2>2, <2>3 DEF SwitchSound, NetworkTyped, NetworkCalls
    <3> QED
      BY <3>2, <3>3
  <2>4. CASE Succeeds(c, want)
    <3>1. calls' = [calls EXCEPT ![c] = NoCall] /\ answered' = want
      BY <2>4 DEF Succeeds
    <3>2. Busy' = Busy /\ \A d \in Callers : SwitchSound(d)'
      BY <1>0, <1>t, <2>1, <2>2, <3>1 DEF Busy, SwitchSound, NetworkTyped, NetworkCalls
    <3>3. (kind = "v2" /\ mode = want /\ mode' = mode) \/ (recorded = want /\ mode' = want)
      <4>1. calls' # [calls EXCEPT ![c].pc = "list", ![c].want = want]
        BY <1>0, <1>t, <2>1, <3>1 DEF NetworkTyped, NetworkCalls
      <4> QED
        BY <1>1, <4>1 DEF Ask, Skips
    <3>4. ASSUME Busy = {} PROVE RecordSound'
      BY <2>1, <2>2, <3>1, <3>3, <3>4 DEF RecordSound
    <3> QED
      BY <2>2, <3>2, <3>4
  <2> QED
    BY <1>1, <2>3, <2>4 DEF Ask
<1>2. ASSUME NEW c \in Callers, List(c) \/ Connect(c) \/ Healthy(c) \/ \E n \in calls[c].leave : Disconnect(c, n)
      PROVE  /\ \A d, e \in Busy' : d = e
             /\ \A d \in Callers : SwitchSound(d)'
             /\ Busy' = {} => RecordSound'
  <2>1. alive /\ upset = {}
    BY <1>2 DEF List, Connect, Healthy, Disconnect
  <2>2. /\ \A d, e \in Busy : d = e
        /\ \A d \in Callers : SwitchSound(d)
    BY <2>1 DEF NetworkInv
  <2>3. c \in Busy /\ Busy' = Busy
    BY <1>2, <1>t, SwitchGoesOn DEF Busy
  <2>4. SwitchSound(c)'
    <3>1. calls[c] \in NetworkCalls /\ SwitchSound(c)
      BY <1>t, <2>2 DEF NetworkTyped
    <3>2. CASE List(c)
      <4>1. /\ calls'[c].pc = "leave" /\ calls'[c].want = calls[c].want
            /\ calls'[c].leave = attached \ {calls[c].want}
            /\ calls'[c].join = (calls[c].want \notin attached) /\ attached' = attached
        BY <1>t, <3>1, <3>2 DEF List, Others, NetworkTyped, NetworkCalls
      <4> QED
        BY <4>1 DEF SwitchSound
    <3>3. CASE Connect(c)
      <4>1. /\ calls[c].pc = "leave" /\ calls'[c].pc = "leave" /\ calls'[c].want = calls[c].want
            /\ calls[c].leave = {} /\ calls[c].join /\ calls'[c].leave = {} /\ calls'[c].join = FALSE
            /\ attached' = attached \union {calls[c].want}
        BY <1>t, <3>1, <3>3 DEF Connect, HasLeft, NetworkTyped, NetworkCalls
      <4> QED
        BY <3>1, <4>1 DEF SwitchSound
    <3>4. CASE Healthy(c)
      <4>1. /\ calls[c].pc = "leave" /\ calls'[c].pc = "record" /\ calls'[c].want = calls[c].want
            /\ calls[c].leave = {} /\ ~calls[c].join /\ attached' = attached
        BY <1>t, <3>1, <3>4 DEF Healthy, NetworkTyped, NetworkCalls
      <4> QED
        BY <3>1, <4>1 DEF SwitchSound
    <3>5. ASSUME NEW n \in calls[c].leave, Disconnect(c, n)
          PROVE  SwitchSound(c)'
      <4>1. /\ calls[c].pc = "leave" /\ calls'[c].pc = "leave" /\ calls'[c].want = calls[c].want
            /\ calls'[c].leave = calls[c].leave \ {n} /\ calls'[c].join = calls[c].join
            /\ attached' = attached \ {n}
        BY <1>t, <3>1, <3>5 DEF Disconnect, NetworkTyped, NetworkCalls
      <4> QED
        BY <3>1, <4>1 DEF SwitchSound
    <3> QED
      BY <1>2, <3>2, <3>3, <3>4, <3>5
  <2>5. ASSUME NEW d \in Callers, d # c PROVE SwitchSound(d)'
    <3>1. d \notin Busy'
      BY <2>2, <2>3, <2>5
    <3> QED
      BY <3>1, <2>5 DEF Busy, SwitchSound
  <2> QED
    BY <2>2, <2>3, <2>4, <2>5
<1>3. ASSUME NEW c \in Callers, Record(c)
      PROVE  /\ \A d, e \in Busy' : d = e
             /\ \A d \in Callers : SwitchSound(d)'
             /\ Busy' = {} => RecordSound'
  <2>1. /\ alive /\ upset = {} /\ calls[c].pc = "record" /\ attached' = attached
        /\ recorded' = calls[c].want /\ mode' = calls[c].want /\ answered' = calls[c].want
        /\ calls' = [calls EXCEPT ![c] = NoCall]
    BY <1>3 DEF Record, Succeeds
  <2>2. /\ \A d, e \in Busy : d = e
        /\ attached = {calls[c].want}
    BY <2>1 DEF NetworkInv, SwitchSound
  <2>3. c \in Busy
    BY <2>1 DEF Busy
  <2>4. Busy' = {}
    BY <1>0, <1>t, <2>1, <2>2, <2>3 DEF Busy, NetworkTyped
  <2>5. \A d \in Callers : SwitchSound(d)'
    BY <2>4 DEF Busy, SwitchSound
  <2>6. RecordSound'
    BY <2>1, <2>2 DEF RecordSound
  <2> QED
    BY <2>4, <2>5, <2>6
<1>4. ASSUME NEW c \in Callers, Unhealthy(c)
      PROVE  FALSE
  <2>1. kind = "v1" \/ upset' = upset \union {"failed"}
    BY <1>4 DEF Unhealthy, SwitchFails
  <2> QED
    BY <1>4, <2>1 DEF Unhealthy, SwitchFails
<1>5. CASE RoundLists \/ RoundAligns
  <2>1. UNCHANGED <<kind, attached, mode, alive, calls>>
    BY <1>5 DEF RoundLists, RoundAligns
  <2>2. Busy' = Busy /\ \A d \in Callers : SwitchSound(d) => SwitchSound(d)'
    BY <2>1 DEF Busy, SwitchSound
  <2>3. CASE upset = {}
    <3>1. /\ \A d, e \in Busy : d = e
          /\ \A d \in Callers : SwitchSound(d)
          /\ Busy = {} => RecordSound
      BY <2>1, <2>3 DEF NetworkInv
    <3>2. \/ recorded' = recorded /\ answered' = answered
          \/ attached = {recorded'} /\ answered' = answered
      BY <1>5, <2>3 DEF RoundLists, RoundAligns
    <3>3. RecordSound => RecordSound'
      BY <2>1, <3>2 DEF RecordSound
    <3> QED
      BY <2>2, <3>1, <3>3
  <2>4. CASE upset # {}
    <3>1. /\ attached = {recorded'} /\ Busy = {} /\ kind = "v1" /\ answered' = NoNetwork
      BY <1>5, <2>4 DEF RoundLists, RoundAligns
    <3>2. \A d \in Callers : SwitchSound(d)
      BY <3>1 DEF Busy, SwitchSound
    <3>3. RecordSound'
      BY <2>1, <3>1 DEF RecordSound
    <3> QED
      BY <2>2, <3>1, <3>2, <3>3
  <2> QED
    BY <2>3, <2>4
<1>6. CASE Restart
  <2>1. /\ calls' = [c \in Callers |-> NoCall] /\ mode' = recorded' /\ answered' = NoNetwork
        /\ attached' = attached
        /\ recorded' = IF attached = {} THEN NoNetwork ELSE CHOOSE n \in attached : TRUE
        /\ Cardinality(attached) <= 1
    BY <1>6 DEF Restart
  <2>2. Busy' = {} /\ \A c \in Callers : SwitchSound(c)'
    BY <1>0, <2>1 DEF Busy, SwitchSound
  <2>3. attached = {} \/ \E n : attached = {n}
    <3>1. Cardinality(attached) \in Nat
      BY <1>t, FS_CardinalityType DEF NetworkTyped
    <3>2. Cardinality(attached) = 0 \/ Cardinality(attached) = 1
      BY <2>1, <3>1
    <3> QED
      BY <1>t, <3>2, FS_EmptySet, FS_Singleton DEF NetworkTyped
  <2>4. RecordSound'
    BY <2>1, <2>3 DEF RecordSound
  <2> QED
    BY <2>2, <2>4
<1> QED
  BY <1>1, <1>2, <1>3, <1>4, <1>5, <1>6 DEF NetworkNext

(* A sandbox that has been told its network is on it and on no other, for    *)
(* every interleaving of requests, failures, reconcile rounds and restarts   *)
(* but those that the property exempts.                                      *)
THEOREM NetworkStaysAnswered == NetworkSpec => []NetworkAsAnswered
<1>1. NetworkInit => NetworkInv
  <2> SUFFICES ASSUME NetworkInit PROVE NetworkInv
    OBVIOUS
  <2>1. NoCall \in NetworkCalls /\ NoCall.pc = "idle"
    BY DEF NoCall, NetworkCalls
  <2>2. NetworkTyped
    BY <2>1, FS_Singleton DEF NetworkInit, NetworkTyped
  <2>3. Busy = {} /\ RecordSound /\ \A c \in Callers : SwitchSound(c)
    BY <2>1 DEF NetworkInit, Busy, RecordSound, SwitchSound
  <2> QED
    BY <2>2, <2>3 DEF NetworkInv
<1>2. NetworkInv /\ [NetworkNext]_netVars => NetworkInv'
  <2>1. ASSUME NetworkInv, UNCHANGED netVars PROVE NetworkInv'
    BY <2>1 DEF netVars, NetworkInv, NetworkTyped, SwitchSound, RecordSound, Busy
  <2> QED
    BY <2>1, NetworkStep
<1>3. NetworkInv => NetworkAsAnswered
  BY DEF NetworkInv, NetworkAsAnswered, RecordSound
<1> QED
  BY <1>1, <1>2, <1>3, PTL DEF NetworkSpec

-----------------------------------------------------------------------------
\* The cache of input files (InputsCache).

Paths == UNION {DOMAIN g : g \in Grants}
Lists == Grants \union {NoFiles}

InputsTyped ==
    /\ sync \in [Views -> [pc : {"idle", "ensure", "link"}, want : Lists, todo : SUBSET Paths]]
    /\ \A v \in Views : sync[v].todo \subseteq DOMAIN sync[v].want
    /\ links = [v \in Views |-> links[v]]
    /\ granted \in [Views -> Lists]
    /\ mounts \in [Views -> {"none", "creating", "mounted"}]
    /\ prune \in [pc : {"idle", "judge"}, mounted : SUBSET V1Views, todo : SUBSET V1Views]

\* The files of a view that is being linked, in terms of the list wanted.
LinkedSoFar(v) ==
    LET files == links[v].files
        want == sync[v].want IN
    /\ ~links[v].gone
    /\ \A p \in DOMAIN files : p \in DOMAIN want /\ files[p].blob = want[p]
    /\ \A p \in DOMAIN want \ sync[v].todo : p \in DOMAIN files

ViewSound(v) ==
    /\ sync[v].pc # "link" /\ ~links[v].gone => Contents(v) = granted[v]
    /\ sync[v].pc = "link" => LinkedSoFar(v)

\* What a container mounts, or is about to, is there; and the removal of views
\* either knows that it is mounted or finds it young.
MountSound(v) ==
    /\ mounts[v] # "none" => v \in V1Views /\ ~links[v].gone
    /\ mounts[v] = "creating" => v \in fresh
    /\ prune.pc = "judge" /\ mounts[v] = "mounted" => v \in prune.mounted \/ v \in fresh

InputsInv ==
    /\ InputsTyped
    /\ \A v \in Views \ torn : ViewSound(v)
    /\ \A v \in Views : MountSound(v)

(* Every step keeps the types.                                               *)
LEMMA InputsTypedStep ==
    ASSUME InputsTyped, InputsNext
    PROVE  InputsTyped'
<1> USE InputsAssumption
<1> DEFINE Syncs == [pc : {"idle", "ensure", "link"}, want : Lists, todo : SUBSET Paths]
           Prunes == [pc : {"idle", "judge"}, mounted : SUBSET V1Views, todo : SUBSET V1Views]
<1>0. /\ Idle \in Syncs /\ NoPrune \in Prunes /\ sync \in [Views -> Syncs] /\ prune \in Prunes
      /\ \A g \in Lists : DOMAIN g \subseteq Paths
  BY DEF Idle, NoPrune, Lists, Paths, NoFiles, InputsTyped
<1> HIDE DEF Syncs, Prunes
<1>1. ASSUME NEW v \in Views, NEW g \in Grants, Materialize(v, g)
      PROVE  InputsTyped'
  <2>1. [pc |-> "ensure", want |-> g, todo |-> DOMAIN g] \in Syncs
    BY <1>0 DEF Syncs, Lists
  <2>2. sync' \in [Views -> Syncs]
    BY <1>0, <1>1, <2>1 DEF Materialize
  <2>3. \A w \in Views : sync'[w].todo \subseteq DOMAIN sync'[w].want
    BY <1>0, <1>1 DEF Materialize, InputsTyped
  <2> QED
    BY <1>1, <2>2, <2>3 DEF Materialize, InputsTyped, Syncs
<1>2. ASSUME NEW v \in Views, NEW p \in sync[v].todo, EnsureBlob(v, p) \/ LinkOne(v, p)
      PROVE  InputsTyped'
  <2>1. Done(v, p) => sync' \in [Views -> Syncs]
    BY <1>0 DEF Done, Syncs
  <2>2. SyncFails(v) => sync' \in [Views -> Syncs]
    BY <1>0 DEF SyncFails
  <2>3. /\ sync' \in [Views -> Syncs]
        /\ \A w \in Views : sync'[w].todo \subseteq DOMAIN sync'[w].want
    <3>1. Done(v, p) \/ SyncFails(v)
      BY <1>2 DEF EnsureBlob, LinkOne
    <3>2. ASSUME Done(v, p) PROVE \A w \in Views : sync'[w].todo \subseteq DOMAIN sync'[w].want
      BY <1>0, <3>2 DEF Done, InputsTyped, Syncs
    <3>3. ASSUME SyncFails(v) PROVE \A w \in Views : sync'[w].todo \subseteq DOMAIN sync'[w].want
      BY <1>0, <3>3 DEF SyncFails, Idle, InputsTyped, Syncs
    <3> QED
      BY <2>1, <2>2, <3>1, <3>2, <3>3
  <2>4. links' = [w \in Views |-> links'[w]]
    BY <1>2 DEF EnsureBlob, LinkOne, InputsTyped
  <2> QED
    BY <1>2, <2>3, <2>4 DEF EnsureBlob, LinkOne, InputsTyped, Syncs
<1>3. ASSUME NEW v \in Views, SyncBegin(v)
      PROVE  InputsTyped'
  <2>1. DOMAIN sync[v].want \in SUBSET Paths
    BY <1>0 DEF Syncs
  <2>2. sync' \in [Views -> Syncs]
    BY <1>0, <1>3, <2>1 DEF SyncBegin, Syncs
  <2>4. \A w \in Views : sync'[w].todo \subseteq DOMAIN sync'[w].want
    BY <1>0, <1>3 DEF SyncBegin, InputsTyped, Syncs
  <2>3. links' = [w \in Views |-> links'[w]]
    BY <1>3 DEF SyncBegin, InputsTyped
  <2> QED
    BY <1>3, <2>2, <2>3, <2>4 DEF SyncBegin, InputsTyped, Syncs
<1>4. ASSUME NEW v \in Views, Manifest(v)
      PROVE  InputsTyped'
  <2>1. sync' \in [Views -> Syncs]
    BY <1>0, <1>4 DEF Manifest
  <2>3. \A w \in Views : sync'[w].todo \subseteq DOMAIN sync'[w].want
    BY <1>0, <1>4 DEF Manifest, Idle, InputsTyped, Syncs
  <2>2. granted' \in [Views -> Lists] /\ mounts' \in [Views -> {"none", "creating", "mounted"}]
    BY <1>0, <1>4 DEF Manifest, InputsTyped, Syncs
  <2> QED
    BY <1>4, <2>1, <2>2, <2>3 DEF Manifest, InputsTyped, Syncs
<1>5. ASSUME NEW v \in Views, ContainerCreated(v) \/ ContainerGone(v) \/ GraceEnds(v)
      PROVE  InputsTyped'
  BY <1>5 DEF ContainerCreated, ContainerGone, GraceEnds, InputsTyped
<1>6. ASSUME NEW v \in Views, PruneOne(v)
      PROVE  InputsTyped'
  <2>1. prune' \in Prunes /\ links' = [w \in Views |-> links'[w]]
    BY <1>0, <1>6 DEF PruneOne, Prunes, InputsTyped
  <2> QED
    BY <1>6, <2>1 DEF PruneOne, InputsTyped, Prunes
<1>7. CASE PruneList \/ PruneEnd
  <2>1. prune' \in Prunes
    BY <1>0, <1>7 DEF PruneList, PruneEnd, Prunes
  <2> QED
    BY <1>7, <2>1 DEF PruneList, PruneEnd, InputsTyped, Prunes
<1>8. CASE EvictList \/ EvictOne
  BY <1>8 DEF EvictList, EvictOne, InputsTyped
<1> QED
  BY <1>1, <1>2, <1>3, <1>4, <1>5, <1>6, <1>7, <1>8 DEF InputsNext

(* What a call links is what it wants, blob by blob, whichever inodes are    *)
(* evicted and made anew meanwhile.                                          *)
LEMMA ViewSoundStep ==
    ASSUME InputsInv, InputsNext, NEW v \in Views \ torn'
    PROVE  ViewSound(v)'
<1> USE InputsAssumption
<1>0. InputsTyped /\ (v \notin torn => ViewSound(v))
  BY DEF InputsInv
<1>1. CASE UNCHANGED <<links[v], sync[v], granted[v]>> /\ v \notin torn
  BY <1>0, <1>1 DEF ViewSound, LinkedSoFar, Contents
<1>2. ASSUME NEW g \in Grants, Materialize(v, g)
      PROVE  ViewSound(v)'
  BY <1>0, <1>2 DEF Materialize, ViewSound, Contents, InputsTyped
<1>3. ASSUME NEW p, EnsureBlob(v, p)
      PROVE  ViewSound(v)'
  BY <1>0, <1>3 DEF EnsureBlob, Done, SyncFails, Idle, ViewSound, Contents, InputsTyped
<1>4. CASE SyncBegin(v)
  <2>1. /\ links'[v] = [gone |-> FALSE, files |-> Restrict(links[v].files, Kept(links[v].files, sync[v].want))]
        /\ sync'[v].pc = "link" /\ sync'[v].want = sync[v].want
        /\ sync'[v].todo = DOMAIN sync[v].want
    BY <1>0, <1>4 DEF SyncBegin, InputsTyped
  <2>2. \A p \in DOMAIN links'[v].files :
            p \in DOMAIN sync[v].want /\ links'[v].files[p].blob = sync[v].want[p]
    BY <2>1 DEF Restrict, Kept, Inode
  <2> QED
    BY <2>1, <2>2 DEF ViewSound, LinkedSoFar
<1>5. ASSUME NEW p, LinkOne(v, p)
      PROVE  ViewSound(v)'
  <2>1. v \notin torn /\ sync[v].pc = "link" /\ p \in sync[v].todo
    BY <1>5 DEF LinkOne
  <2>2. LinkedSoFar(v)
    BY <1>0, <2>1 DEF ViewSound
  <2>3. Done(v, p)
    BY <1>0, <1>5 DEF LinkOne
  <2>4. sync'[v].pc = "link" /\ sync'[v].want = sync[v].want /\ sync'[v].todo = sync[v].todo \ {p}
    BY <1>0, <2>1, <2>3 DEF Done, InputsTyped
  <2>5. CASE p \in DOMAIN links[v].files
    BY <1>5, <2>2, <2>4, <2>5 DEF LinkOne, ViewSound, LinkedSoFar
  <2>6. CASE p \notin DOMAIN links[v].files
    <3>1. links'[v] = [gone |-> FALSE,
                       files |-> [q \in DOMAIN links[v].files \union {p} |->
                                    IF q = p THEN Inode(sync[v].want[p]) ELSE links[v].files[q]]]
      BY <1>0, <1>5, <2>6 DEF LinkOne, InputsTyped
    <3>2. p \in DOMAIN sync[v].want
      BY <1>0, <1>5, <2>1 DEF LinkOne, InputsTyped
    <3> QED
      BY <2>2, <2>4, <3>1, <3>2 DEF ViewSound, LinkedSoFar, Inode
  <2> QED
    BY <2>5, <2>6
<1>6. CASE Manifest(v)
  <2>1. /\ v \notin torn /\ sync[v].pc = "link" /\ sync[v].todo = {} /\ links' = links
        /\ sync'[v].pc = "idle"
    BY <1>0, <1>6 DEF Manifest, Idle, InputsTyped
  <2>2. LinkedSoFar(v)
    BY <1>0, <2>1 DEF ViewSound
  <2>3. granted'[v] = sync[v].want
    BY <1>0, <1>6, <2>2 DEF Manifest, LinkedSoFar, InputsTyped
  <2>4. DOMAIN links[v].files = DOMAIN sync[v].want
    BY <2>1, <2>2 DEF LinkedSoFar
  <2>5. sync[v].want = [p \in DOMAIN sync[v].want |-> sync[v].want[p]]
    <3>1. sync[v].want \in Lists
      BY <1>0 DEF InputsTyped
    <3>2. \A g \in Lists : g = [p \in DOMAIN g |-> g[p]]
      BY DEF Lists, NoFiles
    <3> QED
      BY <3>1, <3>2
  <2>6. Contents(v) = [p \in DOMAIN sync[v].want |-> sync[v].want[p]]
    BY <2>2, <2>4 DEF Contents, LinkedSoFar
  <2> QED
    BY <2>1, <2>3, <2>5, <2>6 DEF ViewSound, Contents
<1>7. CASE PruneOne(v)
  <2>1. CASE Stays(v)
    BY <1>0, <1>7, <2>1 DEF PruneOne, ViewSound, LinkedSoFar, Contents
  <2>2. CASE ~Stays(v)
    <3>1. sync[v].pc # "link" /\ links'[v].gone /\ sync' = sync
      BY <1>0, <1>7, <2>2 DEF PruneOne, NoView, InputsTyped
    <3> QED
      BY <3>1 DEF ViewSound
  <2> QED
    BY <2>1, <2>2
<1>8. ASSUME NEW w \in Views, w # v,
             \/ \E g \in Grants : Materialize(w, g)
             \/ \E p \in sync[w].todo : EnsureBlob(w, p) \/ LinkOne(w, p)
             \/ SyncBegin(w) \/ Manifest(w) \/ PruneOne(w)
      PROVE  UNCHANGED <<links[v], sync[v], granted[v]>> /\ v \notin torn
  BY <1>0, <1>8 DEF Materialize, EnsureBlob, LinkOne, Done, SyncFails, SyncBegin, Manifest, PruneOne,
     InputsTyped
<1>9. CASE \/ \E w \in Views : ContainerCreated(w) \/ ContainerGone(w) \/ GraceEnds(w)
           \/ EvictList \/ EvictOne \/ PruneList \/ PruneEnd
  BY <1>1, <1>9 DEF ContainerCreated, ContainerGone, GraceEnds, EvictList, EvictOne, PruneList, PruneEnd
<1> QED
  BY <1>1, <1>2, <1>3, <1>4, <1>5, <1>6, <1>7, <1>8, <1>9 DEF InputsNext

(* The removal of views spares what is mounted or young.                     *)
LEMMA MountSoundStep ==
    ASSUME InputsInv, InputsNext, NEW v \in Views
    PROVE  MountSound(v)'
<1> USE InputsAssumption
<1>0. InputsTyped /\ MountSound(v)
  BY DEF InputsInv
<1>1. ASSUME NEW w \in Views, NEW g \in Grants, Materialize(w, g)
      PROVE  MountSound(v)'
  BY <1>0, <1>1 DEF Materialize, MountSound
<1>2. ASSUME NEW w \in Views, NEW p, EnsureBlob(w, p) \/ LinkOne(w, p) \/ SyncBegin(w)
      PROVE  MountSound(v)'
  BY <1>0, <1>2 DEF EnsureBlob, LinkOne, SyncBegin, Renewed, MountSound, InputsTyped
<1>3. ASSUME NEW w \in Views, Manifest(w)
      PROVE  MountSound(v)'
  BY <1>0, <1>3 DEF Manifest, MountSound, InputsTyped
<1>4. ASSUME NEW w \in Views, ContainerCreated(w) \/ ContainerGone(w) \/ GraceEnds(w)
      PROVE  MountSound(v)'
  BY <1>0, <1>4 DEF ContainerCreated, ContainerGone, GraceEnds, MountSound, InputsTyped
<1>5. ASSUME NEW w \in Views, PruneOne(w)
      PROVE  MountSound(v)'
  <2>1. /\ UNCHANGED <<mounts, fresh>> /\ prune'.pc = "judge" /\ prune.pc = "judge"
        /\ prune'.mounted = prune.mounted
    BY <1>0, <1>5 DEF PruneOne, InputsTyped
  <2>2. CASE Stays(w) \/ w # v
    <3>1. links'[v] = links[v]
      BY <1>0, <1>5, <2>2 DEF PruneOne, InputsTyped
    <3> QED
      BY <1>0, <2>1, <3>1 DEF MountSound
  <2>3. CASE ~Stays(v)
    <3>1. mounts[v] = "none"
      BY <1>0, <2>1, <2>3 DEF Stays, MountSound, InputsTyped
    <3> QED
      BY <2>1, <3>1 DEF MountSound
  <2> QED
    BY <2>2, <2>3
<1>6. CASE PruneList
  <2>1. UNCHANGED <<links, mounts, fresh>> /\ prune'.mounted = {w \in V1Views : mounts[w] = "mounted"}
    BY <1>6 DEF PruneList
  <2> QED
    BY <1>0, <2>1 DEF MountSound
<1>7. CASE PruneEnd \/ EvictList \/ EvictOne
  BY <1>0, <1>7 DEF PruneEnd, NoPrune, EvictList, EvictOne, MountSound
<1> QED
  BY <1>1, <1>2, <1>3, <1>4, <1>5, <1>6, <1>7 DEF InputsNext

(* The conjunction is inductive.                                             *)
LEMMA InputsInductive ==
    /\ InputsInit => InputsInv
    /\ InputsInv /\ [InputsNext]_inputsVars => InputsInv'
<1>1. ASSUME InputsInit PROVE InputsInv
  <2>1. Idle.pc = "idle" /\ Idle.todo = {} /\ NoPrune.pc = "idle" /\ NoView.gone
    BY DEF Idle, NoPrune, NoView
  <2>2. InputsTyped
    <3>1. /\ Idle \in [pc : {"idle", "ensure", "link"}, want : Lists, todo : SUBSET Paths]
          /\ NoPrune \in [pc : {"idle", "judge"}, mounted : SUBSET V1Views, todo : SUBSET V1Views]
          /\ NoFiles \in Lists
      BY DEF Idle, NoPrune, Lists
    <3> QED
      BY <1>1, <2>1, <3>1 DEF InputsInit, InputsTyped
  <2> QED
    BY <1>1, <2>1, <2>2 DEF InputsInit, InputsInv, ViewSound, MountSound
<1>2. ASSUME InputsInv, InputsNext PROVE InputsInv'
  BY <1>2, InputsTypedStep, ViewSoundStep, MountSoundStep DEF InputsInv
<1>3. ASSUME InputsInv, UNCHANGED inputsVars PROVE InputsInv'
  BY <1>3 DEF inputsVars, InputsInv, InputsTyped, ViewSound, LinkedSoFar, Contents, MountSound
<1> QED
  BY <1>1, <1>2, <1>3

(* A view that no call works on, and that none left in pieces, holds exactly *)
(* the files of its last grant, for all grants, evictions and overlapping    *)
(* calls for other views.                                                    *)
THEOREM GrantedViewsExact == InputsSpec => []GrantedViewIsExact
<1>1. InputsInv => GrantedViewIsExact
  BY DEF InputsInv, ViewSound, GrantedViewIsExact
<1> QED
  BY <1>1, InputsInductive, PTL DEF InputsSpec

(* What a container mounts is there, although the removal of views works     *)
(* from an inventory older than the container, for any number of views.      *)
THEOREM MountedViewsStay == InputsSpec => []MountedViewStays
<1>1. InputsInv => MountedViewStays
  BY InputsAssumption DEF InputsInv, MountSound, MountedViewStays
<1> QED
  BY <1>1, InputsInductive, PTL DEF InputsSpec

-----------------------------------------------------------------------------
\* The origins of terminal jobs (JobLedger).

\* What the ledger need not, or does, or no longer claims to, know.
Safe(j) ==
    \/ j \in past.cut \/ jobs[j].state = "refused" \/ ~jobs[j].origin
    \/ jobs[j].at \in aged \/ j \in Entered \/ jobs[j].at \in ledger.gaps

Flying(s) == {j \in proxied : jobs[j].at = s}
Instance == Sandboxes \union {None}
Files == [jobs : [Jobs -> [end : {"open", "ended", "absent"}, origin : BOOLEAN]],
          unobserved : SUBSET Sandboxes, gaps : SUBSET Sandboxes]
Reports == [pc : {"idle", "asked", "answered"}, of : Instance, token : Nat \union {None},
            kind : {"activity", "jobs"}, live : SUBSET Sandboxes, before : SUBSET Jobs,
            returned : SUBSET Jobs, running : SUBSET Jobs, over : SUBSET Jobs, bare : SUBSET Jobs]

LedgerTyped ==
    /\ jobs \in [Jobs -> [at : Instance, state : {"none", "asked", "running", "over", "refused"},
                          origin : BOOLEAN]]
    /\ conts \subseteq Sandboxes /\ discarding \subseteq Sandboxes
    /\ inst \in [id : Instance, status : {"none", "ready", "quiesced"}]
    /\ proxied \subseteq Jobs /\ IsFiniteSet(proxied)
    /\ ledger \in Files
    /\ seq \in [Sandboxes -> Nat] /\ inFlight \in [Sandboxes -> Nat]
    /\ obs \in [Observers -> Reports]
    /\ past \in [cut : SUBSET Jobs, misjudged : SUBSET Jobs]

\* A job between its start, its container and the ledger.
OriginSound(j) ==
    /\ jobs[j].state = "none" <=> jobs[j].at = None
    /\ jobs[j].state \in {"none", "asked"} => jobs[j].origin /\ j \notin Entered
    /\ j \in proxied => jobs[j].state # "none"
    /\ jobs[j].state = "asked" => j \in proxied \/ j \in past.cut
    /\ jobs[j].state = "running" => jobs[j].at \in conts
    /\ jobs[j].state = "running" /\ j \notin past.misjudged => Entry(j).end # "ended"
    /\ jobs[j].state # "none" => Safe(j) \/ jobs[j].at \in ledger.unobserved

\* Containers are of the instance or of discards; counts are exact while the
\* container runs; an instance that no start can reach has no mark.
AreaSound ==
    /\ inst.status = "ready" => inst.id # None
    /\ conts \subseteq discarding \union {inst.id} /\ inst.id \notin discarding
    /\ inst.status # "ready" => inst.id \notin ledger.unobserved
    /\ \A s \in conts : inFlight[s] = Cardinality(Flying(s))
    /\ \A s \in Sandboxes : Of(s) = {} => seq[s] = 0 /\ inFlight[s] = 0

\* What a report, or the question for it, tells of the jobs, if its token still
\* covers them and even if not.
Covering(r) ==
    /\ r.pc = "asked" /\ r.of \in conts =>
         \A j \in Of(r.of) : Safe(j) \/ jobs[j].state \in {"running", "over"}
    /\ r.pc = "answered" => \A j \in Of(r.of) : Safe(j) \/ j \in r.running \union r.over

Telling(r) ==
    /\ r.running \union r.over \union r.bare \subseteq Launched \intersect Of(r.of)
    /\ \A j \in r.over : jobs[j].state = "over"
    /\ \A j \in r.running \union r.over : jobs[j].origin
    /\ \A j \in r.bare : ~jobs[j].origin
    /\ \A j \in Of(r.of) \intersect r.before :
         /\ jobs[j].state = "running" => j \in r.running \union r.bare
         /\ jobs[j].origin => j \in r.running \union r.over

ReportSound(r) ==
    r.pc # "idle" =>
        /\ r.of # None /\ r.of \in r.live
        /\ Of(r.of) = {} => r.token \in {None, 0}
        /\ inst.status = "ready" /\ inst.id = r.of /\ r.token # None => r.token <= seq[r.of]
        /\ r.before \subseteq Launched /\ r.returned \subseteq r.before
        /\ r.kind = "jobs" => \A j \in r.before : jobs[j].state = "running" => jobs[j].at \in r.live
        /\ r.token = seq[r.of] => Covering(r)
        /\ r.pc = "answered" => Telling(r)

LedgerInv ==
    /\ LedgerTyped
    /\ \A j \in Jobs : OriginSound(j)
    /\ AreaSound
    /\ \A o \in Observers : ReportSound(obs[o])

\* What the operations do to the file.
Entries(l) == {j \in Jobs : l.jobs[j].end # "absent"}
EndedIn(l) == {j \in Jobs : l.jobs[j].end = "ended"}
Reported(r) == r.running \union r.over \union r.bare

(* Ending jobs ends those that are open.                                     *)
LEMMA EndedFile ==
    ASSUME NEW l \in Files, NEW J
    PROVE  /\ Ended(l, J) \in Files
           /\ Ended(l, J).unobserved = l.unobserved /\ Ended(l, J).gaps = l.gaps
           /\ \A j \in Jobs :
                /\ Ended(l, J).jobs[j].origin = l.jobs[j].origin
                /\ Ended(l, J).jobs[j].end =
                     IF j \in J /\ l.jobs[j].end = "open" THEN "ended" ELSE l.jobs[j].end
<1> DEFINE f == [j \in Jobs |-> IF j \in J /\ l.jobs[j].end = "open"
                                THEN [l.jobs[j] EXCEPT !.end = "ended"] ELSE l.jobs[j]]
<1>1. l.jobs \in [Jobs -> [end : {"open", "ended", "absent"}, origin : BOOLEAN]]
  BY DEF Files
<1>2. f \in [Jobs -> [end : {"open", "ended", "absent"}, origin : BOOLEAN]]
  BY <1>1
<1>3. \A j \in Jobs : /\ f[j].origin = l.jobs[j].origin
                      /\ f[j].end = IF j \in J /\ l.jobs[j].end = "open" THEN "ended" ELSE l.jobs[j].end
  BY <1>1
<1>4. Ended(l, J) = [l EXCEPT !.jobs = f]
  BY DEF Ended
<1> HIDE DEF f
<1>5. /\ Ended(l, J) \in Files /\ Ended(l, J).jobs = f
      /\ Ended(l, J).unobserved = l.unobserved /\ Ended(l, J).gaps = l.gaps
  BY <1>2, <1>4 DEF Files
<1> QED
  BY <1>3, <1>5

(* Pruning forgets only what is aged.                                        *)
LEMMA PrunedFile ==
    ASSUME NEW l \in Files
    PROVE  /\ Pruned(l) \in Files
           /\ Pruned(l).unobserved = l.unobserved /\ Pruned(l).gaps = l.gaps \ aged
           /\ \A j \in Jobs : IF l.jobs[j].end = "ended" /\ jobs[j].at \in aged
                              THEN Pruned(l).jobs[j].end = "absent"
                              ELSE Pruned(l).jobs[j] = l.jobs[j]
<1> DEFINE f == [j \in Jobs |-> IF l.jobs[j].end = "ended" /\ jobs[j].at \in aged
                                THEN NoEntry ELSE l.jobs[j]]
<1>1. l.jobs \in [Jobs -> [end : {"open", "ended", "absent"}, origin : BOOLEAN]]
  BY DEF Files
<1>2. /\ NoEntry.end = "absent"
      /\ NoEntry \in [end : {"open", "ended", "absent"}, origin : BOOLEAN]
  BY DEF NoEntry
<1>3. f \in [Jobs -> [end : {"open", "ended", "absent"}, origin : BOOLEAN]]
  BY <1>1, <1>2
<1>4. \A j \in Jobs : IF l.jobs[j].end = "ended" /\ jobs[j].at \in aged
                      THEN f[j].end = "absent" ELSE f[j] = l.jobs[j]
  BY <1>2
<1>5. Pruned(l) = [l EXCEPT !.jobs = f, !.gaps = @ \ aged]
  BY DEF Pruned
<1> HIDE DEF f
<1>6. /\ Pruned(l) \in Files /\ Pruned(l).jobs = f
      /\ Pruned(l).unobserved = l.unobserved /\ Pruned(l).gaps = l.gaps \ aged
  BY <1>3, <1>5 DEF Files
<1> QED
  BY <1>4, <1>6

(* Settling instances ends their jobs and makes gaps of their marks.         *)
LEMMA SettledFile ==
    ASSUME NEW l \in Files, NEW S \in SUBSET Sandboxes
    PROVE  /\ Settled(l, S) \in Files
           /\ Settled(l, S).unobserved = l.unobserved \ S
           /\ Settled(l, S).gaps = l.gaps \union (l.unobserved \intersect S)
           /\ \A j \in Jobs :
                /\ Settled(l, S).jobs[j].origin = l.jobs[j].origin
                /\ Settled(l, S).jobs[j].end =
                     IF jobs[j].at \in S /\ l.jobs[j].end = "open" THEN "ended" ELSE l.jobs[j].end
<1> DEFINE J == UNION {Of(s) : s \in S}
           e == Ended(l, J)
<1>1. \A j \in Jobs : j \in J <=> jobs[j].at \in S
  BY DEF Of
<1> HIDE DEF J
<1>2. /\ e \in Files /\ e.unobserved = l.unobserved /\ e.gaps = l.gaps
      /\ \A j \in Jobs :
           /\ e.jobs[j].origin = l.jobs[j].origin
           /\ e.jobs[j].end = IF j \in J /\ l.jobs[j].end = "open" THEN "ended" ELSE l.jobs[j].end
  BY EndedFile
<1>3. Settled(l, S) = [e EXCEPT !.gaps = @ \union (l.unobserved \intersect S), !.unobserved = @ \ S]
  BY DEF Settled, J
<1> HIDE DEF e
<1>4. /\ Settled(l, S) \in Files /\ Settled(l, S).jobs = e.jobs
      /\ Settled(l, S).unobserved = l.unobserved \ S
      /\ Settled(l, S).gaps = l.gaps \union (l.unobserved \intersect S)
  BY <1>2, <1>3 DEF Files
<1> QED
  BY <1>1, <1>2, <1>4

(* Noting a report enters what it names and ends what it calls over.         *)
LEMMA NotedFile ==
    ASSUME NEW l \in Files, NEW r, (r.running \union r.over) \intersect r.bare = {}
    PROVE  /\ Noted(l, r) \in Files
           /\ Noted(l, r).unobserved = l.unobserved /\ Noted(l, r).gaps = l.gaps
           /\ \A j \in Jobs :
                /\ l.jobs[j].end # "absent" => /\ Noted(l, r).jobs[j].origin = l.jobs[j].origin
                                               /\ Noted(l, r).jobs[j].end # "absent"
                /\ j \in r.running \union r.over /\ l.jobs[j].end = "absent"
                     => Noted(l, r).jobs[j].end # "absent" /\ Noted(l, r).jobs[j].origin
                /\ j \notin Reported(r) => Noted(l, r).jobs[j] = l.jobs[j]
                /\ Noted(l, r).jobs[j].end = "ended" => l.jobs[j].end = "ended" \/ j \in r.over
                /\ l.jobs[j].end = "ended" => Noted(l, r).jobs[j].end = "ended"
<1> DEFINE Records == [end : {"open", "ended", "absent"}, origin : BOOLEAN]
           f == [j \in Jobs |->
                   CASE l.jobs[j].end = "absent" /\ j \in r.running \union r.over ->
                          [end |-> IF j \in r.over THEN "ended" ELSE "open", origin |-> TRUE]
                     [] l.jobs[j].end = "absent" /\ j \in r.bare -> [end |-> "open", origin |-> FALSE]
                     [] l.jobs[j].end = "open" /\ j \in r.over -> [l.jobs[j] EXCEPT !.end = "ended"]
                     [] OTHER -> l.jobs[j]]
<1>1. l.jobs \in [Jobs -> Records]
  BY DEF Files
<1>2. ASSUME NEW j \in Jobs
      PROVE  \/ /\ l.jobs[j].end = "absent" /\ j \in r.running \union r.over
                /\ f[j] = [end |-> IF j \in r.over THEN "ended" ELSE "open", origin |-> TRUE]
             \/ /\ l.jobs[j].end = "absent" /\ j \notin r.running \union r.over /\ j \in r.bare
                /\ f[j] = [end |-> "open", origin |-> FALSE]
             \/ /\ l.jobs[j].end = "open" /\ j \in r.over
                /\ f[j] = [l.jobs[j] EXCEPT !.end = "ended"]
             \/ /\ l.jobs[j].end # "absent" \/ j \notin Reported(r)
                /\ f[j] = l.jobs[j]
  <2>1. CASE l.jobs[j].end = "absent" /\ j \in r.running \union r.over
    <3>1. l.jobs[j].end # "open" /\ j \notin r.bare
      BY <2>1
    <3>2. f[j] = [end |-> IF j \in r.over THEN "ended" ELSE "open", origin |-> TRUE]
      BY <2>1, <3>1, Zenon
    <3> QED
      BY <2>1, <3>2
  <2>2. CASE l.jobs[j].end = "absent" /\ j \notin r.running \union r.over /\ j \in r.bare
    <3>1. l.jobs[j].end # "open"
      BY <2>2
    <3>2. f[j] = [end |-> "open", origin |-> FALSE]
      BY <2>2, <3>1, Zenon
    <3> QED
      BY <2>2, <3>2
  <2>3. CASE l.jobs[j].end = "open" /\ j \in r.over
    BY <2>3
  <2>4. CASE \/ l.jobs[j].end = "absent" /\ j \notin Reported(r)
             \/ l.jobs[j].end # "absent" /\ ~(l.jobs[j].end = "open" /\ j \in r.over)
    BY <2>4 DEF Reported
  <2> QED
    BY <2>1, <2>2, <2>3, <2>4 DEF Reported
<1>3. Noted(l, r) = [l EXCEPT !.jobs = f]
  BY DEF Noted
<1>4. f = [j \in Jobs |-> f[j]]
  OBVIOUS
<1> HIDE DEF f
<1>5. ASSUME NEW j \in Jobs
      PROVE  /\ f[j] \in Records
             /\ l.jobs[j].end # "absent" => f[j].origin = l.jobs[j].origin /\ f[j].end # "absent"
             /\ j \in r.running \union r.over /\ l.jobs[j].end = "absent"
                  => f[j].end # "absent" /\ f[j].origin
             /\ j \notin Reported(r) => f[j] = l.jobs[j]
             /\ f[j].end = "ended" => l.jobs[j].end = "ended" \/ j \in r.over
             /\ l.jobs[j].end = "ended" => f[j].end = "ended"
  <2>0. l.jobs[j] \in Records
    BY <1>1
  <2>1. CASE /\ l.jobs[j].end = "absent" /\ j \in r.running \union r.over
             /\ f[j] = [end |-> IF j \in r.over THEN "ended" ELSE "open", origin |-> TRUE]
    BY <2>1 DEF Reported
  <2>2. CASE /\ l.jobs[j].end = "absent" /\ j \notin r.running \union r.over /\ j \in r.bare
             /\ f[j] = [end |-> "open", origin |-> FALSE]
    BY <2>2 DEF Reported
  <2>3. CASE /\ l.jobs[j].end = "open" /\ j \in r.over
             /\ f[j] = [l.jobs[j] EXCEPT !.end = "ended"]
    BY <2>0, <2>3 DEF Reported
  <2>4. CASE /\ l.jobs[j].end # "absent" \/ j \notin Reported(r)
             /\ f[j] = l.jobs[j]
    BY <2>0, <2>4 DEF Reported
  <2> QED
    BY <1>2, <2>1, <2>2, <2>3, <2>4
<1>6. f \in [Jobs -> Records]
  BY <1>4, <1>5
<1>7. /\ Noted(l, r) \in Files /\ Noted(l, r).jobs = f
      /\ Noted(l, r).unobserved = l.unobserved /\ Noted(l, r).gaps = l.gaps
  BY <1>3, <1>6 DEF Files
<1> QED
  BY <1>5, <1>7

(* Merging a report enters what it names, and ends what it calls over or     *)
(* does not name; a mark goes only if the report's token covers it.          *)
LEMMA MergedFile ==
    ASSUME NEW l \in Files, NEW r, (r.running \union r.over) \intersect r.bare = {}
    PROVE  /\ Merged(l, r) \in Files
           /\ Merged(l, r).gaps = l.gaps \ aged
           /\ Merged(l, r).unobserved = IF Covers(r) THEN l.unobserved \ {r.of} ELSE l.unobserved
           /\ \A j \in Jobs :
                /\ jobs[j].at \notin aged /\ j \in Entries(l) \union r.running \union r.over
                     => j \in Entries(Merged(l, r))
                /\ j \in Entries(Merged(l, r)) => j \in Entries(l) \union Reported(r)
                /\ j \in EndedIn(Merged(l, r))
                     => \/ j \in EndedIn(l) \union r.over
                        \/ l.jobs[j].end = "open" /\ j \in Silent(r)
                /\ j \in Entries(Merged(l, r)) \intersect Entries(l)
                     => Merged(l, r).jobs[j].origin = l.jobs[j].origin
                /\ j \in Entries(Merged(l, r)) \ Entries(l) /\ j \in r.running \union r.over
                     => Merged(l, r).jobs[j].origin
                /\ j \in EndedIn(l) \intersect Entries(Merged(l, r)) => j \in EndedIn(Merged(l, r))
<1> DEFINE n == Noted(l, r)
           e == Ended(n, Silent(r))
           m == Pruned(e)
<1>1. n \in Files
  BY NotedFile
<1>2. e \in Files
  BY <1>1, EndedFile
<1>3. m \in Files
  BY <1>2, PrunedFile
<1>4. /\ e.unobserved = l.unobserved /\ e.gaps = l.gaps
  BY <1>1, NotedFile, EndedFile
<1>5. m.unobserved = l.unobserved /\ m.gaps = l.gaps \ aged
  BY <1>2, <1>4, PrunedFile
<1>6. Merged(l, r) = IF Covers(r) THEN [m EXCEPT !.unobserved = @ \ {r.of}] ELSE m
  BY DEF Merged
<1>7. ASSUME NEW j \in Jobs
      PROVE  /\ l.jobs[j].end # "absent" => n.jobs[j].origin = l.jobs[j].origin /\ n.jobs[j].end # "absent"
             /\ j \in r.running \union r.over /\ l.jobs[j].end = "absent"
                  => n.jobs[j].end # "absent" /\ n.jobs[j].origin
             /\ j \notin Reported(r) => n.jobs[j] = l.jobs[j]
             /\ n.jobs[j].end = "ended" => l.jobs[j].end = "ended" \/ j \in r.over
             /\ l.jobs[j].end = "ended" => n.jobs[j].end = "ended"
  BY <1>7, NotedFile
<1>8. ASSUME NEW j \in Jobs
      PROVE  /\ e.jobs[j].origin = n.jobs[j].origin
             /\ e.jobs[j].end = IF j \in Silent(r) /\ n.jobs[j].end = "open" THEN "ended"
                                ELSE n.jobs[j].end
  BY <1>1, <1>8, EndedFile
<1>9. ASSUME NEW j \in Jobs
      PROVE  IF e.jobs[j].end = "ended" /\ jobs[j].at \in aged
             THEN m.jobs[j].end = "absent" ELSE m.jobs[j] = e.jobs[j]
  BY <1>2, <1>9, PrunedFile
<1> HIDE DEF n, e, m
<1>10. /\ Merged(l, r) \in Files /\ Merged(l, r).jobs = m.jobs
       /\ Merged(l, r).gaps = l.gaps \ aged
       /\ Merged(l, r).unobserved = IF Covers(r) THEN l.unobserved \ {r.of} ELSE l.unobserved
  BY <1>3, <1>5, <1>6 DEF Files
<1>11. ASSUME NEW j \in Jobs
       PROVE  /\ jobs[j].at \notin aged /\ j \in Entries(l) \union r.running \union r.over
                   => m.jobs[j].end # "absent"
              /\ m.jobs[j].end # "absent" => j \in Entries(l) \union Reported(r)
              /\ m.jobs[j].end = "ended"
                   => \/ j \in EndedIn(l) \union r.over
                      \/ l.jobs[j].end = "open" /\ j \in Silent(r)
              /\ m.jobs[j].end # "absent" /\ j \in Entries(l) => m.jobs[j].origin = l.jobs[j].origin
              /\ m.jobs[j].end # "absent" /\ j \notin Entries(l) /\ j \in r.running \union r.over
                   => m.jobs[j].origin
              /\ l.jobs[j].end = "ended" /\ m.jobs[j].end # "absent" => m.jobs[j].end = "ended"
  <2>1. j \in Silent(r) => j \notin Reported(r)
    BY DEF Silent, Reported
  <2> QED
    BY <1>7, <1>8, <1>9, <2>1 DEF Entries, EndedIn, Reported
<1> QED
  BY <1>10, <1>11 DEF Entries, EndedIn

(* A snapshot leaves marks only where instances are live.                    *)
LEMMA SnapshotFile ==
    ASSUME NEW l \in Files, NEW live
    PROVE  /\ Snapshot(l, live) \in Files
           /\ Snapshot(l, live).unobserved = l.unobserved \intersect live
           /\ Snapshot(l, live).gaps = (l.gaps \union (l.unobserved \ live)) \ aged
           /\ \A j \in Jobs :
                /\ jobs[j].at \notin aged /\ j \in Entries(l) => j \in Entries(Snapshot(l, live))
                /\ j \in Entries(Snapshot(l, live))
                     => j \in Entries(l) /\ Snapshot(l, live).jobs[j].origin = l.jobs[j].origin
                /\ j \in EndedIn(Snapshot(l, live))
                     => j \in EndedIn(l) \/ (l.jobs[j].end = "open" /\ jobs[j].at \notin live)
                /\ j \in EndedIn(l) \intersect Entries(Snapshot(l, live)) => j \in EndedIn(Snapshot(l, live))
<1> DEFINE D == Dead(l, live)
           e == Settled(l, D)
<1>1. D \in SUBSET Sandboxes /\ D \intersect live = {}
      /\ l.unobserved \ D = l.unobserved \intersect live /\ l.unobserved \intersect D = l.unobserved \ live
  BY DEF Dead, Files
<1> HIDE DEF D
<1>2. /\ e \in Files /\ e.unobserved = l.unobserved \intersect live
      /\ e.gaps = l.gaps \union (l.unobserved \ live)
  BY <1>1, SettledFile
<1>3. ASSUME NEW j \in Jobs
      PROVE  /\ e.jobs[j].origin = l.jobs[j].origin
             /\ e.jobs[j].end = IF jobs[j].at \in D /\ l.jobs[j].end = "open" THEN "ended"
                                ELSE l.jobs[j].end
  BY <1>1, <1>3, SettledFile
<1>4. Snapshot(l, live) = Pruned(e)
  BY DEF Snapshot, D
<1> HIDE DEF e
<1>5. ASSUME NEW j \in Jobs
      PROVE  IF e.jobs[j].end = "ended" /\ jobs[j].at \in aged
             THEN Pruned(e).jobs[j].end = "absent" ELSE Pruned(e).jobs[j] = e.jobs[j]
  BY <1>2, <1>5, PrunedFile
<1>6. /\ Pruned(e) \in Files /\ Pruned(e).unobserved = e.unobserved
      /\ Pruned(e).gaps = e.gaps \ aged
  BY <1>2, PrunedFile
<1> QED
  BY <1>1, <1>2, <1>3, <1>4, <1>5, <1>6 DEF Entries, EndedIn

-----------------------------------------------------------------------------
\* How a step of the ledger's world moves jobs and counts.

JobRecords == [at : Instance, state : {"none", "asked", "running", "over", "refused"},
               origin : BOOLEAN]

\* j stays where it is, and goes from asked to running to over, or is refused.
Moves(j) ==
    LET a == jobs[j]  b == jobs'[j] IN
    /\ a.state # "none" => b.at = a.at /\ b.state # "none"
    /\ a.state = "running" => b.state \in {"running", "over"} /\ b.origin = a.origin
    /\ a.state \in {"over", "refused"} => b = a
    /\ a.state = "asked" => \/ b.state \in {"asked", "refused"} /\ b.origin = a.origin
                            \/ b.state = "running" /\ a.at \in conts /\ UNCHANGED <<conts, ledger>>
    /\ a.state = "none" => b = a \/ StartBegin(j)

(* Every step moves every job this way, if it moves it at all.               *)
LEMMA JobsMove ==
    ASSUME LedgerTyped, LedgerNext
    PROVE  jobs' \in [Jobs -> JobRecords] /\ \A j \in Jobs : Moves(j)
<1>0. jobs \in [Jobs -> JobRecords] /\ inst.id \in Instance /\ conts \subseteq Sandboxes
  BY DEF LedgerTyped, JobRecords
<1>1. CASE jobs' = jobs
  <2>1. \A j \in Jobs : jobs[j] \in JobRecords
    BY <1>0
  <2> QED
    BY <1>0, <1>1, <2>1 DEF Moves, JobRecords
<1>2. ASSUME NEW k \in Jobs, StartBegin(k) \/ Launch(k) \/ StartEnd(k) \/ Finish(k)
      PROVE  jobs' \in [Jobs -> JobRecords] /\ \A j \in Jobs : Moves(j)
  <2>0. jobs[k] \in JobRecords
    BY <1>0
  <2>1. PICK b \in JobRecords : jobs' = [jobs EXCEPT ![k] = b] /\ (b # jobs[k] => Moves(k))
    <3>1. CASE StartBegin(k)
      <4>1. jobs' = [jobs EXCEPT ![k] = [jobs[k] EXCEPT !.at = inst.id, !.state = "asked"]]
        BY <1>0, <3>1 DEF StartBegin
      <4>2. [jobs[k] EXCEPT !.at = inst.id, !.state = "asked"] \in JobRecords
        BY <1>0, <2>0 DEF JobRecords
      <4>3. Moves(k)
        BY <3>1 DEF StartBegin, Moves
      <4> QED
        BY <4>1, <4>2, <4>3
    <3>2. CASE Launch(k)
      <4>1. PICK o \in BOOLEAN :
              jobs' = [jobs EXCEPT ![k] = [jobs[k] EXCEPT !.state = "running", !.origin = o]]
        BY <1>0, <3>2 DEF Launch
      <4>2. [jobs[k] EXCEPT !.state = "running", !.origin = o] \in JobRecords
        BY <2>0 DEF JobRecords
      <4>3. Moves(k)
        BY <1>0, <2>0, <3>2, <4>1 DEF Launch, Moves, JobRecords
      <4> QED
        BY <4>1, <4>2, <4>3
    <3>3. CASE Finish(k)
      <4>1. jobs' = [jobs EXCEPT ![k] = [jobs[k] EXCEPT !.state = "over"]]
        BY <1>0, <3>3 DEF Finish
      <4>2. [jobs[k] EXCEPT !.state = "over"] \in JobRecords
        BY <2>0 DEF JobRecords
      <4>3. Moves(k)
        BY <1>0, <2>0, <3>3, <4>1 DEF Finish, Moves, JobRecords
      <4> QED
        BY <4>1, <4>2, <4>3
    <3>4. CASE StartEnd(k) /\ jobs' # jobs
      <4>1. /\ jobs' = [jobs EXCEPT ![k] = [jobs[k] EXCEPT !.state = "refused"]]
            /\ jobs[k].state = "asked"
        BY <1>0, <3>4 DEF StartEnd
      <4>2. [jobs[k] EXCEPT !.state = "refused"] \in JobRecords
        BY <2>0 DEF JobRecords
      <4>3. Moves(k)
        BY <1>0, <2>0, <4>1 DEF Moves, JobRecords
      <4> QED
        BY <4>1, <4>2, <4>3
    <3>5. CASE jobs' = jobs
      <4>1. jobs' = [jobs EXCEPT ![k] = jobs[k]]
        BY <1>0, <3>5
      <4> QED
        BY <2>0, <4>1
    <3> QED
      BY <1>2, <3>1, <3>2, <3>3, <3>4, <3>5
  <2>2. jobs' \in [Jobs -> JobRecords]
    BY <1>0, <2>1
  <2>3. \A j \in Jobs : jobs'[j] = jobs[j] \/ (j = k /\ Moves(k))
    BY <1>0, <2>1
  <2>4. \A j \in Jobs : jobs'[j] = jobs[j] => Moves(j)
    BY <1>0 DEF Moves, JobRecords
  <2> QED
    BY <2>2, <2>3, <2>4
<1>3. ASSUME NEW E, jobs' = [j \in Jobs |-> IF j \in E /\ jobs[j].state = "running"
                                             THEN [jobs[j] EXCEPT !.state = "over"] ELSE jobs[j]]
      PROVE  jobs' \in [Jobs -> JobRecords] /\ \A j \in Jobs : Moves(j)
  <2>1. \A j \in Jobs : jobs[j] \in JobRecords
    BY <1>0
  <2>2. \A j \in Jobs : [jobs[j] EXCEPT !.state = "over"] \in JobRecords
    BY <2>1 DEF JobRecords
  <2>3. jobs' \in [Jobs -> JobRecords]
    BY <1>3, <2>1, <2>2
  <2>4. ASSUME NEW j \in Jobs PROVE Moves(j)
    <3>1. \/ jobs'[j] = jobs[j]
          \/ jobs[j].state = "running" /\ jobs'[j] = [jobs[j] EXCEPT !.state = "over"]
      BY <1>3
    <3> QED
      BY <2>1, <3>1 DEF Moves, JobRecords
  <2> QED
    BY <2>3, <2>4
<1>4. ASSUME NEW s \in Sandboxes, Kill(s)
      PROVE  jobs' \in [Jobs -> JobRecords] /\ \A j \in Jobs : Moves(j)
  <2>1. jobs' = [j \in Jobs |-> IF j \in Of(s) /\ jobs[j].state = "running"
                                THEN [jobs[j] EXCEPT !.state = "over"] ELSE jobs[j]]
    BY <1>4 DEF Kill, Killed
  <2> QED
    BY <1>3, <2>1
<1>5. CASE Crash
  <2>1. CASE jobs' = [j \in Jobs |-> IF jobs[j].state = "running"
                                     THEN [jobs[j] EXCEPT !.state = "over"] ELSE jobs[j]]
    <3>1. jobs' = [j \in Jobs |-> IF j \in Jobs /\ jobs[j].state = "running"
                                  THEN [jobs[j] EXCEPT !.state = "over"] ELSE jobs[j]]
      BY <2>1
    <3> QED
      BY <1>3, <3>1
  <2>2. ASSUME NEW s \in conts,
               jobs' = [j \in Jobs |-> IF jobs[j].at # s /\ jobs[j].state = "running"
                                       THEN [jobs[j] EXCEPT !.state = "over"] ELSE jobs[j]]
        PROVE  jobs' \in [Jobs -> JobRecords] /\ \A j \in Jobs : Moves(j)
    <3>1. jobs' = [j \in Jobs |-> IF j \in Jobs \ Of(s) /\ jobs[j].state = "running"
                                  THEN [jobs[j] EXCEPT !.state = "over"] ELSE jobs[j]]
      BY <2>2 DEF Of
    <3> QED
      BY <1>3, <3>1
  <2> QED
    BY <1>5, <2>1, <2>2 DEF Crash
<1>6. CASE \/ \E o \in Observers : Activity(o) \/ Answered(o) \/ ActivityEnds(o)
                                   \/ ReportBegin(o) \/ ReportEnds(o)
           \/ ReportNow \/ DiscardBegin \/ Quiesce
           \/ \E s \in Sandboxes : Create(s) \/ DiscardEnd(s) \/ Age(s)
  <2>1. jobs' = jobs
    BY <1>6 DEF Activity, Answered, ActivityEnds, ReportBegin, ReportEnds, ReportNow, jobVars,
                DiscardBegin, Quiesce, Create, DiscardEnd, Age
  <2> QED
    BY <1>1, <2>1
<1> QED
  BY <1>2, <1>4, <1>5, <1>6 DEF LedgerNext

-----------------------------------------------------------------------------
\* How a step changes the file.

\* From l to m nothing is lost but with age, and nothing is taken back.
Preserved(l, m) ==
    /\ m \in Files
    /\ \A j \in Entries(l) : jobs[j].at \notin aged => j \in Entries(m)
    /\ l.gaps \subseteq m.gaps \union aged
    /\ \A j \in Entries(l) \intersect Entries(m) :
         /\ m.jobs[j].origin = l.jobs[j].origin
         /\ j \in EndedIn(l) => j \in EndedIn(m)

\* What the answered reports say is coherent.
ReportsTell == \A o \in Observers : obs[o].pc = "answered" => Telling(obs[o])

(* Settling keeps.                                                           *)
LEMMA SettledKeeps ==
    ASSUME NEW l \in Files, NEW S \in SUBSET Sandboxes
    PROVE  /\ Preserved(l, Settled(l, S))
           /\ Entries(Settled(l, S)) = Entries(l)
<1>1. \A j \in Jobs : /\ Settled(l, S).jobs[j].origin = l.jobs[j].origin
                      /\ Settled(l, S).jobs[j].end =
                           IF jobs[j].at \in S /\ l.jobs[j].end = "open" THEN "ended" ELSE l.jobs[j].end
  BY SettledFile
<1>2. Settled(l, S) \in Files /\ l.gaps \subseteq Settled(l, S).gaps
  BY SettledFile
<1> QED
  BY <1>1, <1>2 DEF Preserved, Entries, EndedIn

(* So does a merge, if the report is coherent.                               *)
LEMMA ProbeKeeps ==
    ASSUME LedgerTyped, ReportsTell, NEW o \in Observers
    PROVE  /\ Preserved(ledger, AfterProbe(obs[o]))
           /\ Entries(AfterProbe(obs[o])) \subseteq Entered \union Launched
           /\ AfterProbe(obs[o]).unobserved \subseteq ledger.unobserved
           /\ AfterProbe(obs[o]).unobserved = ledger.unobserved
              \/ /\ obs[o].pc = "answered" /\ Covers(obs[o])
                 /\ AfterProbe(obs[o]).unobserved = ledger.unobserved \ {obs[o].of}
           /\ obs[o].pc = "answered" =>
                \A j \in obs[o].running \union obs[o].over :
                   jobs[j].at \notin aged => j \in Entries(AfterProbe(obs[o]))
           /\ \A j \in EndedIn(AfterProbe(obs[o])) \ EndedIn(ledger) :
                /\ obs[o].pc = "answered"
                /\ j \in obs[o].over \/ (Entry(j).end = "open" /\ j \in Silent(obs[o]))
<1> DEFINE r == obs[o]
<1>0. ledger \in Files /\ Entered = Entries(ledger)
  BY DEF LedgerTyped, Entered, Entries, Entry
<1>1. CASE r.pc # "answered"
  <2>1. AfterProbe(r) = ledger
    BY <1>1 DEF AfterProbe
  <2> QED
    BY <1>0, <1>1, <2>1 DEF Preserved
<1>2. CASE r.pc = "answered"
  <2>1. AfterProbe(r) = Merged(ledger, r)
    BY <1>2 DEF AfterProbe
  <2>2. Telling(r)
    BY <1>2 DEF ReportsTell
  <2>3. /\ (r.running \union r.over) \intersect r.bare = {}
        /\ Reported(r) \subseteq Launched /\ r.running \union r.over \subseteq Jobs
    BY <2>2 DEF Telling, Reported, Launched
  <2> DEFINE m == Merged(ledger, r)
  <2>4. /\ m \in Files /\ m.gaps = ledger.gaps \ aged
        /\ m.unobserved = IF Covers(r) THEN ledger.unobserved \ {r.of} ELSE ledger.unobserved
    BY <1>0, <2>3, MergedFile
  <2>5. ASSUME NEW j \in Jobs
        PROVE  /\ jobs[j].at \notin aged /\ j \in Entries(ledger) \union r.running \union r.over
                    => j \in Entries(m)
               /\ j \in Entries(m) => j \in Entries(ledger) \union Reported(r)
               /\ j \in EndedIn(m)
                    => \/ j \in EndedIn(ledger) \union r.over
                       \/ (ledger.jobs[j].end = "open" /\ j \in Silent(r))
               /\ j \in Entries(m) \intersect Entries(ledger) => m.jobs[j].origin = ledger.jobs[j].origin
               /\ j \in EndedIn(ledger) \intersect Entries(m) => j \in EndedIn(m)
    BY <1>0, <2>3, <2>5, MergedFile
  <2> HIDE DEF m, r
  <2>6. \A j \in Jobs : j \in Entries(ledger) \/ j \notin Entries(ledger)
    OBVIOUS
  <2>7. Preserved(ledger, m)
    BY <2>4, <2>5 DEF Preserved, Entries
  <2>8. Entries(m) \subseteq Entered \union Launched
    BY <1>0, <2>3, <2>5 DEF Entries
  <2>9. \A j \in EndedIn(m) \ EndedIn(ledger) :
          j \in r.over \/ (Entry(j).end = "open" /\ j \in Silent(r))
    BY <2>5 DEF EndedIn, Entry
  <2>10. \A j \in r.running \union r.over : jobs[j].at \notin aged => j \in Entries(m)
    BY <2>3, <2>5
  <2> QED
    BY <1>2, <2>1, <2>4, <2>7, <2>8, <2>9, <2>10 DEF m, r
<1> QED
  BY <1>1, <1>2

(* A snapshot keeps what the operation before it kept.                       *)
LEMMA SnapshotKeeps ==
    ASSUME NEW l \in Files, NEW m, Preserved(l, m), NEW live
    PROVE  /\ Preserved(l, Snapshot(m, live))
           /\ Entries(Snapshot(m, live)) \subseteq Entries(m)
<1>0. m \in Files
  BY DEF Preserved
<1>1. /\ Snapshot(m, live) \in Files
      /\ Snapshot(m, live).gaps = (m.gaps \union (m.unobserved \ live)) \ aged
  BY <1>0, SnapshotFile
<1>2. ASSUME NEW j \in Jobs
      PROVE  /\ jobs[j].at \notin aged /\ j \in Entries(m) => j \in Entries(Snapshot(m, live))
             /\ j \in Entries(Snapshot(m, live))
                  => j \in Entries(m) /\ Snapshot(m, live).jobs[j].origin = m.jobs[j].origin
             /\ j \in EndedIn(m) \intersect Entries(Snapshot(m, live)) => j \in EndedIn(Snapshot(m, live))
  BY <1>0, SnapshotFile
<1>3. Entries(Snapshot(m, live)) \subseteq Jobs /\ Entries(l) \subseteq Jobs
  BY DEF Entries
<1> QED
  BY <1>1, <1>2, <1>3 DEF Preserved

(* Every step keeps the file, and enters only jobs that containers started.  *)
LEMMA FileMoves ==
    ASSUME LedgerTyped, AreaSound, ReportsTell, LedgerNext
    PROVE  Preserved(ledger, ledger') /\ Entries(ledger') \subseteq Entered \union Launched
<1>0. ledger \in Files /\ Entered = Entries(ledger) /\ inst.id \in Instance
      /\ conts \subseteq Sandboxes /\ discarding \subseteq Sandboxes
      /\ inst.status \in {"none", "ready", "quiesced"}
  BY DEF LedgerTyped, Entered, Entries, Entry
<1>1. CASE ledger' = ledger
  BY <1>0, <1>1 DEF Preserved
<1>2. ASSUME NEW S \in SUBSET Sandboxes, ledger' = Settled(ledger, S)
      PROVE  Preserved(ledger, ledger') /\ Entries(ledger') \subseteq Entered \union Launched
  BY <1>0, <1>2, SettledKeeps
<1>3. ASSUME NEW j \in Jobs, StartBegin(j)
      PROVE  Preserved(ledger, ledger') /\ Entries(ledger') \subseteq Entered \union Launched
  <2>1. /\ ledger' = [ledger EXCEPT !.unobserved = @ \union {inst.id}]
        /\ inst.status = "ready"
    BY <1>3 DEF StartBegin
  <2>2. inst.id \in Sandboxes
    BY <1>0, <2>1, <1>3 DEF StartBegin, AreaSound, Instance
  <2>3. /\ ledger'.jobs = ledger.jobs /\ ledger'.gaps = ledger.gaps /\ ledger' \in Files
    BY <1>0, <2>1, <2>2 DEF Files
  <2> QED
    BY <1>0, <2>3 DEF Preserved, Entries, EndedIn
<1>4. ASSUME NEW o \in Observers, ActivityEnds(o)
      PROVE  Preserved(ledger, ledger') /\ Entries(ledger') \subseteq Entered \union Launched
  BY <1>4, ProbeKeeps DEF ActivityEnds
<1>5. ASSUME NEW o \in Observers, ReportEnds(o)
      PROVE  Preserved(ledger, ledger') /\ Entries(ledger') \subseteq Entered \union Launched
  BY <1>0, <1>5, ProbeKeeps, SnapshotKeeps DEF ReportEnds, Answer
<1>6. CASE ReportNow
  <2>1. Preserved(ledger, ledger)
    BY <1>0 DEF Preserved
  <2> QED
    BY <1>0, <1>6, <2>1, SnapshotKeeps DEF ReportNow, Answer
<1>7. CASE Quiesce
  <2>1. inst.id \in Sandboxes
    BY <1>0, <1>7 DEF Quiesce, AreaSound, Instance
  <2> QED
    BY <1>2, <1>7, <2>1 DEF Quiesce, SettleSandbox
<1>8. ASSUME NEW s \in Sandboxes, DiscardEnd(s)
      PROVE  Preserved(ledger, ledger') /\ Entries(ledger') \subseteq Entered \union Launched
  BY <1>2, <1>8 DEF DiscardEnd, SettleSandbox
<1>9. CASE Crash
  <2>1. (\E s \in conts : ledger' = Settled(ledger, conts \ {s})) \/ ledger' = Settled(ledger, conts)
    BY <1>9 DEF Crash
  <2> QED
    BY <1>0, <1>2, <2>1
<1> QED
  <2>1. CASE \/ \E j \in Jobs : Launch(j) \/ StartEnd(j) \/ Finish(j)
             \/ \E o \in Observers : Activity(o) \/ Answered(o) \/ ReportBegin(o)
             \/ DiscardBegin
             \/ \E s \in Sandboxes : Create(s) \/ Kill(s) \/ Age(s)
    <3>1. ledger' = ledger
      BY <2>1 DEF Launch, StartEnd, Finish, Activity, Answered, ReportBegin, DiscardBegin,
                  Create, Kill, Age
    <3> QED
      BY <1>1, <3>1
  <2> QED
    BY <1>3, <1>4, <1>5, <1>6, <1>7, <1>8, <1>9, <2>1 DEF LedgerNext

(* A mark goes only for a gap, for age, or for a report that covers it, and  *)
(* then what the report names is entered.                                    *)
LEMMA MarkGoes ==
    ASSUME LedgerTyped, AreaSound, ReportsTell, LedgerNext,
           NEW s \in ledger.unobserved \ ledger'.unobserved
    PROVE  \/ s \in ledger'.gaps \union aged
           \/ \E o \in Observers :
                /\ obs[o].pc = "answered" /\ Covers(obs[o]) /\ s = obs[o].of
                /\ \A j \in obs[o].running \union obs[o].over :
                     jobs[j].at \notin aged => j \in Entries(ledger')
<1>0. ledger \in Files /\ inst.id \in Instance
      /\ conts \subseteq Sandboxes /\ discarding \subseteq Sandboxes
  BY DEF LedgerTyped
<1>1. ASSUME NEW S \in SUBSET Sandboxes, ledger' = Settled(ledger, S)
      PROVE  s \in ledger'.gaps \union aged
  BY <1>0, <1>1, SettledFile
<1>2. ASSUME NEW j \in Jobs, StartBegin(j)
      PROVE  FALSE
  BY <1>0, <1>2 DEF StartBegin, Files
<1>3. ASSUME NEW o \in Observers, ActivityEnds(o)
      PROVE  /\ obs[o].pc = "answered" /\ Covers(obs[o]) /\ s = obs[o].of
             /\ \A j \in obs[o].running \union obs[o].over :
                  jobs[j].at \notin aged => j \in Entries(ledger')
  BY <1>3, ProbeKeeps DEF ActivityEnds
<1>4. ASSUME NEW o \in Observers, ReportEnds(o)
      PROVE  \/ s \in ledger'.gaps \union aged
             \/ /\ obs[o].pc = "answered" /\ Covers(obs[o]) /\ s = obs[o].of
                /\ \A j \in obs[o].running \union obs[o].over :
                     jobs[j].at \notin aged => j \in Entries(ledger')
  <2> DEFINE m == AfterProbe(obs[o])
             live == obs[o].live
  <2>1. ledger' = Snapshot(m, live) /\ m \in Files
    BY <1>4, ProbeKeeps DEF ReportEnds, Answer, Preserved
  <2>2. /\ ledger'.unobserved = m.unobserved \intersect live
        /\ ledger'.gaps = (m.gaps \union (m.unobserved \ live)) \ aged
        /\ \A j \in Jobs : jobs[j].at \notin aged /\ j \in Entries(m) => j \in Entries(ledger')
    BY <2>1, SnapshotFile
  <2>3. CASE s \in m.unobserved
    BY <2>2, <2>3
  <2>4. CASE s \notin m.unobserved
    <3>1. /\ obs[o].pc = "answered" /\ Covers(obs[o]) /\ s = obs[o].of
          /\ \A j \in obs[o].running \union obs[o].over : jobs[j].at \notin aged => j \in Entries(m)
      BY <2>4, ProbeKeeps
    <3>2. Entries(m) \subseteq Jobs
      BY DEF Entries
    <3> QED
      BY <2>2, <3>1, <3>2
  <2> QED
    BY <2>3, <2>4
<1>5. CASE ReportNow
  BY <1>0, <1>5, SnapshotFile DEF ReportNow, Answer
<1>6. CASE Quiesce
  <2>1. inst.id \in Sandboxes
    BY <1>0, <1>6 DEF Quiesce, AreaSound, Instance
  <2> QED
    BY <1>1, <1>6, <2>1 DEF Quiesce, SettleSandbox
<1>7. ASSUME NEW t \in Sandboxes, DiscardEnd(t)
      PROVE  s \in ledger'.gaps \union aged
  BY <1>1, <1>7 DEF DiscardEnd, SettleSandbox
<1>8. CASE Crash
  <2>1. (\E t \in conts : ledger' = Settled(ledger, conts \ {t})) \/ ledger' = Settled(ledger, conts)
    BY <1>8 DEF Crash
  <2> QED
    BY <1>0, <1>1, <2>1
<1>9. CASE \/ \E j \in Jobs : Launch(j) \/ StartEnd(j) \/ Finish(j)
           \/ \E o \in Observers : Activity(o) \/ Answered(o) \/ ReportBegin(o)
           \/ DiscardBegin
           \/ \E t \in Sandboxes : Create(t) \/ Kill(t) \/ Age(t)
  BY <1>9 DEF Launch, StartEnd, Finish, Activity, Answered, ReportBegin, DiscardBegin,
              Create, Kill, Age
<1> QED
  BY <1>2, <1>3, <1>4, <1>5, <1>6, <1>7, <1>8, <1>9 DEF LedgerNext

(* Marks come with starts only.                                              *)
LEMMA MarkComes ==
    ASSUME LedgerTyped, AreaSound, ReportsTell, LedgerNext
    PROVE  \/ ledger'.unobserved \subseteq ledger.unobserved
           \/ /\ \E j \in Jobs : StartBegin(j)
              /\ ledger'.unobserved = ledger.unobserved \union {inst.id}
<1>0. ledger \in Files /\ inst.id \in Instance
      /\ conts \subseteq Sandboxes /\ discarding \subseteq Sandboxes
  BY DEF LedgerTyped
<1>1. ASSUME NEW S \in SUBSET Sandboxes, ledger' = Settled(ledger, S)
      PROVE  ledger'.unobserved \subseteq ledger.unobserved
  BY <1>0, <1>1, SettledFile
<1>2. ASSUME NEW j \in Jobs, StartBegin(j)
      PROVE  ledger'.unobserved = ledger.unobserved \union {inst.id}
  BY <1>0, <1>2 DEF StartBegin, Files
<1>3. ASSUME NEW o \in Observers, ActivityEnds(o)
      PROVE  ledger'.unobserved \subseteq ledger.unobserved
  BY <1>3, ProbeKeeps DEF ActivityEnds
<1>4. ASSUME NEW o \in Observers, ReportEnds(o)
      PROVE  ledger'.unobserved \subseteq ledger.unobserved
  <2>1. ledger' = Snapshot(AfterProbe(obs[o]), obs[o].live) /\ AfterProbe(obs[o]) \in Files
    BY <1>4, ProbeKeeps DEF ReportEnds, Answer, Preserved
  <2>2. ledger'.unobserved = AfterProbe(obs[o]).unobserved \intersect obs[o].live
    BY <2>1, SnapshotFile
  <2> QED
    BY <2>2, ProbeKeeps
<1>5. CASE ReportNow
  BY <1>0, <1>5, SnapshotFile DEF ReportNow, Answer
<1>6. CASE Quiesce
  <2>1. inst.id \in Sandboxes
    BY <1>0, <1>6 DEF Quiesce, AreaSound, Instance
  <2> QED
    BY <1>1, <1>6, <2>1 DEF Quiesce, SettleSandbox
<1>7. ASSUME NEW t \in Sandboxes, DiscardEnd(t)
      PROVE  ledger'.unobserved \subseteq ledger.unobserved
  BY <1>1, <1>7 DEF DiscardEnd, SettleSandbox
<1>8. CASE Crash
  <2>1. (\E t \in conts : ledger' = Settled(ledger, conts \ {t})) \/ ledger' = Settled(ledger, conts)
    BY <1>8 DEF Crash
  <2> QED
    BY <1>0, <1>1, <2>1
<1>9. CASE \/ \E j \in Jobs : Launch(j) \/ StartEnd(j) \/ Finish(j)
           \/ \E o \in Observers : Activity(o) \/ Answered(o) \/ ReportBegin(o)
           \/ DiscardBegin
           \/ \E t \in Sandboxes : Create(t) \/ Kill(t) \/ Age(t)
  BY <1>9 DEF Launch, StartEnd, Finish, Activity, Answered, ReportBegin, DiscardBegin,
              Create, Kill, Age
<1> QED
  BY <1>2, <1>3, <1>4, <1>5, <1>6, <1>7, <1>8, <1>9 DEF LedgerNext

(* A running job is booked as ended only by the answer to a question older   *)
(* than its start.                                                           *)
LEMMA EndsJudged ==
    ASSUME LedgerInv, ReportsTell, LedgerNext, NEW j \in Jobs,
           jobs'[j].state = "running", ledger'.jobs[j].end = "ended"
    PROVE  Entry(j).end = "ended" \/ j \in past'.misjudged
<1>0. /\ LedgerTyped /\ AreaSound /\ OriginSound(j) /\ Moves(j)
      /\ \A o \in Observers : ReportSound(obs[o])
      /\ ledger \in Files /\ inst.id \in Instance
      /\ conts \subseteq Sandboxes /\ discarding \subseteq Sandboxes
  BY JobsMove DEF LedgerInv, LedgerTyped
<1>1. CASE ledger' = ledger
  BY <1>1 DEF Entry
<1>2. CASE ledger' # ledger
  <2>0. jobs[j].state = "running" /\ jobs[j].at \in conts
    <3>1. jobs[j].state \in {"none", "asked", "running", "over", "refused"}
      BY <1>0 DEF LedgerTyped
    <3>2. jobs[j].state # "none"
      <4>1. ASSUME jobs[j].state = "none" PROVE FALSE
        <5>1. StartBegin(j)
          BY <1>0, <4>1 DEF Moves
        <5>2. jobs'[j].state = "asked"
          BY <1>0, <5>1 DEF StartBegin, LedgerTyped
        <5> QED
          BY <5>2
      <4> QED
        BY <4>1
    <3>3. jobs[j].state = "running"
      BY <1>0, <1>2, <3>1, <3>2 DEF Moves
    <3> QED
      BY <1>0, <3>3 DEF OriginSound
  <2>1. ASSUME NEW S \in SUBSET Sandboxes, ledger' = Settled(ledger, S), jobs[j].at \notin S
        PROVE  Entry(j).end = "ended"
    BY <1>0, <2>1, SettledFile DEF Entry
  <2>2. ASSUME NEW k \in Jobs, StartBegin(k)
        PROVE  Entry(j).end = "ended"
    BY <1>0, <2>2 DEF StartBegin, Files, Entry
  <2>3. ASSUME NEW o \in Observers, obs[o].pc = "answered",
               j \in obs[o].over \/ (Entry(j).end = "open" /\ j \in Silent(obs[o])),
               Judge(obs[o].before)
        PROVE  j \in past'.misjudged
    <3>1. Telling(obs[o])
      BY <2>3 DEF ReportsTell
    <3>2. Entry(j).end = "open" /\ j \in Silent(obs[o])
      BY <2>0, <2>3, <3>1 DEF Telling
    <3>3. j \notin obs[o].before
      BY <2>0, <3>1, <3>2 DEF Telling, Silent
    <3> QED
      BY <1>0, <2>0, <2>3, <3>2, <3>3 DEF Judge, LedgerTyped
  <2>4. ASSUME NEW o \in Observers, ActivityEnds(o)
        PROVE  Entry(j).end = "ended" \/ j \in past'.misjudged
    <3>1. ledger' = AfterProbe(obs[o]) /\ Judge(obs[o].before)
      BY <2>4 DEF ActivityEnds
    <3>2. CASE j \in EndedIn(ledger)
      BY <3>2 DEF EndedIn, Entry
    <3>3. CASE j \notin EndedIn(ledger)
      <4>1. j \in EndedIn(AfterProbe(obs[o])) \ EndedIn(ledger)
        BY <3>1, <3>3 DEF EndedIn
      <4> QED
        BY <1>0, <2>3, <3>1, <4>1, ProbeKeeps
    <3> QED
      BY <3>2, <3>3
  <2>5. ASSUME NEW o \in Observers, ReportEnds(o)
        PROVE  Entry(j).end = "ended" \/ j \in past'.misjudged
    <3> DEFINE r == obs[o]
               m == AfterProbe(obs[o])
    <3>1. ledger' = Snapshot(m, r.live) /\ Judge(r.before) /\ r.pc # "idle" /\ r.kind = "jobs"
      BY <2>5 DEF ReportEnds, Answer
    <3>2. m \in Files
      BY <1>0, ProbeKeeps DEF Preserved
    <3>3. j \in EndedIn(m) \/ (m.jobs[j].end = "open" /\ jobs[j].at \notin r.live)
      <4>1. j \in EndedIn(Snapshot(m, r.live))
        BY <3>1 DEF EndedIn
      <4> QED
        BY <3>2, <4>1, SnapshotFile
    <3>4. CASE j \in EndedIn(ledger)
      BY <3>4 DEF EndedIn, Entry
    <3>5. CASE j \in EndedIn(m) \ EndedIn(ledger)
      BY <1>0, <2>3, <3>1, <3>5, ProbeKeeps
    <3>6. CASE m.jobs[j].end = "open" /\ jobs[j].at \notin r.live /\ j \notin EndedIn(ledger)
      <4>1. ReportSound(r) /\ r.of \in r.live
        BY <1>0, <3>1 DEF ReportSound
      <4>2. j \notin r.before
        BY <2>0, <3>1, <3>6, <4>1 DEF ReportSound
      <4>3. j \in Entries(ledger)
        <5>1. r.pc = "answered" => Telling(r)
          BY DEF ReportsTell
        <5>2. CASE r.pc # "answered"
          BY <3>6, <5>2 DEF AfterProbe, Entries
        <5>3. CASE r.pc = "answered"
          <6>1. m = Merged(ledger, r) /\ j \in Entries(m)
            BY <3>6, <5>3 DEF AfterProbe, Entries
          <6>2. (r.running \union r.over) \intersect r.bare = {}
            BY <5>1, <5>3 DEF Telling
          <6>3. j \in Entries(ledger) \union Reported(r)
            BY <1>0, <6>1, <6>2, MergedFile
          <6>4. Reported(r) \subseteq Of(r.of)
            BY <5>1, <5>3 DEF Telling, Reported
          <6> QED
            BY <3>6, <4>1, <6>3, <6>4 DEF Of
        <5> QED
          BY <5>2, <5>3
      <4>4. Entry(j).end = "open"
        BY <1>0, <3>6, <4>3 DEF Entry, Entries, EndedIn, Files
      <4> QED
        BY <1>0, <2>0, <3>1, <4>2, <4>4 DEF Judge, LedgerTyped
    <3> QED
      BY <3>3, <3>4, <3>5, <3>6
  <2>6. CASE ReportNow
    <3>1. ledger' = Snapshot(ledger, discarding \union ({inst.id} \ {None}))
      BY <2>6 DEF ReportNow, Answer
    <3>2. jobs[j].at \in discarding \union ({inst.id} \ {None})
      BY <1>0, <2>0, LedgerAssumption DEF AreaSound
    <3>3. j \in EndedIn(ledger')
      BY DEF EndedIn
    <3>4. j \in EndedIn(ledger)
      BY <1>0, <3>1, <3>2, <3>3, SnapshotFile
    <3> QED
      BY <3>4 DEF EndedIn, Entry
  <2>7. CASE Quiesce
    <3>1. inst.id \in Sandboxes
      BY <1>0, <2>7 DEF Quiesce, AreaSound, Instance
    <3> QED
      BY <2>0, <2>1, <2>7, <3>1 DEF Quiesce, SettleSandbox
  <2>8. ASSUME NEW s \in Sandboxes, DiscardEnd(s)
        PROVE  Entry(j).end = "ended"
    BY <2>0, <2>1, <2>8 DEF DiscardEnd, SettleSandbox
  <2>9. CASE Crash
    <3>1. CASE jobs' = [k \in Jobs |-> IF jobs[k].state = "running"
                                       THEN [jobs[k] EXCEPT !.state = "over"] ELSE jobs[k]]
      <4>1. jobs'[j] = [jobs[j] EXCEPT !.state = "over"]
        BY <2>0, <3>1
      <4> QED
        BY <1>0, <4>1 DEF LedgerTyped
    <3>2. ASSUME NEW s \in conts,
                 jobs' = [k \in Jobs |-> IF jobs[k].at # s /\ jobs[k].state = "running"
                                         THEN [jobs[k] EXCEPT !.state = "over"] ELSE jobs[k]],
                 ledger' = Settled(ledger, conts \ {s})
          PROVE  Entry(j).end = "ended"
      <4>1. ASSUME jobs[j].at # s PROVE FALSE
        <5>1. jobs'[j] = [jobs[j] EXCEPT !.state = "over"]
          BY <2>0, <3>2, <4>1
        <5> QED
          BY <1>0, <5>1 DEF LedgerTyped
      <4> QED
        BY <1>0, <2>1, <3>2, <4>1
    <3> QED
      BY <2>9, <3>1, <3>2 DEF Crash
  <2> QED
    <3>1. ~(\/ \E k \in Jobs : Launch(k) \/ StartEnd(k) \/ Finish(k)
            \/ \E o \in Observers : Activity(o) \/ Answered(o) \/ ReportBegin(o)
            \/ DiscardBegin
            \/ \E t \in Sandboxes : Create(t) \/ Kill(t) \/ Age(t))
      BY <1>2 DEF Launch, StartEnd, Finish, Activity, Answered, ReportBegin, DiscardBegin,
                  Create, Kill, Age
    <3> QED
      BY <2>2, <2>4, <2>5, <2>6, <2>7, <2>8, <2>9, <3>1 DEF LedgerNext
<1> QED
  BY <1>1, <1>2

-----------------------------------------------------------------------------
\* The parts of the invariant, one by one.

(* What the history and the retention know only grows.                       *)
LEMMA HistoryGrows ==
    ASSUME LedgerTyped, LedgerNext
    PROVE  /\ past' \in [cut : SUBSET Jobs, misjudged : SUBSET Jobs]
           /\ past.cut \subseteq past'.cut /\ past.misjudged \subseteq past'.misjudged
           /\ aged \subseteq aged'
<1> DEFINE H == [cut : SUBSET Jobs, misjudged : SUBSET Jobs]
<1>0. past \in H /\ proxied \subseteq Jobs
  BY DEF LedgerTyped
<1>1. CASE past' = past /\ aged \subseteq aged'
  BY <1>0, <1>1
<1>2. ASSUME NEW J \in SUBSET Jobs, past' = [past EXCEPT !.cut = @ \union J], aged' = aged
      PROVE  past' \in H /\ past.cut \subseteq past'.cut /\ past.misjudged \subseteq past'.misjudged
  BY <1>0, <1>2
<1>3. ASSUME NEW before, Judge(before)
      PROVE  past' \in H /\ past.cut \subseteq past'.cut /\ past.misjudged \subseteq past'.misjudged
  BY <1>0, <1>3 DEF Judge
<1>4. ASSUME NEW j \in Jobs, StartEnd(j)
      PROVE  /\ past' \in H /\ past.cut \subseteq past'.cut /\ past.misjudged \subseteq past'.misjudged
             /\ aged' = aged
  <2>1. aged' = aged /\ (past' = past \/ past' = [past EXCEPT !.cut = @ \union {j}])
    BY <1>4 DEF StartEnd
  <2> QED
    BY <1>0, <1>2, <2>1
<1>5. ASSUME NEW o \in Observers, ActivityEnds(o) \/ ReportEnds(o)
      PROVE  Judge(obs[o].before) /\ aged' = aged
  BY <1>5 DEF ActivityEnds, ReportEnds, jobVars
<1>6. CASE ReportNow
  BY <1>3, <1>6 DEF ReportNow, jobVars
<1>7. CASE Crash
  <2>1. /\ past' = [past EXCEPT !.cut = @ \union {j \in proxied : jobs[j].state = "asked"}]
        /\ aged' = aged
    BY <1>7 DEF Crash
  <2>2. {j \in proxied : jobs[j].state = "asked"} \in SUBSET Jobs
    BY <1>0
  <2> QED
    BY <1>2, <2>1, <2>2
<1>8. CASE \/ \E j \in Jobs : StartBegin(j) \/ Launch(j) \/ Finish(j)
           \/ \E o \in Observers : Activity(o) \/ Answered(o) \/ ReportBegin(o)
           \/ DiscardBegin \/ Quiesce
           \/ \E s \in Sandboxes : Create(s) \/ Kill(s) \/ DiscardEnd(s) \/ Age(s)
  <2>1. past' = past /\ aged \subseteq aged'
    BY <1>8 DEF StartBegin, Launch, Finish, Activity, Answered, ReportBegin, jobVars, DiscardBegin,
                Quiesce, Create, Kill, DiscardEnd, Age, InstanceUnchanged
  <2> QED
    BY <1>1, <2>1
<1> QED
  BY <1>3, <1>4, <1>5, <1>6, <1>7, <1>8 DEF LedgerNext

(* The question of an observer, as it is put.                                *)
LEMMA QuestionTyped ==
    ASSUME LedgerTyped, NEW s \in Sandboxes, NEW k \in {"activity", "jobs"},
           NEW o \in Observers, Observe(o, s, k)
    PROVE  obs' \in [Observers -> Reports]
<1>1. NoObs \in Reports
  BY DEF NoObs, Reports, Instance
<1>2. /\ Token(s) \in Nat \union {None} /\ {s} \union discarding \in SUBSET Sandboxes
      /\ Launched \in SUBSET Jobs /\ s \in Instance
      /\ (IF k = "jobs" THEN Launched \ proxied ELSE {}) \in SUBSET Jobs
  BY DEF LedgerTyped, Token, Launched, Instance
<1>3. [NoObs EXCEPT !.pc = "asked", !.of = s, !.token = Token(s), !.kind = k,
                    !.live = {s} \union discarding, !.before = Launched,
                    !.returned = IF k = "jobs" THEN Launched \ proxied ELSE {}] \in Reports
  BY <1>1, <1>2 DEF Reports
<1> QED
  BY <1>3 DEF LedgerTyped, Observe

(* Every step keeps the types.                                               *)
LEMMA LedgerTypedStep ==
    ASSUME LedgerTyped, AreaSound, ReportsTell, LedgerNext
    PROVE  LedgerTyped'
<1>0. /\ jobs' \in [Jobs -> JobRecords] /\ ledger' \in Files
      /\ past' \in [cut : SUBSET Jobs, misjudged : SUBSET Jobs]
  BY JobsMove, FileMoves, HistoryGrows DEF Preserved
<1>1. /\ conts \subseteq Sandboxes /\ discarding \subseteq Sandboxes
      /\ inst \in [id : Instance, status : {"none", "ready", "quiesced"}]
      /\ inst.id \in Instance /\ obs \in [Observers -> Reports]
      /\ seq \in [Sandboxes -> Nat] /\ inFlight \in [Sandboxes -> Nat]
      /\ proxied \subseteq Jobs /\ IsFiniteSet(proxied)
  BY DEF LedgerTyped
<1>2. conts' \subseteq Sandboxes /\ discarding' \subseteq Sandboxes
  <2>1. ASSUME NEW j \in Jobs, StartBegin(j) \/ Launch(j) \/ StartEnd(j) \/ Finish(j)
        PROVE  UNCHANGED <<conts, discarding>>
    BY <2>1 DEF StartBegin, Launch, StartEnd, Finish
  <2>2. ASSUME NEW o \in Observers,
               Activity(o) \/ Answered(o) \/ ActivityEnds(o) \/ ReportBegin(o) \/ ReportEnds(o)
        PROVE  UNCHANGED <<conts, discarding>>
    BY <2>2 DEF Activity, Answered, ActivityEnds, ReportBegin, ReportEnds, jobVars
  <2>3. CASE ReportNow \/ Quiesce
    BY <1>1, <2>3 DEF ReportNow, jobVars, Quiesce
  <2>4. CASE DiscardBegin
    BY <1>1, <2>4 DEF DiscardBegin, Instance
  <2>5. ASSUME NEW s \in Sandboxes, Create(s) \/ Kill(s) \/ DiscardEnd(s) \/ Age(s)
        PROVE  conts' \subseteq Sandboxes /\ discarding' \subseteq Sandboxes
    BY <1>1, <2>5 DEF Create, Kill, DiscardEnd, Age
  <2>6. CASE Crash
    BY <1>1, <2>6 DEF Crash
  <2> QED
    BY <1>1, <2>1, <2>2, <2>3, <2>4, <2>5, <2>6 DEF LedgerNext
<1>3. inst' \in [id : Instance, status : {"none", "ready", "quiesced"}]
  <2>1. ASSUME NEW j \in Jobs, StartBegin(j) \/ Launch(j) \/ StartEnd(j) \/ Finish(j)
        PROVE  inst' = inst
    BY <2>1 DEF StartBegin, Launch, StartEnd, Finish
  <2>2. ASSUME NEW o \in Observers,
               Activity(o) \/ Answered(o) \/ ActivityEnds(o) \/ ReportBegin(o) \/ ReportEnds(o)
        PROVE  inst' = inst
    BY <2>2 DEF Activity, Answered, ActivityEnds, ReportBegin, ReportEnds, jobVars
  <2>3. CASE ReportNow \/ \E s \in Sandboxes : Kill(s) \/ DiscardEnd(s) \/ Age(s)
    BY <1>1, <2>3 DEF ReportNow, jobVars, Kill, DiscardEnd, Age
  <2>4. CASE DiscardBegin \/ Crash \/ \E s \in Sandboxes : Create(s)
    <3>1. \E i \in Instance, t \in {"none", "ready"} : inst' = [id |-> i, status |-> t]
      BY <1>1, <2>4 DEF DiscardBegin, Crash, Create, Instance
    <3> QED
      BY <3>1
  <2>5. CASE Quiesce
    BY <1>1, <2>5 DEF Quiesce
  <2> QED
    BY <1>1, <2>1, <2>2, <2>3, <2>4, <2>5 DEF LedgerNext
<1>4. proxied' \subseteq Jobs /\ IsFiniteSet(proxied')
  <2>1. CASE \E j \in Jobs : proxied' = proxied \union {j}
    BY <1>1, <2>1, FS_AddElement
  <2>2. CASE \E j \in Jobs : proxied' = proxied \ {j}
    BY <1>1, <2>2, FS_RemoveElement
  <2>3. CASE proxied' = {}
    BY <2>3, FS_EmptySet
  <2>4. ASSUME NEW j \in Jobs, Launch(j) \/ Finish(j) PROVE proxied' = proxied
    BY <2>4 DEF Launch, Finish
  <2>5. ASSUME NEW o \in Observers,
               Activity(o) \/ Answered(o) \/ ActivityEnds(o) \/ ReportBegin(o) \/ ReportEnds(o)
        PROVE  proxied' = proxied
    BY <2>5 DEF Activity, Answered, ActivityEnds, ReportBegin, ReportEnds, jobVars
  <2>6. CASE ReportNow \/ DiscardBegin \/ Quiesce
             \/ \E s \in Sandboxes : Create(s) \/ Kill(s) \/ DiscardEnd(s) \/ Age(s)
    <3>1. proxied' = proxied
      BY <2>6 DEF ReportNow, DiscardBegin, Quiesce, Create, Kill, DiscardEnd, Age, jobVars,
                  InstanceUnchanged
    <3> QED
      BY <1>1, <3>1
  <2>7. ASSUME NEW j \in Jobs, StartBegin(j) PROVE proxied' = proxied \union {j}
    BY <2>7 DEF StartBegin
  <2>8. ASSUME NEW j \in Jobs, StartEnd(j) PROVE proxied' = proxied \ {j}
    BY <2>8 DEF StartEnd
  <2>9. CASE Crash
    BY <2>3, <2>9 DEF Crash
  <2> QED
    BY <1>1, <2>1, <2>2, <2>4, <2>5, <2>6, <2>7, <2>8, <2>9 DEF LedgerNext
<1>5. seq' \in [Sandboxes -> Nat] /\ inFlight' \in [Sandboxes -> Nat]
  <2>1. ASSUME NEW j \in Jobs, Launch(j) \/ Finish(j) PROVE UNCHANGED <<seq, inFlight>>
    BY <2>1 DEF Launch, Finish
  <2>2. ASSUME NEW o \in Observers,
               Activity(o) \/ Answered(o) \/ ActivityEnds(o) \/ ReportBegin(o) \/ ReportEnds(o)
        PROVE  UNCHANGED <<seq, inFlight>>
    BY <2>2 DEF Activity, Answered, ActivityEnds, ReportBegin, ReportEnds
  <2>3. CASE ReportNow \/ DiscardBegin \/ \E s \in Sandboxes : Create(s) \/ Kill(s) \/ Age(s)
    <3>1. UNCHANGED <<seq, inFlight>>
      BY <2>3 DEF ReportNow, DiscardBegin, Create, Kill, Age
    <3> QED
      BY <1>1, <3>1
  <2>4. ASSUME NEW s, SettleSandbox(s)
        PROVE  seq' \in [Sandboxes -> Nat] /\ inFlight' \in [Sandboxes -> Nat]
    BY <1>1, <2>4 DEF SettleSandbox
  <2>5. CASE Quiesce \/ \E s \in Sandboxes : DiscardEnd(s)
    <3>1. \E s : SettleSandbox(s)
      BY <2>5 DEF Quiesce, DiscardEnd
    <3> QED
      BY <2>4, <3>1
  <2>6. ASSUME NEW j \in Jobs, StartBegin(j)
        PROVE  seq' \in [Sandboxes -> Nat] /\ inFlight' \in [Sandboxes -> Nat]
    <3>1. /\ seq' = [seq EXCEPT ![inst.id] = @ + 1]
          /\ inFlight' = [inFlight EXCEPT ![inst.id] = @ + 1]
      BY <2>6 DEF StartBegin
    <3>2. \A n \in Nat : n + 1 \in Nat
      OBVIOUS
    <3> QED
      BY <1>1, <3>1, <3>2
  <2>7. ASSUME NEW j \in Jobs, StartEnd(j)
        PROVE  seq' \in [Sandboxes -> Nat] /\ inFlight' \in [Sandboxes -> Nat]
    <3>1. seq' = seq /\ inFlight' = [inFlight EXCEPT ![jobs[j].at] = OneLess(@)]
      BY <2>7 DEF StartEnd
    <3>2. \A n \in Nat : OneLess(n) \in Nat
      BY DEF OneLess
    <3> QED
      BY <1>1, <3>1, <3>2
  <2>8. CASE Crash
    BY <2>8 DEF Crash
  <2> QED
    BY <1>1, <2>1, <2>2, <2>3, <2>5, <2>6, <2>7, <2>8 DEF LedgerNext
<1>6. obs' \in [Observers -> Reports]
  <2>0. NoObs \in Reports
    BY DEF NoObs, Reports, Instance
  <2>1. ASSUME NEW o \in Observers, Activity(o) PROVE obs' \in [Observers -> Reports]
    <3>1. PICK s \in discarding \union (IF inst.status = "ready" THEN {inst.id} ELSE {}) :
            Observe(o, s, "activity")
      BY <2>1 DEF Activity
    <3>2. s \in Sandboxes
      BY <1>1, <3>1 DEF AreaSound, Instance
    <3> QED
      BY <3>1, <3>2, QuestionTyped
  <2>2. ASSUME NEW o \in Observers, ReportBegin(o) PROVE obs' \in [Observers -> Reports]
    <3>1. inst.id \in Sandboxes
      BY <1>1, <2>2 DEF ReportBegin, AreaSound, Instance
    <3> QED
      BY <2>2, <3>1, QuestionTyped DEF ReportBegin
  <2>3. ASSUME NEW o \in Observers, Answered(o) PROVE obs' \in [Observers -> Reports]
    <3> DEFINE J == Of(obs[o].of)
    <3>1. \E R1, R2, R3 \in SUBSET Jobs : obs' = [obs EXCEPT ![o] = [@ EXCEPT
             !.pc = "answered", !.running = R1, !.over = R2, !.bare = R3]]
      <4>1. /\ {j \in J : jobs[j].state = "running" /\ jobs[j].origin} \in SUBSET Jobs
            /\ {j \in J : jobs[j].state = "over" /\ jobs[j].origin} \in SUBSET Jobs
            /\ {j \in J : jobs[j].state = "running" /\ ~jobs[j].origin} \in SUBSET Jobs
        BY DEF Of
      <4> QED
        BY <2>3, <4>1 DEF Answered
    <3>2. obs[o] \in Reports
      BY <1>1
    <3>3. \A R1, R2, R3 \in SUBSET Jobs :
            [obs[o] EXCEPT !.pc = "answered", !.running = R1, !.over = R2, !.bare = R3] \in Reports
      BY <3>2 DEF Reports
    <3>4. \E r \in Reports : obs' = [obs EXCEPT ![o] = r]
      BY <3>1, <3>3
    <3> QED
      BY <1>1, <3>4
  <2>4. ASSUME NEW o \in Observers, ActivityEnds(o) \/ ReportEnds(o) PROVE obs' \in [Observers -> Reports]
    BY <1>1, <2>0, <2>4 DEF ActivityEnds, ReportEnds
  <2>5. CASE Crash
    BY <2>0, <2>5 DEF Crash
  <2>6. CASE \/ \E j \in Jobs : StartBegin(j) \/ Launch(j) \/ StartEnd(j) \/ Finish(j)
             \/ ReportNow \/ DiscardBegin \/ Quiesce
             \/ \E s \in Sandboxes : Create(s) \/ Kill(s) \/ DiscardEnd(s) \/ Age(s)
    <3>1. obs' = obs
      BY <2>6 DEF StartBegin, Launch, StartEnd, Finish, ReportNow, DiscardBegin, Quiesce, Create,
                  Kill, DiscardEnd, Age, InstanceUnchanged
    <3> QED
      BY <1>1, <3>1
  <2> QED
    BY <2>1, <2>2, <2>3, <2>4, <2>5, <2>6 DEF LedgerNext
<1> QED
  BY <1>0, <1>2, <1>3, <1>4, <1>5, <1>6 DEF LedgerTyped, JobRecords

(* What holds of every state of the invariant.                               *)
LEMMA LedgerFacts ==
    ASSUME LedgerInv
    PROVE  /\ LedgerTyped /\ AreaSound /\ ReportsTell
           /\ \A j \in Jobs : OriginSound(j)
           /\ \A o \in Observers : ReportSound(obs[o])
           /\ jobs \in [Jobs -> JobRecords] /\ ledger \in Files /\ Entered = Entries(ledger)
  BY DEF LedgerInv, ReportsTell, ReportSound, LedgerTyped, JobRecords, Entered, Entries, Entry

(* A job that the ledger need not announce stays one.                        *)
LEMMA SafeStays ==
    ASSUME LedgerInv, LedgerNext, NEW j \in Jobs, jobs[j].state # "none", Safe(j)
    PROVE  Safe(j)'
<1>0. /\ OriginSound(j) /\ Moves(j) /\ Preserved(ledger, ledger')
      /\ past.cut \subseteq past'.cut /\ aged \subseteq aged' /\ Entered = Entries(ledger)
      /\ jobs'[j].at = jobs[j].at /\ jobs[j] \in JobRecords
  BY LedgerFacts, JobsMove, FileMoves, HistoryGrows DEF Moves
<1>1. CASE j \in past.cut \/ jobs[j].at \in aged \/ jobs[j].at \in ledger.gaps
  BY <1>0, <1>1 DEF Safe, Preserved
<1>2. CASE jobs[j].state = "refused" \/ ~jobs[j].origin
  <2>1. jobs'[j].state = "refused" \/ ~jobs'[j].origin
    BY <1>0, <1>2 DEF OriginSound, Moves, JobRecords
  <2> QED
    BY <2>1 DEF Safe
<1>3. CASE j \in Entered /\ jobs[j].at \notin aged
  <2>1. j \in Entries(ledger')
    BY <1>0, <1>3 DEF Preserved
  <2> QED
    BY <2>1 DEF Safe, Entered, Entries, Entry
<1> QED
  BY <1>1, <1>2, <1>3 DEF Safe

(* A launch is announced, or has left a gap, or is in the ledger.            *)
LEMMA AnnouncedStays ==
    ASSUME LedgerInv, LedgerNext, NEW j \in Jobs, jobs'[j].state # "none"
    PROVE  Safe(j)' \/ jobs'[j].at \in ledger'.unobserved
<1>0. /\ OriginSound(j) /\ Moves(j) /\ ledger \in Files /\ LedgerTyped /\ AreaSound
      /\ aged \subseteq aged' /\ Entered = Entries(ledger)
      /\ jobs[j] \in JobRecords
  BY LedgerFacts, JobsMove, HistoryGrows
<1>1. CASE jobs[j].state = "none"
  <2>1. StartBegin(j)
    BY <1>0, <1>1 DEF Moves
  <2>2. jobs'[j].at = inst.id
    BY <1>0, <2>1 DEF StartBegin, LedgerTyped
  <2>3. inst.id \in ledger'.unobserved
    BY <1>0, <2>1 DEF StartBegin, Files
  <2> QED
    BY <2>2, <2>3
<1>2. CASE jobs[j].state # "none" /\ Safe(j)
  BY <1>2, SafeStays
<1>3. CASE jobs[j].state # "none" /\ ~Safe(j)
  <2>1. jobs[j].at \in ledger.unobserved /\ jobs'[j].at = jobs[j].at
    BY <1>0, <1>3 DEF OriginSound, Moves
  <2>2. CASE jobs[j].at \in ledger'.gaps \union aged
    BY <1>0, <2>1, <2>2 DEF Safe
  <2>3. ASSUME NEW o \in Observers, obs[o].pc = "answered", Covers(obs[o]), jobs[j].at = obs[o].of,
               \A k \in obs[o].running \union obs[o].over :
                  jobs[k].at \notin aged => k \in Entries(ledger')
        PROVE  Safe(j)'
    <3>1. Covering(obs[o])
      BY <2>3, LedgerFacts DEF ReportSound, Covers
    <3>2. j \in obs[o].running \union obs[o].over /\ jobs[j].at \notin aged
      BY <1>3, <2>3, <3>1 DEF Covering, Of, Safe
    <3>3. j \in Entries(ledger')
      BY <2>3, <3>2
    <3> QED
      BY <3>3 DEF Safe, Entered, Entries, Entry
  <2>4. CASE jobs[j].at \in ledger'.unobserved
    BY <2>1, <2>4
  <2>5. CASE jobs[j].at \notin ledger'.unobserved
    BY <2>1, <2>2, <2>3, <2>5, MarkGoes, LedgerFacts
  <2> QED
    BY <2>4, <2>5
<1> QED
  BY <1>1, <1>2, <1>3

(* A running job has a container.                                            *)
LEMMA RunningStays ==
    ASSUME LedgerInv, LedgerNext, NEW j \in Jobs, jobs'[j].state = "running"
    PROVE  jobs'[j].at \in conts'
<1>0. /\ OriginSound(j) /\ Moves(j) /\ jobs[j] \in JobRecords
  BY LedgerFacts, JobsMove
<1>1. CASE jobs[j].state = "running"
  <2>0. jobs[j].at \in conts /\ jobs'[j].at = jobs[j].at
    BY <1>0, <1>1 DEF OriginSound, Moves
  <2>1. ASSUME NEW s \in Sandboxes, Kill(s)
        PROVE  jobs'[j].at \in conts'
    <3>1. CASE jobs[j].at = s
      <4>1. jobs'[j] = [jobs[j] EXCEPT !.state = "over"]
        BY <1>1, <2>1, <3>1 DEF Kill, Killed, Of
      <4> QED
        BY <1>0, <4>1 DEF JobRecords
    <3> QED
      BY <2>0, <2>1, <3>1 DEF Kill
  <2>2. CASE Crash
    <3>1. CASE jobs' = [k \in Jobs |-> IF jobs[k].state = "running"
                                       THEN [jobs[k] EXCEPT !.state = "over"] ELSE jobs[k]]
      <4>1. jobs'[j] = [jobs[j] EXCEPT !.state = "over"]
        BY <1>1, <3>1
      <4> QED
        BY <1>0, <4>1 DEF JobRecords
    <3>2. ASSUME NEW s \in conts, conts' = {s},
                 jobs' = [k \in Jobs |-> IF jobs[k].at # s /\ jobs[k].state = "running"
                                         THEN [jobs[k] EXCEPT !.state = "over"] ELSE jobs[k]]
          PROVE  jobs'[j].at \in conts'
      <4>1. ASSUME jobs[j].at # s PROVE FALSE
        <5>1. jobs'[j] = [jobs[j] EXCEPT !.state = "over"]
          BY <1>1, <3>2, <4>1
        <5> QED
          BY <1>0, <5>1 DEF JobRecords
      <4> QED
        BY <2>0, <3>2, <4>1
    <3> QED
      BY <2>2, <3>1, <3>2 DEF Crash
  <2>3. CASE \/ \E k \in Jobs : StartBegin(k) \/ Launch(k) \/ StartEnd(k) \/ Finish(k)
             \/ \E o \in Observers : Activity(o) \/ Answered(o) \/ ActivityEnds(o)
                                     \/ ReportBegin(o) \/ ReportEnds(o)
             \/ ReportNow \/ DiscardBegin \/ Quiesce
             \/ \E s \in Sandboxes : Create(s) \/ DiscardEnd(s) \/ Age(s)
    <3>1. conts \subseteq conts'
      BY <2>3 DEF StartBegin, Launch, StartEnd, Finish, Activity, Answered, ActivityEnds, ReportBegin,
                  ReportEnds, ReportNow, jobVars, DiscardBegin, Quiesce, Create, DiscardEnd, Age
    <3> QED
      BY <2>0, <3>1
  <2> QED
    BY <2>1, <2>2, <2>3 DEF LedgerNext
<1>2. CASE jobs[j].state # "running"
  <2>1. jobs[j].state # "none"
    <3>1. ASSUME StartBegin(j) PROVE jobs'[j].state = "asked"
      BY <3>1, LedgerFacts DEF StartBegin, LedgerTyped
    <3> QED
      BY <1>0, <1>2, <3>1 DEF Moves
  <2>2. jobs[j].at \in conts /\ conts' = conts /\ jobs'[j].at = jobs[j].at
    BY <1>0, <1>2, <2>1 DEF Moves, JobRecords
  <2> QED
    BY <2>2
<1> QED
  BY <1>1, <1>2

(* What is asked has a request that awaits it, or was cut off from it.       *)
LEMMA AskedStays ==
    ASSUME LedgerInv, LedgerNext, NEW j \in Jobs
    PROVE  /\ j \in proxied' => jobs'[j].state # "none"
           /\ jobs'[j].state = "asked" => j \in proxied' \/ j \in past'.cut
<1>0. /\ OriginSound(j) /\ Moves(j) /\ jobs[j] \in JobRecords
      /\ past.cut \subseteq past'.cut /\ LedgerTyped
  BY LedgerFacts, JobsMove, HistoryGrows
<1>1. ASSUME NEW k \in Jobs, StartBegin(k)
      PROVE  /\ j \in proxied' => jobs'[j].state # "none"
             /\ jobs'[j].state = "asked" => j \in proxied' \/ j \in past'.cut
  <2>1. proxied' = proxied \union {k} /\ past' = past
    BY <1>1 DEF StartBegin
  <2>2. CASE j = k
    BY <1>0, <1>1, <2>1, <2>2 DEF StartBegin, LedgerTyped
  <2>3. CASE j # k
    <3>1. jobs'[j] = jobs[j]
      BY <1>0, <1>1, <2>3 DEF StartBegin, LedgerTyped
    <3> QED
      BY <1>0, <2>1, <2>3, <3>1 DEF OriginSound
  <2> QED
    BY <2>2, <2>3
<1>2. ASSUME NEW k \in Jobs, StartEnd(k)
      PROVE  /\ j \in proxied' => jobs'[j].state # "none"
             /\ jobs'[j].state = "asked" => j \in proxied' \/ j \in past'.cut
  <2>1. proxied' = proxied \ {k}
    BY <1>2 DEF StartEnd
  <2>2. j \in proxied' => jobs'[j].state # "none"
    BY <1>0, <2>1 DEF OriginSound, Moves
  <2>3. CASE j = k
    <3>1. CASE jobs[k].state # "asked" /\ jobs' = jobs
      BY <2>2, <2>3, <3>1
    <3>2. CASE jobs[k].state = "asked" /\ jobs' = [jobs EXCEPT ![k].state = "refused"]
      <4>1. jobs'[k].state = "refused"
        BY <1>0, <3>2 DEF LedgerTyped
      <4> QED
        BY <2>2, <2>3, <4>1
    <3>3. CASE past' = [past EXCEPT !.cut = @ \union {k}]
      <4>1. k \in past'.cut
        BY <1>0, <3>3 DEF LedgerTyped
      <4> QED
        BY <2>2, <2>3, <4>1
    <3> QED
      BY <1>2, <3>1, <3>2, <3>3 DEF StartEnd
  <2>4. CASE j # k
    <3>1. jobs'[j] = jobs[j]
      BY <1>0, <1>2, <2>4 DEF StartEnd, LedgerTyped
    <3> QED
      BY <1>0, <2>1, <2>2, <2>4, <3>1 DEF OriginSound
  <2> QED
    BY <2>3, <2>4
<1>3. CASE Crash
  <2>1. proxied' = {} /\ past' = [past EXCEPT !.cut = @ \union {k \in proxied : jobs[k].state = "asked"}]
    BY <1>3 DEF Crash
  <2>2. jobs'[j].state = "asked" => jobs[j].state = "asked"
    <3>1. StartBegin(j) => proxied' = proxied \union {j}
      BY DEF StartBegin
    <3> QED
      BY <1>0, <2>1, <3>1 DEF Moves, JobRecords
  <2>3. j \in proxied /\ jobs[j].state = "asked" => j \in past'.cut
    BY <1>0, <2>1 DEF LedgerTyped
  <2> QED
    BY <1>0, <2>1, <2>2, <2>3 DEF OriginSound
<1>4. CASE \/ \E k \in Jobs : Launch(k) \/ Finish(k)
           \/ \E o \in Observers : Activity(o) \/ Answered(o) \/ ActivityEnds(o)
                                   \/ ReportBegin(o) \/ ReportEnds(o)
           \/ ReportNow \/ DiscardBegin \/ Quiesce
           \/ \E s \in Sandboxes : Create(s) \/ Kill(s) \/ DiscardEnd(s) \/ Age(s)
  <2>1. proxied' = proxied
    BY <1>4 DEF Launch, Finish, Activity, Answered, ActivityEnds, ReportBegin, ReportEnds, ReportNow,
                jobVars, DiscardBegin, Quiesce, Create, Kill, DiscardEnd, Age, InstanceUnchanged
  <2>2. jobs'[j].state = "asked" /\ jobs[j].state # "asked" => StartBegin(j)
    BY <1>0 DEF Moves, JobRecords
  <2>3. StartBegin(j) => j \in proxied'
    BY DEF StartBegin
  <2> QED
    BY <1>0, <2>1, <2>2, <2>3 DEF OriginSound, Moves
<1> QED
  BY <1>1, <1>2, <1>3, <1>4 DEF LedgerNext

(* Every step keeps the jobs sound.                                          *)
LEMMA OriginSoundStep ==
    ASSUME LedgerInv, LedgerNext, NEW j \in Jobs
    PROVE  OriginSound(j)'
<1>0. /\ OriginSound(j) /\ Moves(j) /\ jobs[j] \in JobRecords /\ LedgerTyped /\ AreaSound
      /\ past.misjudged \subseteq past'.misjudged
      /\ Entries(ledger') \subseteq Entered \union Launched /\ Entered = Entries(ledger)
      /\ jobs'[j] \in JobRecords
  BY LedgerFacts, JobsMove, HistoryGrows, FileMoves
<1>1. j \in Entered' <=> j \in Entries(ledger')
  BY DEF Entered, Entries, Entry
<1>2. CASE StartBegin(j)
  <2>1. jobs'[j] = [jobs[j] EXCEPT !.at = inst.id, !.state = "asked"] /\ jobs[j].state = "none"
    BY <1>0, <1>2 DEF StartBegin, LedgerTyped
  <2>2. jobs'[j].at = inst.id /\ jobs'[j].state = "asked" /\ jobs'[j].origin = jobs[j].origin
    BY <1>0, <2>1 DEF JobRecords
  <2>3. inst.id # None
    BY <1>0, <1>2 DEF StartBegin, AreaSound
  <2>4. j \notin Entries(ledger') /\ jobs[j].origin
    BY <1>0, <2>1 DEF OriginSound, Launched
  <2> QED
    BY <1>1, <2>2, <2>3, <2>4, AskedStays, AnnouncedStays DEF OriginSound
<1>3. CASE ~StartBegin(j)
  <2>1. jobs'[j].state = "none" <=> jobs'[j].at = None
    BY <1>0, <1>3 DEF Moves, OriginSound
  <2>2. jobs'[j].state \in {"none", "asked"} => jobs'[j].origin /\ j \notin Entered'
    <3>1. SUFFICES ASSUME jobs'[j].state \in {"none", "asked"}
                   PROVE  jobs'[j].origin /\ j \notin Entered'
      OBVIOUS
    <3>2. jobs[j].state \in {"none", "asked"} /\ jobs'[j].origin = jobs[j].origin
      BY <1>0, <1>3, <3>1 DEF Moves, JobRecords
    <3> QED
      BY <1>0, <1>1, <3>2 DEF OriginSound, Launched
  <2>3. jobs'[j].state = "running" /\ j \notin past'.misjudged => Entry(j)'.end # "ended"
    <3>1. SUFFICES ASSUME jobs'[j].state = "running", j \notin past'.misjudged,
                          ledger'.jobs[j].end = "ended"
                   PROVE  FALSE
      BY DEF Entry
    <3>2. Entry(j).end = "ended"
      BY <3>1, EndsJudged, LedgerFacts
    <3>3. j \in Entered
      BY <3>2 DEF Entered
    <3>4. jobs[j].state = "running"
      BY <1>0, <1>3, <3>1, <3>3 DEF Moves, OriginSound, JobRecords
    <3> QED
      BY <1>0, <3>1, <3>2, <3>4 DEF OriginSound
  <2> QED
    BY <2>1, <2>2, <2>3, AskedStays, AnnouncedStays, RunningStays DEF OriginSound
<1> QED
  BY <1>2, <1>3

(* Instances, discards and containers stay matched.                          *)
LEMMA AreaMatched ==
    ASSUME LedgerTyped, AreaSound, LedgerNext
    PROVE  /\ inst'.status = "ready" => inst'.id # None
           /\ conts' \subseteq discarding' \union {inst'.id} /\ inst'.id \notin discarding'
           /\ inst'.id = inst.id \/ (\E s \in Sandboxes : Create(s)) \/ inst'.id = None
              \/ \A o \in Observers : obs'[o] = NoObs
           /\ inst'.status # "ready" => inst' = inst \/ inst'.id = None \/ Quiesce
<1>0. /\ inst.status = "ready" => inst.id # None
      /\ conts \subseteq discarding \union {inst.id} /\ inst.id \notin discarding
      /\ inst \in [id : Instance, status : {"none", "ready", "quiesced"}]
      /\ conts \subseteq Sandboxes /\ discarding \subseteq Sandboxes
      /\ None \notin Sandboxes
  BY LedgerAssumption DEF AreaSound, LedgerTyped
<1>1. CASE inst' = inst /\ conts' \subseteq conts /\ discarding' = discarding
  BY <1>0, <1>1
<1>2. ASSUME NEW s \in Sandboxes, Create(s)
      PROVE  /\ inst'.status = "ready" => inst'.id # None
             /\ conts' \subseteq discarding' \union {inst'.id} /\ inst'.id \notin discarding'
             /\ inst'.status = "ready"
  BY <1>0, <1>2 DEF Create
<1>3. ASSUME NEW s \in Sandboxes, DiscardEnd(s)
      PROVE  /\ conts' \subseteq discarding' \union {inst'.id} /\ inst'.id \notin discarding'
             /\ inst' = inst
  BY <1>0, <1>3 DEF DiscardEnd
<1>4. CASE DiscardBegin
  BY <1>0, <1>4 DEF DiscardBegin
<1>5. CASE Quiesce
  <2>1. /\ inst'.id = inst.id /\ inst'.status = "quiesced" /\ conts' = conts /\ discarding' = discarding
    BY <1>0, <1>5 DEF Quiesce
  <2> QED
    BY <1>0, <1>5, <2>1
<1>6. CASE Crash
  <2>1. discarding' = {} /\ \A o \in Observers : obs'[o] = NoObs
    BY <1>6 DEF Crash
  <2>2. \/ \E s \in conts : inst' = [id |-> s, status |-> "ready"] /\ conts' = {s}
        \/ inst' = [id |-> None, status |-> "none"] /\ conts' = {}
    BY <1>6 DEF Crash
  <2> QED
    BY <1>0, <2>1, <2>2
<1>7. CASE \/ \E j \in Jobs : StartBegin(j) \/ Launch(j) \/ StartEnd(j) \/ Finish(j)
           \/ \E o \in Observers : Activity(o) \/ Answered(o) \/ ActivityEnds(o)
                                   \/ ReportBegin(o) \/ ReportEnds(o)
           \/ ReportNow
           \/ \E s \in Sandboxes : Kill(s) \/ Age(s)
  <2>1. inst' = inst /\ conts' \subseteq conts /\ discarding' = discarding
    BY <1>7 DEF StartBegin, Launch, StartEnd, Finish, Activity, Answered, ActivityEnds, ReportBegin,
                ReportEnds, ReportNow, jobVars, Kill, Age
  <2> QED
    BY <1>1, <2>1
<1> QED
  BY <1>0, <1>2, <1>3, <1>4, <1>5, <1>6, <1>7 DEF LedgerNext

(* The counts change with starts and settlements only.                       *)
LEMMA CountsMove ==
    ASSUME LedgerTyped, LedgerNext
    PROVE  \/ UNCHANGED <<seq, inFlight, proxied>>
           \/ \E j \in Jobs : StartBegin(j) \/ StartEnd(j)
           \/ Quiesce \/ (\E s \in Sandboxes : DiscardEnd(s)) \/ Crash
<1>1. ASSUME NEW j \in Jobs, Launch(j) \/ Finish(j)
      PROVE  UNCHANGED <<seq, inFlight, proxied>>
  BY <1>1 DEF Launch, Finish
<1>2. ASSUME NEW o \in Observers,
             Activity(o) \/ Answered(o) \/ ActivityEnds(o) \/ ReportBegin(o) \/ ReportEnds(o)
      PROVE  UNCHANGED <<seq, inFlight, proxied>>
  BY <1>2 DEF Activity, Answered, ActivityEnds, ReportBegin, ReportEnds, jobVars
<1>3. CASE ReportNow \/ DiscardBegin \/ \E s \in Sandboxes : Create(s) \/ Kill(s) \/ Age(s)
  BY <1>3 DEF ReportNow, jobVars, DiscardBegin, Create, Kill, Age, InstanceUnchanged
<1> QED
  BY <1>1, <1>2, <1>3 DEF LedgerNext

(* While a container runs, the count of its starts in flight is exact.       *)
LEMMA CountsStay ==
    ASSUME LedgerInv, LedgerNext
    PROVE  \A s \in conts' : inFlight'[s] = Cardinality(Flying(s)')
<1>0. /\ LedgerTyped /\ AreaSound /\ \A j \in Jobs : Moves(j) /\ OriginSound(j)
      /\ jobs \in [Jobs -> JobRecords] /\ proxied \subseteq Jobs /\ IsFiniteSet(proxied)
      /\ inFlight \in [Sandboxes -> Nat] /\ conts \subseteq Sandboxes
  BY LedgerFacts, JobsMove DEF LedgerTyped
<1>1. \A s : IsFiniteSet(Flying(s)) /\ Flying(s) \subseteq proxied
  BY <1>0, FS_Subset DEF Flying
<1>2. \A j \in proxied : jobs'[j].at = jobs[j].at
  BY <1>0 DEF Moves, OriginSound
<1>3. ASSUME NEW j \in Jobs, StartBegin(j), NEW s \in conts'
      PROVE  inFlight'[s] = Cardinality(Flying(s)')
  <2>1. /\ proxied' = proxied \union {j} /\ conts' = conts /\ j \notin proxied
        /\ inFlight' = [inFlight EXCEPT ![inst.id] = @ + 1] /\ jobs'[j].at = inst.id
    BY <1>0, <1>3 DEF StartBegin, OriginSound, LedgerTyped
  <2>2. inFlight[s] = Cardinality(Flying(s)) /\ s \in Sandboxes
    BY <1>0, <1>3, <2>1 DEF AreaSound
  <2>3. CASE s = inst.id
    <3>1. Flying(s)' = Flying(s) \union {j} /\ j \notin Flying(s)
      BY <1>2, <2>1, <2>3 DEF Flying
    <3>2. Cardinality(Flying(s)') = Cardinality(Flying(s)) + 1
      BY <1>1, <3>1, FS_AddElement
    <3>3. inFlight'[s] = inFlight[s] + 1
      BY <1>0, <2>1, <2>2, <2>3
    <3> QED
      BY <2>2, <3>2, <3>3
  <2>4. CASE s # inst.id
    <3>1. Flying(s)' = Flying(s)
      BY <1>2, <2>1, <2>4 DEF Flying
    <3>2. inFlight'[s] = inFlight[s]
      BY <1>0, <2>1, <2>2, <2>4
    <3> QED
      BY <2>2, <3>1, <3>2
  <2> QED
    BY <2>3, <2>4
<1>4. ASSUME NEW j \in Jobs, StartEnd(j), NEW s \in conts'
      PROVE  inFlight'[s] = Cardinality(Flying(s)')
  <2>1. /\ proxied' = proxied \ {j} /\ conts' = conts /\ j \in proxied
        /\ inFlight' = [inFlight EXCEPT ![jobs[j].at] = OneLess(@)]
    BY <1>4 DEF StartEnd
  <2>2. inFlight[s] = Cardinality(Flying(s)) /\ s \in Sandboxes
    BY <1>0, <1>4, <2>1 DEF AreaSound
  <2>3. CASE s = jobs[j].at
    <3>1. Flying(s)' = Flying(s) \ {j} /\ j \in Flying(s)
      BY <1>2, <2>1, <2>3 DEF Flying
    <3>2. Cardinality(Flying(s)') = Cardinality(Flying(s)) - 1 /\ Cardinality(Flying(s)) \in Nat
      BY <1>1, <3>1, FS_RemoveElement, FS_CardinalityType
    <3>3. Cardinality(Flying(s)) # 0
      BY <1>1, <3>1, FS_EmptySet
    <3>4. inFlight'[s] = OneLess(inFlight[s])
      BY <1>0, <2>1, <2>2, <2>3
    <3> QED
      BY <2>2, <3>2, <3>3, <3>4 DEF OneLess
  <2>4. CASE s # jobs[j].at
    <3>1. Flying(s)' = Flying(s)
      BY <1>2, <2>1, <2>4 DEF Flying
    <3>2. inFlight'[s] = inFlight[s]
      BY <1>0, <2>1, <2>2, <2>4
    <3> QED
      BY <2>2, <3>1, <3>2
  <2> QED
    BY <2>3, <2>4
<1>5. ASSUME NEW t, SettleSandbox(t), t \notin conts, conts' = conts, proxied' = proxied,
             NEW s \in conts'
      PROVE  inFlight'[s] = Cardinality(Flying(s)')
  <2>1. Flying(s)' = Flying(s) /\ inFlight'[s] = inFlight[s]
    BY <1>0, <1>2, <1>5 DEF Flying, SettleSandbox
  <2> QED
    BY <1>0, <1>5, <2>1 DEF AreaSound
<1>6. CASE Quiesce
  BY <1>5, <1>6 DEF Quiesce, InstanceUnchanged
<1>7. ASSUME NEW t \in Sandboxes, DiscardEnd(t), NEW s \in conts'
      PROVE  inFlight'[s] = Cardinality(Flying(s)')
  BY <1>5, <1>7 DEF DiscardEnd, InstanceUnchanged
<1>8. ASSUME Crash, NEW s \in conts'
      PROVE  inFlight'[s] = Cardinality(Flying(s)')
  <2>1. proxied' = {} /\ inFlight' = [t \in Sandboxes |-> 0] /\ s \in Sandboxes
    BY <1>0, <1>8 DEF Crash
  <2>2. Flying(s)' = {} /\ inFlight'[s] = 0
    BY <2>1 DEF Flying
  <2> QED
    BY <2>2, FS_EmptySet
<1>9. ASSUME UNCHANGED <<inFlight, proxied>>, NEW s \in conts'
      PROVE  inFlight'[s] = Cardinality(Flying(s)')
  <2>1. Flying(s)' = Flying(s) /\ inFlight'[s] = inFlight[s]
    BY <1>2, <1>9 DEF Flying
  <2>2. CASE s \in conts
    BY <1>0, <2>1, <2>2 DEF AreaSound
  <2>3. CASE s \notin conts
    <3>1. s \in Sandboxes /\ Of(s) = {}
      <4>1. \/ conts' \subseteq conts
            \/ \E t \in Sandboxes : Create(t)
        BY DEF LedgerNext, StartBegin, Launch, StartEnd, Finish, Activity, Answered, ActivityEnds,
               ReportBegin, ReportEnds, ReportNow, jobVars, DiscardBegin, Quiesce, DiscardEnd, Age, Kill,
               Crash
      <4> QED
        BY <1>9, <2>3, <4>1 DEF Create
    <3>2. Flying(s) = {} /\ inFlight[s] = 0
      BY <1>0, <3>1 DEF AreaSound, Flying, Of
    <3> QED
      BY <2>1, <3>2, FS_EmptySet
  <2> QED
    BY <2>2, <2>3
<1> QED
  BY <1>3, <1>4, <1>6, <1>7, <1>8, <1>9, <1>0, CountsMove

(* Every step keeps the area sound.                                          *)
LEMMA AreaSoundStep ==
    ASSUME LedgerInv, LedgerNext
    PROVE  AreaSound'
<1>0. /\ LedgerTyped /\ AreaSound /\ ReportsTell /\ \A j \in Jobs : Moves(j) /\ OriginSound(j)
      /\ jobs \in [Jobs -> JobRecords] /\ ledger \in Files /\ ledger' \in Files
      /\ inst \in [id : Instance, status : {"none", "ready", "quiesced"}]
      /\ seq \in [Sandboxes -> Nat] /\ inFlight \in [Sandboxes -> Nat]
      /\ None \notin Sandboxes
  BY LedgerFacts, JobsMove, FileMoves, LedgerAssumption DEF LedgerTyped, Preserved
<1>1. inst'.status # "ready" => inst'.id \notin ledger'.unobserved
  <2>1. SUFFICES ASSUME inst'.status # "ready" PROVE inst'.id \notin ledger'.unobserved
    OBVIOUS
  <2>2. CASE inst'.id = None
    BY <1>0, <2>2 DEF Files
  <2>3. CASE Quiesce
    <3>1. ledger' = Settled(ledger, {inst.id}) /\ inst.id \in Sandboxes /\ inst'.id = inst.id
      BY <1>0, <2>3 DEF Quiesce, SettleSandbox, AreaSound, Instance
    <3> QED
      BY <1>0, <3>1, SettledFile
  <2>4. CASE inst' = inst
    <3>1. \A j \in Jobs : ~StartBegin(j)
      BY <2>1, <2>4 DEF StartBegin
    <3>2. ledger'.unobserved \subseteq ledger.unobserved
      BY <1>0, <3>1, MarkComes
    <3> QED
      BY <1>0, <2>1, <2>4, <3>2 DEF AreaSound
  <2> QED
    BY <1>0, <2>1, <2>2, <2>3, <2>4, AreaMatched
<1>2. ASSUME NEW s \in Sandboxes, Of(s)' = {}
      PROVE  seq'[s] = 0 /\ inFlight'[s] = 0
  <2>1. Of(s) = {}
    BY <1>0, <1>2 DEF Of, Moves, OriginSound
  <2>2. seq[s] = 0 /\ inFlight[s] = 0
    BY <1>0, <2>1 DEF AreaSound
  <2>3. ASSUME NEW j \in Jobs, StartBegin(j) PROVE seq'[s] = 0 /\ inFlight'[s] = 0
    <3>1. jobs'[j].at = inst.id
      BY <1>0, <2>3 DEF StartBegin
    <3>2. s # inst.id
      BY <1>2, <3>1 DEF Of
    <3> QED
      BY <1>0, <2>2, <2>3, <3>2 DEF StartBegin
  <2>4. ASSUME NEW j \in Jobs, StartEnd(j) PROVE seq'[s] = 0 /\ inFlight'[s] = 0
    <3>1. s # jobs[j].at
      BY <2>1 DEF Of
    <3> QED
      BY <1>0, <2>2, <2>4, <3>1 DEF StartEnd
  <2>5. ASSUME NEW t, SettleSandbox(t) PROVE seq'[s] = 0 /\ inFlight'[s] = 0
    BY <1>0, <2>2, <2>5 DEF SettleSandbox
  <2>6. CASE Crash
    BY <2>6 DEF Crash
  <2>7. Quiesce \/ (\E t \in Sandboxes : DiscardEnd(t)) => \E t : SettleSandbox(t)
    BY DEF Quiesce, DiscardEnd
  <2> QED
    BY <1>0, <2>2, <2>3, <2>4, <2>5, <2>6, <2>7, CountsMove
<1> QED
  BY <1>0, <1>1, <1>2, AreaMatched, CountsStay DEF AreaSound

(* What was launched stays so, in place, and what is over stays over.        *)
LEMMA LaunchedStays ==
    ASSUME LedgerInv, LedgerNext, NEW j \in Launched
    PROVE  /\ j \in Launched' /\ jobs'[j].at = jobs[j].at /\ jobs'[j].origin = jobs[j].origin
           /\ jobs[j].state = "over" => jobs'[j].state = "over"
           /\ jobs'[j].state = "running" => jobs[j].state = "running"
<1>1. j \in Jobs /\ Moves(j) /\ jobs[j].state \in {"running", "over"}
  BY LedgerFacts, JobsMove DEF Launched
<1> QED
  BY <1>1 DEF Moves, Launched

(* Jobs come to an instance by starts only.                                  *)
LEMMA PlacesStay ==
    ASSUME LedgerInv, LedgerNext, NEW s, s # None
    PROVE  /\ Of(s) \subseteq Of(s)'
           /\ Of(s)' = Of(s) \/ (s = inst.id /\ \E j \in Jobs : StartBegin(j))
<1>1. \A j \in Jobs : Moves(j) /\ OriginSound(j)
  BY LedgerFacts, JobsMove
<1>2. ASSUME NEW j \in Of(s) PROVE j \in Of(s)'
  BY <1>1 DEF Of, Moves, OriginSound
<1>3. ASSUME NEW j \in Of(s)', j \notin Of(s)
      PROVE  s = inst.id /\ \E k \in Jobs : StartBegin(k)
  <2>1. j \in Jobs /\ jobs'[j].at = s /\ jobs[j].at # s
    BY <1>3 DEF Of
  <2>2. jobs[j].state = "none"
    BY <1>1, <2>1 DEF Moves
  <2>3. StartBegin(j)
    BY <1>1, <2>1, <2>2 DEF Moves
  <2>4. jobs'[j].at = inst.id
    BY <2>1, <2>3, LedgerFacts DEF StartBegin, JobRecords
  <2> QED
    BY <2>1, <2>3, <2>4
<1> QED
  BY <1>2, <1>3

(* A report that nothing touches stays sound: a start outdates its token, a  *)
(* settlement leaves nothing that it would have to cover.                    *)
LEMMA ReportKept ==
    ASSUME LedgerInv, LedgerNext, NEW o \in Observers, obs'[o] = obs[o]
    PROVE  ReportSound(obs[o])'
<1> DEFINE r == obs[o]
           s == obs[o].of
<1>0. /\ LedgerTyped /\ AreaSound /\ ReportSound(r) /\ r \in Reports
      /\ \A j \in Jobs : Moves(j) /\ OriginSound(j) /\ OriginSound(j)'
      /\ seq \in [Sandboxes -> Nat] /\ seq' \in [Sandboxes -> Nat]
      /\ None \notin Sandboxes /\ None \notin Nat
  BY LedgerFacts, JobsMove, OriginSoundStep, LedgerTypedStep, LedgerAssumption DEF LedgerTyped
<1>1. SUFFICES ASSUME r.pc # "idle" PROVE ReportSound(obs[o])'
  BY DEF ReportSound
<1>2. /\ s # None /\ s \in r.live /\ s \in Sandboxes
      /\ Of(s) = {} => r.token \in {None, 0}
      /\ inst.status = "ready" /\ inst.id = s /\ r.token # None => r.token <= seq[s]
      /\ r.before \subseteq Launched /\ r.returned \subseteq r.before
      /\ r.kind = "jobs" => \A j \in r.before : jobs[j].state = "running" => jobs[j].at \in r.live
      /\ r.token = seq[s] => Covering(r)
      /\ r.pc = "answered" => Telling(r)
  BY <1>0, <1>1 DEF ReportSound, Reports, Instance
<1>3. ~Crash
  <2>1. Crash => r.pc = "idle"
    BY DEF Crash, NoObs
  <2> QED
    BY <1>1, <2>1
<1>4. Of(s)' = {} => r.token \in {None, 0}
  BY <1>2, PlacesStay
<1>5. inst'.status = "ready" /\ inst'.id = s /\ r.token # None => r.token <= seq'[s]
  <2>1. SUFFICES ASSUME inst'.status = "ready", inst'.id = s, r.token # None
                 PROVE  r.token <= seq'[s]
    OBVIOUS
  <2>2. r.token \in Nat /\ seq[s] \in Nat /\ seq'[s] \in Nat
    BY <1>0, <1>2, <2>1 DEF Reports
  <2>3. CASE Create(s)
    <3>1. r.token = 0
      BY <1>2, <2>1, <2>3 DEF Create
    <3> QED
      BY <2>2, <3>1
  <2>4. CASE inst' = inst
    <3>1. r.token <= seq[s]
      BY <1>2, <2>1, <2>4
    <3>2. ASSUME NEW j \in Jobs, StartBegin(j) PROVE r.token <= seq'[s]
      <4>1. seq'[s] = seq[s] + 1
        BY <1>0, <1>2, <2>1, <2>4, <3>2 DEF StartBegin
      <4> QED
        BY <2>2, <3>1, <4>1
    <3>3. ASSUME NEW t \in Sandboxes, DiscardEnd(t) PROVE seq'[s] = seq[s]
      <4>1. t # s
        BY <1>0, <2>1, <2>4, <3>3 DEF DiscardEnd, AreaSound
      <4> QED
        BY <1>0, <1>2, <3>3, <4>1 DEF DiscardEnd, SettleSandbox
    <3>4. ~Quiesce
      <4>1. Quiesce => inst'.status = "quiesced"
        BY <1>0 DEF Quiesce, LedgerTyped
      <4> QED
        BY <2>1, <4>1
    <3>5. \A j \in Jobs : StartEnd(j) => seq' = seq
      BY DEF StartEnd
    <3> QED
      BY <1>0, <1>3, <3>1, <3>2, <3>3, <3>4, <3>5, CountsMove
  <2>5. inst' = inst \/ Create(s)
    <3>1. \A t \in Sandboxes : Create(t) => t = s
      BY <2>1 DEF Create
    <3>2. ~DiscardBegin /\ ~Quiesce
      <4>1. DiscardBegin => inst'.status = "none"
        BY DEF DiscardBegin
      <4>2. Quiesce => inst'.status = "quiesced"
        BY <1>0 DEF Quiesce, LedgerTyped
      <4> QED
        BY <2>1, <4>1, <4>2
    <3> QED
      BY <1>3, <3>1, <3>2 DEF LedgerNext, StartBegin, Launch, StartEnd, Finish, Activity, Answered,
         ActivityEnds, ReportBegin, ReportEnds, ReportNow, jobVars, DiscardEnd, Age, Kill
  <2> QED
    BY <2>3, <2>4, <2>5
<1>6. r.before \subseteq Launched'
  BY <1>2, LaunchedStays
<1>7. r.kind = "jobs" => \A j \in r.before : jobs'[j].state = "running" => jobs'[j].at \in r.live
  BY <1>2, LaunchedStays
<1>8. r.token = seq'[s] => Covering(obs[o])'
  <2>1. SUFFICES ASSUME r.token = seq'[s] PROVE Covering(obs[o])'
    OBVIOUS
  <2>2. r.token \in Nat /\ r.token # None
    BY <1>0, <1>2, <2>1
  <2>3. ASSUME NEW j \in Jobs, jobs[j].state # "none", Safe(j) \/ j \in Launched
        PROVE  Safe(j)' \/ j \in Launched'
    BY <2>3, SafeStays, LaunchedStays
  <2>4. CASE s \notin conts' /\ s \notin ledger'.unobserved
    <3>1. \A j \in Of(s)' : Safe(j)'
      BY <1>0, <1>2, <2>4 DEF Of, OriginSound
    <3> QED
      BY <2>4, <3>1 DEF Covering
  <2>5. CASE seq'[s] = seq[s] /\ Of(s)' = Of(s)
    <3>1. Covering(r)
      BY <1>2, <2>1, <2>5
    <3>2. \A j \in Of(s) : j \in Jobs /\ jobs[j].state # "none"
      BY <1>0, <1>2 DEF Of, OriginSound
    <3>3. s \in conts' /\ s \notin conts => Of(s) = {}
      BY DEF LedgerNext, StartBegin, Launch, StartEnd, Finish, Activity, Answered, ActivityEnds,
             ReportBegin, ReportEnds, ReportNow, jobVars, DiscardBegin, Quiesce, DiscardEnd, Age, Kill,
             Crash, Create
    <3>4. r.pc = "asked" /\ s \in conts' =>
            \A j \in Of(s)' : Safe(j)' \/ jobs'[j].state \in {"running", "over"}
      <4>1. ASSUME r.pc = "asked", s \in conts', NEW j \in Of(s)
            PROVE  Safe(j)' \/ jobs'[j].state \in {"running", "over"}
        <5>1. Safe(j) \/ j \in Launched
          BY <3>1, <3>2, <3>3, <4>1 DEF Covering, Launched
        <5> QED
          BY <2>3, <3>2, <5>1 DEF Launched
      <4> QED
        BY <2>5, <4>1
    <3>5. r.pc = "answered" => \A j \in Of(s)' : Safe(j)' \/ j \in r.running \union r.over
      BY <2>5, <3>1, <3>2, SafeStays DEF Covering
    <3> QED
      BY <3>4, <3>5 DEF Covering
  <2>6. ASSUME NEW j \in Jobs, StartBegin(j), s = inst.id PROVE FALSE
    <3>1. seq'[s] = seq[s] + 1 /\ r.token <= seq[s]
      BY <1>0, <1>2, <2>2, <2>6 DEF StartBegin
    <3> QED
      BY <1>0, <1>2, <2>1, <3>1
  <2>7. ASSUME NEW j \in Jobs, StartBegin(j) PROVE seq'[s] = seq[s]
    <3>1. s # inst.id
      BY <2>6, <2>7
    <3> QED
      BY <1>0, <1>2, <2>7, <3>1 DEF StartBegin
  <2>8. ASSUME NEW t \in Sandboxes, SettleSandbox(t), t \notin conts, conts' = conts
        PROVE  seq'[s] = seq[s] \/ (s \notin conts' /\ s \notin ledger'.unobserved)
    <3>1. CASE t # s
      BY <1>0, <2>8, <3>1 DEF SettleSandbox
    <3>2. CASE t = s
      <4>1. ledger'.unobserved = ledger.unobserved \ {s}
        BY <1>0, <2>8, <3>2, SettledFile DEF SettleSandbox, LedgerTyped
      <4> QED
        BY <2>8, <3>2, <4>1
    <3> QED
      BY <3>1, <3>2
  <2>9. Quiesce => \E t \in Sandboxes : SettleSandbox(t) /\ t \notin conts /\ conts' = conts
    <3>1. Quiesce => inst.id \in Sandboxes
      BY <1>0 DEF Quiesce, AreaSound, LedgerTyped, Instance
    <3> QED
      BY <3>1 DEF Quiesce
  <2>10. \A t \in Sandboxes : DiscardEnd(t) => SettleSandbox(t) /\ t \notin conts /\ conts' = conts
    BY DEF DiscardEnd
  <2>11. \A j \in Jobs : StartEnd(j) => seq' = seq
    BY DEF StartEnd
  <2>12. seq'[s] = seq[s] \/ (s \notin conts' /\ s \notin ledger'.unobserved)
    BY <1>0, <1>3, <2>7, <2>8, <2>9, <2>10, <2>11, CountsMove
  <2>13. Of(s)' = Of(s)
    BY <1>2, <2>6, PlacesStay
  <2> QED
    BY <2>4, <2>5, <2>12, <2>13
<1>9. r.pc = "answered" => Telling(obs[o])'
  <2>1. SUFFICES ASSUME r.pc = "answered" PROVE Telling(obs[o])'
    OBVIOUS
  <2>2. Telling(r)
    BY <1>2, <2>1
  <2>3. r.running \union r.over \union r.bare \subseteq Launched' \intersect Of(s)'
    BY <1>2, <2>2, LaunchedStays, PlacesStay DEF Telling
  <2>4. \A j \in r.over : jobs'[j].state = "over"
    BY <2>2, LaunchedStays DEF Telling
  <2>5. \A j \in r.running \union r.over : jobs'[j].origin
    BY <2>2, LaunchedStays DEF Telling
  <2>6. \A j \in r.bare : ~jobs'[j].origin
    BY <2>2, LaunchedStays DEF Telling
  <2>7. ASSUME NEW j \in Of(s)' \intersect r.before
        PROVE  /\ jobs'[j].state = "running" => j \in r.running \union r.bare
               /\ jobs'[j].origin => j \in r.running \union r.over
    <3>1. j \in Launched
      BY <1>2, <2>7
    <3>2. j \in Of(s)
      BY <2>7, <3>1, LaunchedStays DEF Of
    <3> QED
      BY <2>2, <2>7, <3>1, <3>2, LaunchedStays DEF Telling
  <2> QED
    BY <2>3, <2>4, <2>5, <2>6, <2>7 DEF Telling
<1> QED
  BY <1>2, <1>4, <1>5, <1>6, <1>7, <1>8, <1>9 DEF ReportSound

(* A question says what was launched and live when it was put.               *)
LEMMA QuestionSound ==
    ASSUME LedgerInv, NEW o \in Observers, NEW s \in Sandboxes, NEW k \in {"activity", "jobs"},
           s \in discarding \/ s = inst.id, k = "jobs" => s = inst.id,
           Observe(o, s, k), UNCHANGED <<jobVars, ledger, seq, inFlight, past>>
    PROVE  ReportSound(obs[o])'
<1> DEFINE r == [NoObs EXCEPT !.pc = "asked", !.of = s, !.token = Token(s), !.kind = k,
                              !.live = {s} \union discarding, !.before = Launched,
                              !.returned = IF k = "jobs" THEN Launched \ proxied ELSE {}]
<1>0. /\ LedgerTyped /\ AreaSound /\ \A j \in Jobs : OriginSound(j)
      /\ inFlight[s] \in Nat /\ seq[s] \in Nat /\ None \notin Sandboxes /\ None \notin Nat
      /\ jobs \in [Jobs -> JobRecords] /\ IsFiniteSet(proxied)
  BY LedgerFacts, LedgerAssumption DEF LedgerTyped
<1>1. obs'[o] = r
  BY <1>0 DEF LedgerTyped, Observe
<1>2. /\ r.pc = "asked" /\ r.of = s /\ r.token = Token(s) /\ r.kind = k
      /\ r.live = {s} \union discarding /\ r.before = Launched
      /\ r.returned = (IF k = "jobs" THEN Launched \ proxied ELSE {})
  BY DEF NoObs
<1> HIDE DEF r
<1>3. /\ jobs' = jobs /\ conts' = conts /\ inst' = inst /\ aged' = aged /\ ledger' = ledger
      /\ seq' = seq /\ past' = past
  BY DEF jobVars
<1>4. Token(s) = None \/ (Token(s) = seq[s] /\ inFlight[s] = 0)
  BY <1>0 DEF Token
<1>5. ASSUME Token(s) = seq[s], s \in conts, NEW j \in Of(s)
      PROVE  Safe(j) \/ jobs[j].state \in {"running", "over"}
  <2>1. Cardinality(Flying(s)) = 0
    BY <1>0, <1>4, <1>5 DEF AreaSound
  <2>2. Flying(s) = {}
    <3>1. IsFiniteSet(Flying(s))
      BY <1>0, FS_Subset DEF Flying
    <3> QED
      BY <2>1, <3>1, FS_EmptySet
  <2>3. j \in Jobs /\ jobs[j].at = s /\ j \notin proxied
    BY <1>5, <2>2 DEF Of, Flying
  <2>4. jobs[j] \in JobRecords /\ OriginSound(j)
    BY <1>0, <2>3
  <2> QED
    BY <1>0, <2>3, <2>4 DEF OriginSound, Safe, JobRecords
<1>6. Of(s) = {} => Token(s) \in {None, 0}
  BY <1>0, <1>4 DEF AreaSound
<1>7. k = "jobs" => \A j \in Launched : jobs[j].state = "running" => jobs[j].at \in {s} \union discarding
  <2>1. \A j \in Launched : jobs[j].state = "running" => jobs[j].at \in conts
    BY <1>0 DEF Launched, OriginSound
  <2> QED
    BY <1>0, <2>1 DEF AreaSound
<1>8. r.of # None /\ r.of \in r.live /\ (Of(r.of) = {} => r.token \in {None, 0})
  BY <1>0, <1>2, <1>6
<1>9. r.token # None => r.token <= seq[r.of]
  BY <1>0, <1>2, <1>4
<1>10. r.before \subseteq Launched /\ r.returned \subseteq r.before
  BY <1>2
<1>11. r.kind = "jobs" => \A j \in r.before : jobs[j].state = "running" => jobs[j].at \in r.live
  BY <1>2, <1>7
<1>12. r.token = seq[r.of] => Covering(r)
  BY <1>2, <1>5 DEF Covering
<1>13. ReportSound(r)
  BY <1>2, <1>8, <1>9, <1>10, <1>11, <1>12 DEF ReportSound
<1> QED
  BY <1>1, <1>3, <1>13 DEF ReportSound, Covering, Telling, Safe, Of, Launched, Entered, Entry

(* An answer lists what was launched and has an origin; if the token still   *)
(* covers it, that is all that the ledger needs of the instance.             *)
LEMMA AnswerSound ==
    ASSUME LedgerInv, NEW o \in Observers, Answered(o)
    PROVE  ReportSound(obs[o])'
<1> DEFINE r == obs[o]
           J == Of(obs[o].of)
           q == [r EXCEPT !.pc = "answered",
                    !.running = {j \in J : jobs[j].state = "running" /\ jobs[j].origin},
                    !.over = {j \in J : jobs[j].state = "over" /\ jobs[j].origin},
                    !.bare = {j \in J : jobs[j].state = "running" /\ ~jobs[j].origin}]
<1>0. /\ LedgerTyped /\ ReportSound(r) /\ r \in Reports
      /\ r.pc = "asked" /\ r.of \in conts
  BY LedgerFacts DEF LedgerTyped, Answered
<1>1. obs'[o] = q
  BY <1>0 DEF LedgerTyped, Answered
<1>2. /\ q.pc = "answered" /\ q.of = r.of /\ q.token = r.token /\ q.kind = r.kind
      /\ q.live = r.live /\ q.before = r.before /\ q.returned = r.returned
      /\ q.running = {j \in J : jobs[j].state = "running" /\ jobs[j].origin}
      /\ q.over = {j \in J : jobs[j].state = "over" /\ jobs[j].origin}
      /\ q.bare = {j \in J : jobs[j].state = "running" /\ ~jobs[j].origin}
  BY <1>0 DEF Reports
<1> HIDE DEF q
<1>3. /\ jobs' = jobs /\ conts' = conts /\ inst' = inst /\ aged' = aged /\ ledger' = ledger
      /\ seq' = seq /\ past' = past
  BY DEF jobVars, Answered
<1>4. /\ r.of # None /\ r.of \in r.live /\ r.before \subseteq Launched
      /\ r.token = seq[r.of] => Covering(r)
  BY <1>0 DEF ReportSound
<1>5. Telling(q)
  <2>1. \A j \in Of(r.of) \intersect r.before : jobs[j].state \in {"running", "over"}
    BY <1>4 DEF Launched
  <2> QED
    BY <1>2, <2>1 DEF Telling, Launched, Of
<1>6. r.token = seq[r.of] => Covering(q)
  <2>1. SUFFICES ASSUME r.token = seq[r.of], NEW j \in J
                 PROVE  Safe(j) \/ j \in q.running \union q.over
    BY <1>2 DEF Covering
  <2>2. Safe(j) \/ jobs[j].state \in {"running", "over"}
    BY <1>0, <1>4, <2>1 DEF Covering
  <2> QED
    BY <1>2, <2>2 DEF Safe
<1>7. ReportSound(q)
  BY <1>0, <1>2, <1>5, <1>6 DEF ReportSound
<1> QED
  BY <1>1, <1>3, <1>7 DEF ReportSound, Covering, Telling, Safe, Of, Launched, Entered, Entry

(* Every step keeps the reports sound.                                       *)
LEMMA ReportSoundStep ==
    ASSUME LedgerInv, LedgerNext, NEW o \in Observers
    PROVE  ReportSound(obs[o])'
<1>0. /\ obs \in [Observers -> Reports] /\ AreaSound /\ inst.id \in Instance
      /\ discarding \subseteq Sandboxes
  BY LedgerFacts DEF LedgerTyped
<1>1. CASE obs'[o] = obs[o]
  BY <1>1, ReportKept
<1>2. CASE obs'[o] = NoObs
  BY <1>2 DEF ReportSound, NoObs
<1>3. ASSUME NEW k \in Observers, Activity(k) PROVE ReportSound(obs[o])'
  <2>1. PICK s \in discarding \union (IF inst.status = "ready" THEN {inst.id} ELSE {}) :
          Observe(k, s, "activity")
    BY <1>3 DEF Activity
  <2>2. s \in Sandboxes /\ (s \in discarding \/ s = inst.id)
    BY <1>0, <2>1 DEF AreaSound, Instance
  <2>3. CASE k = o
    BY <1>3, <2>1, <2>2, <2>3, QuestionSound DEF Activity
  <2>4. CASE k # o
    BY <1>0, <1>1, <2>1, <2>4 DEF Observe
  <2> QED
    BY <2>3, <2>4
<1>4. ASSUME NEW k \in Observers, ReportBegin(k) PROVE ReportSound(obs[o])'
  <2>1. inst.id \in Sandboxes
    BY <1>0, <1>4 DEF ReportBegin, AreaSound, Instance
  <2>2. CASE k = o
    BY <1>4, <2>1, <2>2, QuestionSound DEF ReportBegin
  <2>3. CASE k # o
    BY <1>0, <1>1, <1>4, <2>3 DEF ReportBegin, Observe
  <2> QED
    BY <2>2, <2>3
<1>5. ASSUME NEW k \in Observers, Answered(k) PROVE ReportSound(obs[o])'
  <2>1. k # o => obs'[o] = obs[o]
    BY <1>0, <1>5 DEF Answered
  <2> QED
    BY <1>1, <1>5, <2>1, AnswerSound
<1>6. ASSUME NEW k \in Observers, ActivityEnds(k) \/ ReportEnds(k) PROVE ReportSound(obs[o])'
  <2>1. obs'[o] = obs[o] \/ obs'[o] = NoObs
    BY <1>0, <1>6 DEF ActivityEnds, ReportEnds
  <2> QED
    BY <1>1, <1>2, <2>1
<1>7. CASE Crash
  BY <1>2, <1>7 DEF Crash
<1>8. CASE \/ \E j \in Jobs : StartBegin(j) \/ Launch(j) \/ StartEnd(j) \/ Finish(j)
           \/ ReportNow \/ DiscardBegin \/ Quiesce
           \/ \E s \in Sandboxes : Create(s) \/ Kill(s) \/ DiscardEnd(s) \/ Age(s)
  <2>1. obs' = obs
    BY <1>8 DEF StartBegin, Launch, StartEnd, Finish, ReportNow, DiscardBegin, Quiesce, Create,
                Kill, DiscardEnd, Age, InstanceUnchanged
  <2> QED
    BY <1>1, <2>1
<1> QED
  BY <1>3, <1>4, <1>5, <1>6, <1>7, <1>8 DEF LedgerNext

-----------------------------------------------------------------------------
\* The theorems about the ledger.

(* The invariant is inductive.                                               *)
LEMMA LedgerInductive ==
    /\ LedgerInit => LedgerInv
    /\ LedgerInv /\ [LedgerNext]_ledgerVars => LedgerInv'
<1> USE LedgerAssumption
<1>1. ASSUME LedgerInit PROVE LedgerInv
  <2>1. /\ NoJob.at = None /\ NoJob.state = "none" /\ NoJob.origin = TRUE
        /\ NoEntry.end = "absent" /\ NoObs.pc = "idle"
    BY DEF NoJob, NoEntry, NoObs
  <2>2. LedgerTyped
    <3>1. /\ NoJob \in [at : Instance, state : {"none", "asked", "running", "over", "refused"},
                        origin : BOOLEAN]
          /\ NoEntry \in [end : {"open", "ended", "absent"}, origin : BOOLEAN]
          /\ NoObs \in Reports
      BY DEF NoJob, NoEntry, NoObs, Reports, Instance
    <3>2. ledger \in Files
      BY <1>1, <3>1 DEF LedgerInit, Files
    <3>3. inst \in [id : Instance, status : {"none", "ready", "quiesced"}]
      BY <1>1 DEF LedgerInit, Instance
    <3> QED
      BY <1>1, <3>1, <3>2, <3>3, FS_EmptySet DEF LedgerInit, LedgerTyped
  <2>3. \A j \in Jobs : OriginSound(j)
    BY <1>1, <2>1 DEF LedgerInit, OriginSound, Entered, Entry
  <2>4. AreaSound
    BY <1>1 DEF LedgerInit, AreaSound
  <2>5. \A o \in Observers : ReportSound(obs[o])
    BY <1>1, <2>1 DEF LedgerInit, ReportSound
  <2> QED
    BY <2>2, <2>3, <2>4, <2>5 DEF LedgerInv
<1>2. ASSUME LedgerInv, LedgerNext PROVE LedgerInv'
  <2>1. LedgerTyped' /\ AreaSound'
    BY <1>2, LedgerFacts, LedgerTypedStep, AreaSoundStep
  <2>2. \A j \in Jobs : OriginSound(j)'
    BY <1>2, OriginSoundStep
  <2>3. \A o \in Observers : ReportSound(obs[o])'
    BY <1>2, ReportSoundStep
  <2> QED
    BY <2>1, <2>2, <2>3 DEF LedgerInv
<1>3. ASSUME LedgerInv, UNCHANGED ledgerVars PROVE LedgerInv'
  BY <1>3 DEF ledgerVars, jobVars, LedgerInv, LedgerTyped, OriginSound, AreaSound, ReportSound,
              Covering, Telling, Safe, Flying, Of, Launched, Entered, Entry
<1> QED
  BY <1>1, <1>2, <1>3

(* Whatever is launched is in the ledger, or its instance is still marked or *)
(* has left a gap: for any number of jobs, instances and overlapping         *)
(* reports, and whenever the Hub crashes.                                    *)
THEOREM LaunchesAreAnnounced == LedgerSpec => []NothingForgotten
<1>1. LedgerInv => NothingForgotten
  <2> SUFFICES ASSUME LedgerInv, NEW j \in Launched \ (Entered \union past.cut),
                      jobs[j].origin, jobs[j].at \notin aged
               PROVE  jobs[j].at \in ledger.unobserved \union ledger.gaps
    BY DEF NothingForgotten
  <2>1. OriginSound(j) /\ jobs[j].state \in {"running", "over"}
    BY DEF LedgerInv, Launched
  <2> QED
    BY <2>1 DEF OriginSound, Safe
<1> QED
  BY <1>1, LedgerInductive, PTL DEF LedgerSpec

(* No answer ends a job that ran when its question was put, however late it  *)
(* is merged and whatever was merged before.                                 *)
THEOREM RunningStaysOpen == LedgerSpec => []RunningIsOpen
<1>1. LedgerInv => RunningIsOpen
  BY DEF LedgerInv, OriginSound, RunningIsOpen
<1> QED
  BY <1>1, LedgerInductive, PTL DEF LedgerSpec

(* What ended stays so, and the first origin on record stands.               *)
THEOREM EndsAreFinal == LedgerSpec => EndedStaysEnded
<1>1. LedgerInv /\ [LedgerNext]_ledgerVars =>
        [\A j \in Entered :
           /\ Entry(j).end = "ended" => ledger'.jobs[j].end \in {"ended", "absent"}
           /\ ledger'.jobs[j].end = "absent" \/ ledger'.jobs[j].origin = Entry(j).origin]_ledgerVars
  <2> SUFFICES ASSUME LedgerInv, LedgerNext, NEW j \in Entered
               PROVE  /\ Entry(j).end = "ended" => ledger'.jobs[j].end \in {"ended", "absent"}
                      /\ ledger'.jobs[j].end = "absent" \/ ledger'.jobs[j].origin = Entry(j).origin
    OBVIOUS
  <2>1. Preserved(ledger, ledger') /\ j \in Entries(ledger) /\ j \in Jobs
    BY LedgerFacts, FileMoves DEF Entries
  <2> QED
    BY <2>1 DEF Preserved, Entries, EndedIn, Entry
<1> QED
  BY <1>1, LedgerInductive, PTL DEF LedgerSpec, EndedStaysEnded

(* An answer that says known lists every job whose start had returned before *)
(* the question: it is given only over a file without gaps, with the marks   *)
(* of no instance but the one that answered, and that one named its jobs.    *)
LEMMA KnownStep ==
    ASSUME LedgerInv, LedgerNext
    PROVE  KnownIsComplete'
<1> SUFFICES ASSUME answer'.known, NEW j \in answer'.returned \ past'.cut,
                    jobs'[j].origin, jobs'[j].at \notin aged'
             PROVE  Entry(j)'.end # "absent" /\ Entry(j)'.origin
  BY DEF KnownIsComplete
<1>0. /\ LedgerTyped /\ AreaSound /\ ReportsTell /\ ledger \in Files
      /\ \A o \in Observers : ReportSound(obs[o])
  BY LedgerFacts
<1>1. ASSUME NEW o \in Observers, ReportEnds(o)
      PROVE  Entry(j)'.end # "absent" /\ Entry(j)'.origin
  <2> DEFINE r == obs[o]
             m == AfterProbe(obs[o])
  <2>1. /\ ledger' = Snapshot(m, r.live) /\ Complete(ledger') /\ answer'.returned = r.returned
        /\ r.pc = "answered" /\ r.live = {r.of} /\ jobs' = jobs /\ aged' = aged
    BY <1>1 DEF ReportEnds, Answer, jobVars
  <2>2. /\ r.before \subseteq Launched /\ r.returned \subseteq r.before /\ Telling(r)
    BY <1>0, <2>1 DEF ReportSound
  <2>3. j \in Jobs /\ j \in Launched /\ j \in r.before
    BY <2>1, <2>2 DEF Launched
  <2>4. /\ m \in Files
        /\ \A i \in r.running \union r.over : jobs[i].at \notin aged => i \in Entries(m)
    BY <1>0, <2>1, ProbeKeeps DEF Preserved
  <2>5. /\ ledger'.unobserved = m.unobserved \intersect r.live
        /\ jobs[j].at \notin aged /\ j \in Entries(m) => j \in Entries(ledger')
    BY <2>1, <2>3, <2>4, SnapshotFile
  <2>6. Safe(j)' \/ jobs'[j].at \in ledger'.unobserved
    BY <2>1, <2>3, AnnouncedStays DEF Launched
  <2>7. j \in Entries(ledger')
    <3>1. CASE jobs[j].at = r.of
      <4>1. j \in r.running \union r.over
        BY <2>1, <2>2, <2>3, <3>1 DEF Telling, Of
      <4> QED
        BY <2>1, <2>4, <2>5, <4>1
    <3>2. CASE jobs[j].at # r.of
      <4>1. Safe(j)' /\ ledger'.gaps = {} /\ jobs[j].state # "refused"
        BY <2>1, <2>3, <2>5, <2>6, <3>2 DEF Complete, Launched
      <4> QED
        BY <2>1, <2>3, <4>1 DEF Safe, Entered, Entries, Entry
    <3> QED
      BY <3>1, <3>2
  <2> QED
    BY <2>1, <2>3, <2>7 DEF Complete, Entries, Entry
<1>2. CASE ReportNow
  <2> DEFINE live == discarding \union ({inst.id} \ {None})
  <2>1. /\ ledger' = Snapshot(ledger, live) /\ Complete(ledger') /\ answer'.returned = Launched \ proxied
        /\ discarding = {} /\ inst.status # "ready" /\ jobs' = jobs /\ aged' = aged
    BY <1>2 DEF ReportNow, Answer, jobVars
  <2>2. j \in Jobs /\ jobs[j].state \in {"running", "over"}
    BY <2>1 DEF Launched
  <2>3. ledger'.unobserved = {}
    <3>1. ledger'.unobserved = ledger.unobserved \intersect live
      BY <1>0, <2>1, SnapshotFile
    <3> QED
      BY <1>0, <2>1, <3>1 DEF AreaSound
  <2>4. Safe(j)' /\ ledger'.gaps = {}
    BY <2>1, <2>2, <2>3, AnnouncedStays DEF Complete
  <2>5. j \in Entries(ledger')
    BY <2>1, <2>2, <2>4 DEF Safe, Entered, Entries, Entry
  <2> QED
    BY <2>1, <2>2, <2>5 DEF Complete, Entries, Entry
<1>3. CASE \/ \E i \in Jobs : StartBegin(i) \/ Launch(i) \/ StartEnd(i) \/ Finish(i)
           \/ \E o \in Observers : Activity(o) \/ Answered(o) \/ ActivityEnds(o) \/ ReportBegin(o)
           \/ DiscardBegin \/ Quiesce \/ Crash
           \/ \E s \in Sandboxes : Create(s) \/ Kill(s) \/ DiscardEnd(s) \/ Age(s)
  <2>1. answer' = NoAnswer
    BY <1>3 DEF StartBegin, Launch, StartEnd, Finish, Activity, Answered, ActivityEnds, ReportBegin,
                DiscardBegin, Quiesce, Crash, Create, Kill, DiscardEnd, Age, InstanceUnchanged
  <2> QED
    BY <2>1 DEF NoAnswer
<1> QED
  BY <1>1, <1>2, <1>3 DEF LedgerNext

(* What /jobs calls known is complete.                                       *)
THEOREM KnownAnswersComplete == LedgerSpec => []KnownIsComplete
<1>1. LedgerInit => KnownIsComplete
  BY DEF LedgerInit, NoAnswer, KnownIsComplete
<1>2. LedgerInv /\ KnownIsComplete /\ [LedgerNext]_ledgerVars => KnownIsComplete'
  <2>1. ASSUME KnownIsComplete, UNCHANGED ledgerVars PROVE KnownIsComplete'
    BY <2>1 DEF ledgerVars, jobVars, KnownIsComplete, Entry
  <2> QED
    BY <2>1, KnownStep
<1> QED
  BY <1>1, <1>2, LedgerInductive, PTL DEF LedgerSpec
=============================================================================
