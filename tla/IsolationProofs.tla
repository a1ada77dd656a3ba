--------------------------- MODULE IsolationProofs --------------------------
(***************************************************************************)
(* Tenants stay apart, for every value of the constants: the inductive      *)
(* invariants behind TenantsApart, DedicatedNeverShared and PooledIsReset,  *)
(* and the proofs that every step of the Hub keeps them.                    *)
(*                                                                         *)
(* A container is claimed by the pool, by a clean-up, by a refill task, by  *)
(* the start-up recovery, by a ready sandbox or by an acquire that is about *)
(* to register it. Most steps only give claims up ("Quiet"); each of the    *)
(* others moves one claim from one holder to the next.                      *)
(***************************************************************************)
EXTENDS HubProofs

-----------------------------------------------------------------------------
\* The inductive invariants

\* An id that docker run was not yet called for is remembered nowhere.
FreshUnclaimed ==
    \A c \in Absent :
        /\ pool[c] = 0 /\ cleaning[c] = 0
        /\ c \notin warming \union recovered \union used
        /\ \A r \in Requests : requests[r].pc \in {"check", "cold"} => requests[r].container # c
        /\ \A s \in Issued : ContainerOf(s) # c

\* What refill creates is plain.
WarmingIsPlain == \A c \in warming : ~Dedicated(c)

OriginInv == FreshUnclaimed /\ WarmingIsPlain /\ DedicatedNeverShared

HandedOut(r) == requests[r].pc \in {"check", "cold"}

Claims(c) == pool[c] + cleaning[c]

\* TenantsApart once more, without sets, and with what refill tasks create.
PoolApart ==
    \A c \in Containers : Claims(c) <= 1 /\ (c \in warming => Claims(c) = 0)

ReadyApart ==
    \A s \in ListReady :
        /\ Claims(ContainerOf(s)) = 0 /\ ContainerOf(s) \notin warming
        /\ \A t \in ListReady : ContainerOf(s) = ContainerOf(t) => s = t

HandedOutApart ==
    \A r \in Requests : HandedOut(r) =>
        /\ Claims(requests[r].container) = 0 /\ requests[r].container \notin warming
        /\ \A q \in Requests : HandedOut(q) /\ requests[q].container = requests[r].container => q = r
        /\ \A s \in ListReady : ContainerOf(s) # requests[r].container

Apart == PoolApart /\ ReadyApart /\ HandedOutApart

\* Before it serves, the process only fills the pool, once per container.
NotServing ==
    /\ phase \in {"down", "starting", "recovering"} =>
          /\ warming = {} /\ Registered = {} /\ round.pc = "idle"
          /\ \A c \in Containers : cleaning[c] = 0
          /\ \A r \in Requests : requests[r].pc \notin inFlight
    /\ phase \in {"down", "starting"} => PoolContainerIds = {}
    /\ phase # "recovering" => recovered = {}
    /\ recovered \intersect PoolContainerIds = {}

\* The sandboxes that step 4 of the reconciler's round has still to decide on.
Candidates ==
    IF round.pc = "probing" THEN Sandboxes \intersect (round.todo \union {round.at})
    ELSE IF round.pc \in {"reclaim", "releasing"} THEN Sandboxes \intersect round.todo
    ELSE {}

\* A candidate for reclaim that was released meanwhile was active meanwhile.
CandidateMoved ==
    \A s \in Candidates : records[s].status = "released" => records[s].recent

ClaimInv == Apart /\ NotServing /\ CandidateMoved

\* A container that no tenant ever had a chance to soil is not used.
CleanInv == PooledIsReset /\ warming \intersect used = {}

-----------------------------------------------------------------------------
\* The kinds of steps

QuietEngine ==
    /\ Absent' \subseteq Absent
    /\ kind' = kind

QuietPool ==
    /\ \A c \in Containers : pool'[c] <= pool[c] /\ cleaning'[c] <= cleaning[c]
    /\ warming' \subseteq warming

QuietRegistry ==
    /\ Issued' = Issued
    /\ ListReady' \subseteq ListReady
    /\ Registered' \subseteq Registered
    /\ \A s \in Issued : records'[s].container = records[s].container
                         /\ records'[s].key = records[s].key

\* An acquire that arrives, or goes on.
Acquiring(r) == phase = "serving" \/ requests[r].pc \in inFlight

QuietRequests ==
    \A r \in Requests :
        /\ HandedOut(r)' => HandedOut(r) /\ requests'[r].container = requests[r].container
        /\ requests'[r].pc \in inFlight => Acquiring(r)

\* A tenant runs something in its container.
Proxied(s) ==
    /\ s \in ListReady
    /\ used' = used \union {ContainerOf(s)}
    /\ Touch(s)
    /\ UNCHANGED <<docker, kind, poolVars, requests>>

\* A step does one thing: claims are given up, the engine goes on, or a tenant
\* uses what it has.
OneThing ==
    \/ Absent' = Absent /\ used' = used
    \/ UNCHANGED <<poolVars, registryVars, requests, used>>
    \/ \E s \in Sandboxes : Proxied(s)

\* A step that only gives claims up; a tenant may use what it has.
Quiet ==
    /\ QuietEngine /\ QuietPool /\ QuietRegistry /\ QuietRequests
    /\ recovered' \subseteq recovered
    /\ used' \subseteq used \union {ContainerOf(s) : s \in ListReady}
    /\ OneThing

\* A pool entry is popped for an acquire.
Popped(r, c) ==
    /\ Acquiring(r)
    /\ PoolPop(c)
    /\ \E k \in Keys, shape \in AllShapes :
          requests' = [requests EXCEPT ![r] =
              [pc |-> "check", key |-> k, shape |-> shape, sandbox |-> None, container |-> c]]
    /\ UNCHANGED <<docker, kind, registryVars, recovered, used>>

\* A container is created for an acquire.
Started(r, c) ==
    /\ Acquiring(r) /\ ~HandedOut(r)
    /\ c \in Absent
    /\ \E k \in Keys, shape \in AllShapes :
          /\ Create({c}, shape)
          /\ requests' = [requests EXCEPT ![r] =
                 [pc |-> "cold", key |-> k, shape |-> shape, sandbox |-> None, container |-> c]]
    /\ UNCHANGED <<poolVars, registryVars, recovered, used>>

\* An acquire registers the container it was about to hand out.
Assigned(r) ==
    /\ HandedOut(r)
    /\ RegisterFor(r, requests[r].container)
    /\ docker[requests[r].container] = "running"
    /\ UNCHANGED <<docker, kind, poolVars, recovered, used>>

\* A sandbox's container goes to be cleaned or removed: a ready one's, unless it
\* is released again, or the reconciler thinks it idle.
HandedBack(s) ==
    /\ s \in Registered
    /\ s \in ListReady \/ May("again") \/ (s \in Candidates /\ ~records[s].recent)
    /\ ListReady' \subseteq ListReady \ {s}
    /\ Registered' \subseteq Registered
    /\ Issued' = Issued
    /\ \A t \in Issued : records'[t].container = records[t].container
                         /\ records'[t].key = records[t].key
    /\ ReleaseToPool(ContainerOf(s))
    /\ UNCHANGED <<requests, recovered, used>>

\* A cleaned, a warmed or a recovered container joins the pool.
Pooled(c) ==
    /\ \/ CleanAppend(c) /\ UNCHANGED recovered
       \/ WarmAppend(c) /\ UNCHANGED recovered
       \/ /\ phase = "recovering" /\ c \in recovered /\ ~Dedicated(c)
          /\ recovered' = recovered \ {c}
          /\ PoolRestore(c)
    /\ used' \in {used, used \ {c}}
    /\ May("soft") \/ c \in warming \/ c \notin used'
    /\ docker[c] = "running"
    /\ UNCHANGED <<docker, kind, registryVars, requests>>

\* A refill creates containers for the pool.
Warmed(cs) ==
    /\ phase = "serving"
    /\ cs \subseteq Absent
    /\ warming' = cs
    /\ warming = {}
    /\ Create(cs, "plain")
    /\ UNCHANGED <<pool, cleaning, registryVars, requests, recovered, used>>

-----------------------------------------------------------------------------
\* What each kind of step keeps

Typed == TypeInv /\ TypeInv'

(* The invariant says what the runs check.                                   *)
LEMMA ApartMeans == ASSUME TypeInv, Apart PROVE TenantsApart
<1> SUFFICES ASSUME NEW c \in Containers
             PROVE  /\ Claims(c) <= 1
                    /\ ReadyOn(c) \union InTransit(c) # {} => Claims(c) = 0
                    /\ \A s, t \in ReadyOn(c) : s = t
                    /\ \A q, r \in InTransit(c) : q = r
                    /\ ReadyOn(c) = {} \/ InTransit(c) = {}
  BY DEF TenantsApart, Claims
<1>1. \A s \in ReadyOn(c) : s \in ListReady /\ ContainerOf(s) = c
  BY DEF ReadyOn
<1>2. \A r \in InTransit(c) : r \in Requests /\ HandedOut(r) /\ requests[r].container = c
  BY DEF InTransit, HandedOut
<1> QED
  BY <1>1, <1>2 DEF Apart, PoolApart, ReadyApart, HandedOutApart

(* Facts about types that every kind of step needs.                          *)
LEMMA TypeFacts ==
    ASSUME TypeInv
    PROVE  /\ pool \in [Containers -> Nat] /\ cleaning \in [Containers -> Nat]
           /\ warming \subseteq Containers /\ recovered \subseteq Containers
           /\ used \subseteq Containers
           /\ \A s \in ListReady : s \in Registered
           /\ \A s \in Registered : s \in Issued
           /\ \A s \in Issued : s \in Sandboxes /\ ContainerOf(s) \in Containers
           /\ \A r \in Requests : HandedOut(r) => requests[r].container \in Containers
BY DEF TypeInv, TypeOK, PoolTypeOK, RegistryTypeOK, RequestsTyped, HandedOut, ListReady, Registered, Issued,
       ContainerOf

(* Giving claims up keeps tenants apart.                                     *)
LEMMA QuietApart == ASSUME Typed, Apart, Quiet PROVE Apart'
<1>1. /\ pool \in [Containers -> Nat] /\ cleaning \in [Containers -> Nat]
      /\ pool' \in [Containers -> Nat] /\ cleaning' \in [Containers -> Nat]
  BY TypeFacts DEF Typed, TypeInv, TypeOK, PoolTypeOK
<1>2. \A s \in ListReady' : s \in ListReady /\ ContainerOf(s)' = ContainerOf(s)
                             /\ ContainerOf(s) \in Containers
  BY TypeFacts DEF Typed, Quiet, QuietRegistry, ContainerOf
<1>3. \A c \in Containers : (Claims(c) <= 1 => Claims(c)' <= 1) /\ (Claims(c) = 0 => Claims(c)' = 0)
  BY <1>1 DEF Quiet, QuietPool, Claims
<1>4. \A r \in Requests : HandedOut(r)' => /\ HandedOut(r) /\ requests'[r].container = requests[r].container
                                           /\ requests[r].container \in Containers
  BY TypeFacts DEF Typed, Quiet, QuietRequests
<1>5. warming' \subseteq warming
  BY DEF Quiet, QuietPool
<1>6. PoolApart'
  BY <1>3, <1>5 DEF Apart, PoolApart
<1>7. ReadyApart'
  BY <1>2, <1>3, <1>5 DEF Apart, ReadyApart
<1>8. HandedOutApart'
  BY <1>2, <1>3, <1>4, <1>5 DEF Apart, HandedOutApart
<1> QED
  BY <1>6, <1>7, <1>8 DEF Apart

(* Popping a pool entry for an acquire moves the claim.                      *)
LEMMA PoppedApart ==
    ASSUME Typed, Apart, NEW r \in Requests, NEW c \in Containers, Popped(r, c)
    PROVE  Apart'
<1>1. /\ pool[c] \in Nat /\ cleaning[c] \in Nat /\ pool[c] > 0 /\ Claims(c) <= 1
      /\ pool' = [pool EXCEPT ![c] = @ - 1] /\ UNCHANGED <<cleaning, warming>>
      /\ pool \in [Containers -> Nat]
  BY TypeFacts DEF Typed, Popped, PoolPop, Apart, PoolApart
<1>2. Claims(c) # 0 /\ Claims(c)' = 0 /\ c \notin warming
  BY <1>1 DEF Claims, Apart, PoolApart
<1>3. \A d \in Containers : d # c => Claims(d)' = Claims(d)
  BY <1>1 DEF Claims
<1>4. \A s \in ListReady : ContainerOf(s) # c
  BY <1>2 DEF Apart, ReadyApart
<1>5. \A q \in Requests : HandedOut(q) => requests[q].container # c
  BY <1>2 DEF Apart, HandedOutApart
<1>6. ListReady' = ListReady /\ \A s \in ListReady : ContainerOf(s)' = ContainerOf(s) /\ ContainerOf(s) \in Containers
  BY TypeFacts DEF Typed, Popped, registryVars, ListReady, ContainerOf
<1>7. /\ requests'[r].container = c
      /\ \A q \in Requests \ {r} : requests'[q] = requests[q]
  BY DEF Popped, Typed, TypeInv, TypeOK
<1>8. \A q \in Requests \ {r} : (HandedOut(q)' <=> HandedOut(q)) /\ (HandedOut(q) => requests[q].container \in Containers)
  BY <1>7, TypeFacts DEF HandedOut, Typed
<1>9. PoolApart'
  BY <1>1, <1>2, <1>3 DEF Apart, PoolApart
<1>10. ReadyApart'
  BY <1>1, <1>3, <1>4, <1>6 DEF Apart, ReadyApart
<1>11. HandedOutApart'
  BY <1>1, <1>2, <1>3, <1>4, <1>5, <1>6, <1>7, <1>8 DEF Apart, HandedOutApart
<1> QED
  BY <1>9, <1>10, <1>11 DEF Apart

(* Creating a container for an acquire claims one that nobody claimed.       *)
LEMMA StartedApart ==
    ASSUME Typed, Apart, FreshUnclaimed, NEW r \in Requests, NEW c \in Containers, Started(r, c)
    PROVE  Apart'
<1>1. /\ Claims(c) = 0 /\ c \notin warming
      /\ \A s \in ListReady : ContainerOf(s) # c
      /\ \A q \in Requests : HandedOut(q) => requests[q].container # c
  BY TypeFacts DEF Typed, Started, FreshUnclaimed, Claims, HandedOut
<1>2. warming' = warming /\ \A d \in Containers : Claims(d)' = Claims(d)
  BY DEF Started, poolVars, Claims
<1>3. ListReady' = ListReady /\ \A s \in ListReady : ContainerOf(s)' = ContainerOf(s) /\ ContainerOf(s) \in Containers
  BY TypeFacts DEF Typed, Started, registryVars, ListReady, ContainerOf
<1>4. /\ requests'[r].container = c
      /\ \A q \in Requests \ {r} : requests'[q] = requests[q]
  BY DEF Started, Typed, TypeInv, TypeOK
<1>5. \A q \in Requests \ {r} : (HandedOut(q)' <=> HandedOut(q)) /\ (HandedOut(q) => requests[q].container \in Containers)
  BY <1>4, TypeFacts DEF HandedOut, Typed
<1>6. PoolApart'
  BY <1>2 DEF Apart, PoolApart
<1>7. ReadyApart'
  BY <1>2, <1>3 DEF Apart, ReadyApart
<1>8. HandedOutApart'
  BY <1>1, <1>2, <1>3, <1>4, <1>5 DEF Apart, HandedOutApart
<1> QED
  BY <1>6, <1>7, <1>8 DEF Apart

(* Registering moves the claim from the acquire to the new sandbox.          *)
LEMMA AssignedApart ==
    ASSUME Typed, Apart, NEW r \in Requests, Assigned(r)
    PROVE  Apart'
<1> DEFINE c == requests[r].container
<1>1. /\ HandedOut(r) /\ c \in Containers /\ Claims(c) = 0 /\ c \notin warming
      /\ \A q \in Requests : HandedOut(q) /\ requests[q].container = c => q = r
      /\ \A s \in ListReady : ContainerOf(s) # c
  BY TypeFacts DEF Assigned, Typed, Apart, HandedOutApart
<1>2. warming' = warming /\ \A d \in Containers : Claims(d)' = Claims(d)
  BY DEF Assigned, poolVars, Claims
<1>3. PICK s \in Sandboxes :
        /\ Register(s, c, requests[r].key)
        /\ requests' = [requests EXCEPT ![r].pc = "served", ![r].sandbox = s]
  BY DEF Assigned, RegisterFor
<1>4. /\ ListReady' = ListReady \union {s} /\ ContainerOf(s)' = c
      /\ \A t \in ListReady : ContainerOf(t)' = ContainerOf(t) /\ ContainerOf(t) \in Containers
  BY <1>3, TypeFacts DEF Register, ListReady, ContainerOf, Typed, TypeInv, TypeOK, RegistryTypeOK, Record
<1>5. ~HandedOut(r)' /\ \A q \in Requests \ {r} : requests'[q] = requests[q]
  BY <1>3 DEF HandedOut, Typed, TypeInv, TypeOK, Request
<1>6. \A q \in Requests : HandedOut(q)' => /\ HandedOut(q) /\ q # r
                                           /\ requests'[q].container = requests[q].container
                                           /\ requests[q].container \in Containers
  BY <1>5, TypeFacts DEF HandedOut, Typed
<1> HIDE DEF c
<1>7. PoolApart'
  BY <1>2 DEF Apart, PoolApart
<1>8. ReadyApart'
  BY <1>1, <1>2, <1>4 DEF Apart, ReadyApart
<1>9. HandedOutApart'
  BY <1>1, <1>2, <1>4, <1>6 DEF Apart, HandedOutApart, c
<1> QED
  BY <1>7, <1>8, <1>9 DEF Apart

(* Handing a container back moves the claim to its clean-up, or ends it.      *)
LEMMA HandedBackApart ==
    ASSUME Typed, Apart, NEW s \in ListReady, HandedBack(s)
    PROVE  Apart'
<1>0. PICK c \in Containers : c = ContainerOf(s)
  BY TypeFacts DEF HandedBack, Typed
<1>1. /\ Claims(c) = 0 /\ c \notin warming
      /\ \A t \in ListReady : ContainerOf(t) = c => s = t
      /\ \A q \in Requests : HandedOut(q) => requests[q].container # c
  BY <1>0 DEF HandedBack, Apart, ReadyApart, HandedOutApart
<1>2. warming' = warming /\ pool' = pool
      /\ cleaning' \in {cleaning, [cleaning EXCEPT ![c] = @ + 1]}
  BY <1>0 DEF HandedBack, ReleaseToPool, CleanStart, poolVars
<1>3. Claims(c)' <= 1 /\ \A d \in Containers : d # c => Claims(d)' = Claims(d)
  BY <1>1, <1>2, TypeFacts DEF Claims, Typed
<1>4. \A t \in ListReady' : t \in ListReady /\ ContainerOf(t)' = ContainerOf(t)
                             /\ ContainerOf(t) \in Containers /\ ContainerOf(t) # c
  BY <1>0, <1>1, TypeFacts DEF HandedBack, Typed, ContainerOf
<1>5. \A q \in Requests : HandedOut(q)' => /\ HandedOut(q)
                                           /\ requests'[q].container = requests[q].container
                                           /\ requests[q].container \in Containers
  BY TypeFacts DEF HandedBack, HandedOut, Typed
<1>6. PoolApart'
  BY <1>1, <1>2, <1>3 DEF Apart, PoolApart
<1>7. ReadyApart'
  BY <1>2, <1>3, <1>4 DEF Apart, ReadyApart
<1>8. HandedOutApart'
  BY <1>1, <1>2, <1>3, <1>4, <1>5 DEF Apart, HandedOutApart
<1> QED
  BY <1>6, <1>7, <1>8 DEF Apart

(* Joining the pool moves the claim of a clean-up, a refill or the recovery. *)
LEMMA PooledApart ==
    ASSUME Typed, Apart, NotServing, NEW c \in Containers, Pooled(c)
    PROVE  Apart'
<1>1. /\ pool[c] \in Nat /\ cleaning[c] \in Nat
      /\ pool \in [Containers -> Nat] /\ cleaning \in [Containers -> Nat]
  BY TypeFacts DEF Typed
<1>2. /\ pool' = [pool EXCEPT ![c] = @ + 1]
      /\ cleaning' \in {cleaning, [cleaning EXCEPT ![c] = @ - 1]}
      /\ warming' \in {warming, warming \ {c}}
  BY DEF Pooled, CleanAppend, WarmAppend, PoolRestore
<1>3. \A d \in Containers : d # c => Claims(d)' = Claims(d)
  BY <1>1, <1>2 DEF Claims
<1>4. Claims(c)' <= 1 /\ c \notin warming'
      /\ (\A s \in ListReady : ContainerOf(s) # c)
      /\ (\A q \in Requests : HandedOut(q) => requests[q].container # c)
  <2>1. CASE CleanAppend(c)
    <3>1. cleaning[c] > 0 /\ Claims(c)' = Claims(c) /\ Claims(c) <= 1 /\ Claims(c) # 0 /\ warming' = warming
      BY <1>1, <2>1 DEF CleanAppend, Claims, Apart, PoolApart
    <3> QED
      BY <3>1 DEF Apart, PoolApart, ReadyApart, HandedOutApart
  <2>2. CASE WarmAppend(c)
    <3>1. c \in warming /\ c \notin warming' /\ Claims(c) = 0
      BY <2>2 DEF WarmAppend, Apart, PoolApart
    <3>2. Claims(c)' <= 1
      BY <1>1, <2>2, <3>1 DEF WarmAppend, Claims
    <3> QED
      BY <3>1, <3>2 DEF Apart, ReadyApart, HandedOutApart
  <2>3. CASE /\ phase = "recovering" /\ c \in recovered /\ ~Dedicated(c)
             /\ recovered' = recovered \ {c}
             /\ PoolRestore(c)
    <3>1. pool[c] = 0 /\ cleaning[c] = 0 /\ warming = {} /\ ListReady = {}
          /\ \A q \in Requests : ~HandedOut(q)
      BY <1>1, <2>3 DEF NotServing, PoolContainerIds, ListReady, Registered, HandedOut, inFlight
    <3>2. Claims(c)' <= 1 /\ warming' = warming
      BY <1>1, <2>3, <3>1 DEF PoolRestore, Claims
    <3> QED
      BY <3>1, <3>2
  <2> QED
    BY <2>1, <2>2, <2>3 DEF Pooled
<1>5. ListReady' = ListReady /\ \A s \in ListReady : ContainerOf(s)' = ContainerOf(s) /\ ContainerOf(s) \in Containers
  BY TypeFacts DEF Typed, Pooled, registryVars, ListReady, ContainerOf
<1>6. \A q \in Requests : HandedOut(q)' => /\ HandedOut(q)
                                           /\ requests'[q].container = requests[q].container
                                           /\ requests[q].container \in Containers
  BY TypeFacts DEF Pooled, HandedOut, Typed
<1>7. PoolApart'
  BY <1>2, <1>3, <1>4 DEF Apart, PoolApart
<1>8. ReadyApart'
  BY <1>2, <1>3, <1>4, <1>5 DEF Apart, ReadyApart
<1>9. HandedOutApart'
  BY <1>2, <1>3, <1>4, <1>5, <1>6 DEF Apart, HandedOutApart
<1> QED
  BY <1>7, <1>8, <1>9 DEF Apart

(* A refill claims ids that nobody claimed.                                  *)
LEMMA WarmedApart ==
    ASSUME Typed, Apart, FreshUnclaimed, NEW cs \in SUBSET Containers, Warmed(cs)
    PROVE  Apart'
<1>1. \A c \in cs : /\ Claims(c) = 0
                    /\ \A s \in ListReady : ContainerOf(s) # c
                    /\ \A q \in Requests : HandedOut(q) => requests[q].container # c
  BY TypeFacts DEF Typed, Warmed, FreshUnclaimed, Claims, HandedOut
<1>2. warming' = cs /\ \A d \in Containers : Claims(d)' = Claims(d)
  BY DEF Warmed, Claims
<1>3. ListReady' = ListReady /\ \A s \in ListReady : ContainerOf(s)' = ContainerOf(s) /\ ContainerOf(s) \in Containers
  BY TypeFacts DEF Typed, Warmed, registryVars, ListReady, ContainerOf
<1>4. \A q \in Requests : HandedOut(q)' => /\ HandedOut(q)
                                           /\ requests'[q].container = requests[q].container
                                           /\ requests[q].container \in Containers
  BY TypeFacts DEF Warmed, HandedOut, Typed
<1>5. \A q \in Requests : HandedOut(q) => requests[q].container \notin cs
  BY <1>1
<1>6. PoolApart'
  BY <1>1, <1>2 DEF Apart, PoolApart
<1>7. ReadyApart'
  BY <1>1, <1>2, <1>3 DEF Apart, ReadyApart
<1>8. HandedOutApart'
  BY <1>2, <1>3, <1>4, <1>5 DEF Apart, HandedOutApart
<1> QED
  BY <1>6, <1>7, <1>8 DEF Apart

\* What every kind of step does to the ids that are still free.
FreshShrinks ==
    /\ Absent' \subseteq Absent
    /\ \A c \in Containers \ Absent : kind'[c] = kind[c]
    /\ \A c \in Absent' : pool'[c] <= pool[c] /\ cleaning'[c] <= cleaning[c]
    /\ (warming' \union recovered' \union used') \intersect Absent' = {}
    /\ \A r \in Requests : HandedOut(r)' => requests'[r].container \notin Absent'
    /\ \A s \in Issued' : ContainerOf(s)' \notin Absent'

(* Under those conditions free ids stay unclaimed.                           *)
LEMMA FreshKept ==
    ASSUME Typed, FreshUnclaimed, FreshShrinks PROVE FreshUnclaimed'
<1> SUFFICES ASSUME NEW c \in Absent'
             PROVE  /\ pool'[c] = 0 /\ cleaning'[c] = 0
                    /\ c \notin warming' \union recovered' \union used'
                    /\ \A r \in Requests : requests'[r].pc \in {"check", "cold"} => requests'[r].container # c
                    /\ \A s \in Issued' : ContainerOf(s)' # c
  BY DEF FreshUnclaimed
<1>1. c \in Containers /\ c \in Absent
  BY DEF FreshShrinks, Absent
<1>2. pool'[c] \in Nat /\ cleaning'[c] \in Nat /\ pool[c] = 0 /\ cleaning[c] = 0
  BY <1>1 DEF Typed, TypeInv, TypeOK, PoolTypeOK, FreshUnclaimed
<1>3. pool'[c] = 0 /\ cleaning'[c] = 0
  BY <1>2 DEF FreshShrinks
<1> QED
  BY <1>1, <1>3 DEF FreshShrinks, HandedOut

(* Quiet steps, acquires, releases and pool tasks leave free ids unclaimed.  *)
LEMMA QuietFresh == ASSUME Typed, FreshUnclaimed, Quiet PROVE FreshShrinks
<1>1. \A r \in Requests : HandedOut(r)' => requests'[r].container \notin Absent
  BY DEF Quiet, QuietRequests, FreshUnclaimed, HandedOut
<1>2. \A s \in Issued' : s \in Issued /\ ContainerOf(s)' = ContainerOf(s) /\ ContainerOf(s) \notin Absent
  BY DEF Quiet, QuietRegistry, FreshUnclaimed, ContainerOf
<1>3. used' \intersect Absent = {}
  BY TypeFacts DEF Typed, Quiet, FreshUnclaimed
<1>4. Absent \subseteq Containers
  BY DEF Absent
<1> QED
  BY <1>1, <1>2, <1>3, <1>4 DEF Quiet, QuietEngine, QuietPool, FreshShrinks, FreshUnclaimed

(* The steps of an acquire that claim something ...                          *)
LEMMA AcquireFresh ==
    ASSUME Typed, FreshUnclaimed, NEW r \in Requests, NEW c \in Containers,
           Popped(r, c) \/ Started(r, c) \/ Assigned(r)
    PROVE  FreshShrinks
<1>1. CASE Popped(r, c)
  <2>1. Absent' = Absent /\ UNCHANGED <<kind, warming, recovered, used, cleaning>>
    BY <1>1 DEF Popped, PoolPop, Absent
  <2>2. \A d \in Absent : pool'[d] <= pool[d]
    BY <1>1, TypeFacts DEF Popped, PoolPop, Typed, Absent
  <2>3. c \notin Absent
    BY <1>1 DEF Popped, PoolPop, FreshUnclaimed
  <2>4. \A q \in Requests : HandedOut(q)' => requests'[q].container \notin Absent
    <3>1. requests'[r].container = c /\ \A q \in Requests \ {r} : requests'[q] = requests[q]
      BY <1>1 DEF Popped, Typed, TypeInv, TypeOK
    <3> QED
      BY <2>3, <3>1 DEF HandedOut, FreshUnclaimed
  <2>5. \A s \in Issued' : s \in Issued /\ ContainerOf(s)' = ContainerOf(s)
    BY <1>1 DEF Popped, registryVars, Issued, ContainerOf
  <2>6. \A d \in Absent : cleaning'[d] <= cleaning[d]
    BY <2>1, TypeFacts DEF Typed, Absent
  <2> QED
    BY <2>1, <2>2, <2>4, <2>5, <2>6 DEF FreshShrinks, FreshUnclaimed
<1>2. CASE Started(r, c)
  <2>1. /\ Absent' = Absent \ {c} /\ UNCHANGED <<pool, cleaning, warming, recovered, used>>
        /\ \A d \in Containers \ Absent : kind'[d] = kind[d]
    BY <1>2 DEF Started, Create, Absent, poolVars
  <2>2. \A d \in Absent : pool'[d] <= pool[d] /\ cleaning'[d] <= cleaning[d]
    BY <2>1, TypeFacts DEF Typed, Absent
  <2>3. \A q \in Requests : HandedOut(q)' => requests'[q].container \notin Absent'
    <3>1. requests'[r].container = c /\ \A q \in Requests \ {r} : requests'[q] = requests[q]
      BY <1>2 DEF Started, Typed, TypeInv, TypeOK
    <3> QED
      BY <2>1, <3>1 DEF HandedOut, FreshUnclaimed
  <2>4. \A s \in Issued' : s \in Issued /\ ContainerOf(s)' = ContainerOf(s)
    BY <1>2 DEF Started, registryVars, Issued, ContainerOf
  <2> QED
    BY <2>1, <2>2, <2>3, <2>4 DEF FreshShrinks, FreshUnclaimed
<1>3. CASE Assigned(r)
  <2>1. Absent' = Absent /\ UNCHANGED <<kind, pool, cleaning, warming, recovered, used>>
    BY <1>3 DEF Assigned, Absent, poolVars
  <2>2. \A d \in Absent : pool'[d] <= pool[d] /\ cleaning'[d] <= cleaning[d]
    BY <2>1, TypeFacts DEF Typed, Absent
  <2>3. PICK s \in Sandboxes :
          /\ Register(s, requests[r].container, requests[r].key)
          /\ requests' = [requests EXCEPT ![r].pc = "served", ![r].sandbox = s]
    BY <1>3 DEF Assigned, RegisterFor
  <2>4. requests[r].container \notin Absent
    BY <1>3 DEF Assigned, FreshUnclaimed, HandedOut
  <2>5. \A t \in Issued' : ContainerOf(t)' \notin Absent
    BY <2>3, <2>4 DEF Register, Issued, ContainerOf, FreshUnclaimed, Typed, TypeInv, TypeOK, RegistryTypeOK, Record
  <2>6. \A q \in Requests : HandedOut(q)' => HandedOut(q) /\ requests'[q].container = requests[q].container
    BY <2>3 DEF HandedOut, Typed, TypeInv, TypeOK, Request
  <2> QED
    BY <2>1, <2>2, <2>5, <2>6 DEF FreshShrinks, FreshUnclaimed, HandedOut
<1> QED
  BY <1>1, <1>2, <1>3

(* ... and the steps that hand back, pool and warm.                          *)
LEMMA PoolFresh ==
    ASSUME Typed, FreshUnclaimed,
           \/ \E s \in Sandboxes : HandedBack(s)
           \/ \E c \in Containers : Pooled(c)
           \/ \E cs \in SUBSET Containers : Warmed(cs)
    PROVE  FreshShrinks
<1>1. ASSUME NEW s \in Sandboxes, HandedBack(s) PROVE FreshShrinks
  <2>1. Absent' = Absent /\ UNCHANGED <<kind, pool, warming, recovered, used, requests>>
    BY <1>1 DEF HandedBack, ReleaseToPool, Remove, CleanStart, engineVars, poolVars, Absent
  <2>2. ContainerOf(s) \in Containers \ Absent
    BY <1>1, TypeFacts DEF HandedBack, Typed, FreshUnclaimed
  <2>3. cleaning' \in {cleaning, [cleaning EXCEPT ![ContainerOf(s)] = @ + 1]}
    BY <1>1 DEF HandedBack, ReleaseToPool, CleanStart, poolVars
  <2>4. \A d \in Absent : pool'[d] <= pool[d] /\ cleaning'[d] <= cleaning[d]
    BY <2>1, <2>2, <2>3, TypeFacts DEF Typed, Absent
  <2>5. \A t \in Issued' : t \in Issued /\ ContainerOf(t)' = ContainerOf(t)
    BY <1>1 DEF HandedBack, ContainerOf
  <2> QED
    BY <2>1, <2>4, <2>5 DEF FreshShrinks, FreshUnclaimed, HandedOut
<1>2. ASSUME NEW c \in Containers, Pooled(c) PROVE FreshShrinks
  <2>1. /\ Absent' = Absent /\ UNCHANGED <<kind, requests, registryVars>>
        /\ warming' \subseteq warming /\ recovered' \subseteq recovered /\ used' \subseteq used
    BY <1>2 DEF Pooled, CleanAppend, WarmAppend, PoolRestore, Absent
  <2>2. c \notin Absent
    BY <1>2 DEF Pooled, CleanAppend, WarmAppend, FreshUnclaimed
  <2>3. /\ pool' = [pool EXCEPT ![c] = @ + 1]
        /\ cleaning' \in {cleaning, [cleaning EXCEPT ![c] = @ - 1]}
    BY <1>2 DEF Pooled, CleanAppend, WarmAppend, PoolRestore
  <2>4. \A d \in Absent : pool'[d] <= pool[d] /\ cleaning'[d] <= cleaning[d]
    BY <2>2, <2>3, TypeFacts DEF Typed, Absent
  <2>5. \A t \in Issued' : t \in Issued /\ ContainerOf(t)' = ContainerOf(t)
    BY <2>1 DEF registryVars, Issued, ContainerOf
  <2> QED
    BY <2>1, <2>4, <2>5 DEF FreshShrinks, FreshUnclaimed, HandedOut
<1>3. ASSUME NEW cs \in SUBSET Containers, Warmed(cs) PROVE FreshShrinks
  <2>1. /\ Absent' = Absent \ cs /\ UNCHANGED <<pool, cleaning, recovered, used, requests, registryVars>>
        /\ warming' = cs
        /\ \A d \in Containers \ Absent : kind'[d] = kind[d]
    BY <1>3 DEF Warmed, Create, Absent
  <2>2. \A d \in Absent : pool'[d] <= pool[d] /\ cleaning'[d] <= cleaning[d]
    BY <2>1, TypeFacts DEF Typed, Absent
  <2>3. \A t \in Issued' : t \in Issued /\ ContainerOf(t)' = ContainerOf(t)
    BY <2>1 DEF registryVars, Issued, ContainerOf
  <2> QED
    BY <2>1, <2>2, <2>3 DEF FreshShrinks, FreshUnclaimed, HandedOut
<1> QED
  BY <1>1, <1>2, <1>3

-----------------------------------------------------------------------------
\* A step of the Hub is one of these, or the survey of the start-up recovery.
Kind ==
    \/ Quiet
    \/ \E r \in Requests, c \in Containers : Popped(r, c) \/ Started(r, c) \/ Assigned(r)
    \/ \E s \in Sandboxes : HandedBack(s)
    \/ \E c \in Containers : Pooled(c)
    \/ \E cs \in SUBSET Containers : Warmed(cs)
    \/ RecoverList

(* Free ids stay unclaimed, whatever the step.                               *)
LEMMA FreshAlways == ASSUME Typed, FreshUnclaimed, Kind PROVE FreshUnclaimed'
<1>1. CASE RecoverList
  <2>1. Absent' = Absent /\ UNCHANGED <<engineVars, poolVars, registryVars, requests, used>>
    BY <1>1 DEF RecoverList, engineVars, Absent
  <2>2. recovered' \intersect Absent = {}
    BY <1>1 DEF RecoverList, Listings, Running, Stopped, Absent
  <2> QED
    BY <2>1, <2>2 DEF FreshUnclaimed, poolVars, registryVars, ContainerOf, Issued
<1>2. CASE \/ Quiet
           \/ \E r \in Requests, c \in Containers : Popped(r, c) \/ Started(r, c) \/ Assigned(r)
  BY <1>2, QuietFresh, AcquireFresh, FreshKept
<1>3. CASE \/ \E s \in Sandboxes : HandedBack(s)
           \/ \E c \in Containers : Pooled(c)
           \/ \E cs \in SUBSET Containers : Warmed(cs)
  BY <1>3, PoolFresh, FreshKept
<1> QED
  BY <1>1, <1>2, <1>3 DEF Kind

(* Nothing that is in the pool's care, or created for it, is a tenant's own. *)
LEMMA OriginAlways == ASSUME Typed, OriginInv, Kind PROVE OriginInv'
<1> USE DEF OriginInv
<1>1. FreshUnclaimed'
  BY FreshAlways
<1>2. \A c \in Absent : pool[c] = 0 /\ cleaning[c] = 0 /\ c \notin warming
  BY DEF FreshUnclaimed
<1>3. \A c \in Containers : /\ pool[c] \in Nat /\ cleaning[c] \in Nat
                            /\ pool'[c] \in Nat /\ cleaning'[c] \in Nat
  BY TypeFacts DEF Typed, TypeInv, TypeOK, PoolTypeOK
<1>4. /\ warming \subseteq Containers
      /\ pool \in [Containers -> Nat] /\ cleaning \in [Containers -> Nat]
  BY TypeFacts DEF Typed
<1>5. CASE Quiet
  <2>1. \A c \in Containers : Dedicated(c)' => c \in Absent \/ Dedicated(c)
    BY <1>5 DEF Quiet, QuietEngine, Dedicated
  <2>2. \A c \in warming' : c \in warming /\ ~Dedicated(c)'
    BY <1>2, <1>4, <1>5, <2>1 DEF Quiet, QuietPool, WarmingIsPlain
  <2>3. \A c \in Containers : Dedicated(c)' => pool[c] = 0 /\ cleaning[c] = 0
    BY <1>2, <2>1 DEF DedicatedNeverShared
  <2>4. \A c \in Containers : Dedicated(c)' => pool'[c] = 0 /\ cleaning'[c] = 0
    BY <1>3, <1>5, <2>3 DEF Quiet, QuietPool
  <2> QED
    BY <1>1, <2>2, <2>4 DEF WarmingIsPlain, DedicatedNeverShared
<1>6. ASSUME NEW r \in Requests, NEW c \in Containers, Popped(r, c) \/ Started(r, c) \/ Assigned(r)
      PROVE  OriginInv'
  <2>1. \A d \in Containers : Dedicated(d)' => d \in Absent \/ Dedicated(d)
    BY <1>6 DEF Popped, Started, Assigned, Create, Dedicated
  <2>2. UNCHANGED <<cleaning, warming>> /\ \A d \in Containers : pool[d] = 0 => pool'[d] = 0
    BY <1>4, <1>6 DEF Popped, Started, Assigned, PoolPop, poolVars
  <2> QED
    BY <1>1, <1>2, <1>4, <2>1, <2>2 DEF WarmingIsPlain, DedicatedNeverShared
<1>7. ASSUME NEW s \in Sandboxes, HandedBack(s) PROVE OriginInv'
  <2>1. UNCHANGED <<kind, pool, warming>>
    BY <1>7 DEF HandedBack, ReleaseToPool, Remove, CleanStart, engineVars, poolVars
  <2>2. \A d \in Containers : Dedicated(d) => cleaning'[d] = cleaning[d]
    BY <1>4, <1>7 DEF HandedBack, ReleaseToPool, CleanStart, poolVars
  <2> QED
    BY <1>1, <2>1, <2>2 DEF WarmingIsPlain, DedicatedNeverShared, Dedicated
<1>8. ASSUME NEW c \in Containers, Pooled(c) PROVE OriginInv'
  <2>1. ~Dedicated(c)
    BY <1>8 DEF Pooled, CleanAppend, WarmAppend, WarmingIsPlain, DedicatedNeverShared
  <2>2. /\ pool' = [pool EXCEPT ![c] = @ + 1]
        /\ cleaning' \in {cleaning, [cleaning EXCEPT ![c] = @ - 1]}
        /\ warming' \subseteq warming /\ UNCHANGED kind
    BY <1>8 DEF Pooled, CleanAppend, WarmAppend, PoolRestore
  <2> QED
    BY <1>1, <1>4, <2>1, <2>2 DEF WarmingIsPlain, DedicatedNeverShared, Dedicated
<1>9. ASSUME NEW cs \in SUBSET Containers, Warmed(cs) PROVE OriginInv'
  <2>1. \A d \in Containers : Dedicated(d)' => Dedicated(d) /\ d \notin cs
    BY <1>9 DEF Warmed, Create, Dedicated
  <2>2. UNCHANGED <<pool, cleaning>> /\ warming' = cs
    BY <1>9 DEF Warmed
  <2> QED
    BY <1>1, <2>1, <2>2 DEF WarmingIsPlain, DedicatedNeverShared
<1>10. CASE RecoverList
  BY <1>1, <1>10 DEF RecoverList, engineVars, poolVars, WarmingIsPlain, DedicatedNeverShared, Dedicated
<1> QED
  BY <1>5, <1>6, <1>7, <1>8, <1>9, <1>10 DEF Kind

(* Tenants stay apart if no sandbox is released that is not ready.           *)
LEMMA ApartAlways ==
    ASSUME Typed, FreshUnclaimed, ClaimInv, Kind, ~May("again") PROVE Apart'
<1> USE DEF ClaimInv
<1>1. CASE Quiet
  BY <1>1, QuietApart
<1>2. ASSUME NEW r \in Requests, NEW c \in Containers, Popped(r, c) \/ Started(r, c) \/ Assigned(r)
      PROVE  Apart'
  BY <1>2, PoppedApart, StartedApart, AssignedApart
<1>3. ASSUME NEW s \in Sandboxes, HandedBack(s) PROVE Apart'
  <2>1. s \in ListReady
    BY <1>3 DEF HandedBack, CandidateMoved, Registered, ListReady
  <2> QED
    BY <1>3, <2>1, HandedBackApart
<1>4. CASE \E c \in Containers : Pooled(c)
  BY <1>4, PooledApart
<1>5. CASE \E cs \in SUBSET Containers : Warmed(cs)
  BY <1>5, WarmedApart
<1>6. CASE RecoverList
  <2>1. UNCHANGED <<engineVars, registryVars, poolVars, requests>>
    BY <1>6 DEF RecoverList
  <2> QED
    BY <2>1 DEF registryVars, poolVars, Apart, PoolApart, ReadyApart, HandedOutApart, Claims,
                HandedOut, ListReady, ContainerOf
<1> QED
  BY <1>1, <1>2, <1>3, <1>4, <1>5, <1>6 DEF Kind

(* The pool stays clean if a reset that reports success has happened.        *)
LEMMA CleanAlways ==
    ASSUME Typed, FreshUnclaimed, Apart, CleanInv, Kind, ~May("soft") PROVE CleanInv'
<1> USE DEF CleanInv, PooledIsReset, PoolContainerIds
<1>1. \A c \in Containers : /\ pool[c] \in Nat /\ cleaning[c] \in Nat
                            /\ pool'[c] \in Nat /\ cleaning'[c] \in Nat
                            /\ pool \in [Containers -> Nat]
  BY TypeFacts DEF Typed, TypeInv, TypeOK, PoolTypeOK
<1>2. CASE Quiet
  <2>1. \A s \in ListReady : pool[ContainerOf(s)] = 0 /\ ContainerOf(s) \notin warming
                             /\ ContainerOf(s) \in Containers
    BY <1>1, TypeFacts DEF Typed, Apart, ReadyApart, Claims
  <2>2. \A c \in Containers : pool'[c] > 0 => pool[c] > 0
    BY <1>1, <1>2 DEF Quiet, QuietPool
  <2> QED
    BY <1>2, <2>1, <2>2 DEF Quiet, QuietPool
<1>3. ASSUME NEW r \in Requests, NEW c \in Containers, Popped(r, c) \/ Started(r, c) \/ Assigned(r)
      PROVE  CleanInv'
  <2>1. UNCHANGED <<warming, used>> /\ \A d \in Containers : pool'[d] > 0 => pool[d] > 0
    BY <1>1, <1>3 DEF Popped, Started, Assigned, PoolPop, poolVars
  <2> QED
    BY <2>1
<1>4. ASSUME NEW s \in Sandboxes, HandedBack(s) PROVE CleanInv'
  BY <1>4 DEF HandedBack, ReleaseToPool, CleanStart, poolVars
<1>5. ASSUME NEW c \in Containers, Pooled(c) PROVE CleanInv'
  <2>1. /\ pool' = [pool EXCEPT ![c] = @ + 1] /\ warming' \subseteq warming /\ used' \subseteq used
        /\ c \notin used'
    BY <1>5 DEF Pooled, CleanAppend, WarmAppend, PoolRestore
  <2> QED
    BY <2>1
<1>6. ASSUME NEW cs \in SUBSET Containers, Warmed(cs) PROVE CleanInv'
  BY <1>6 DEF Warmed, FreshUnclaimed
<1>7. CASE RecoverList
  BY <1>7 DEF RecoverList, poolVars
<1> QED
  BY <1>2, <1>3, <1>4, <1>5, <1>6, <1>7 DEF Kind
=============================================================================
