---------------------------- MODULE PlatformProofs ----------------------------
(***************************************************************************)
(* Three invariants of Platform for every number of apps, creators,        *)
(* requests, operations, slots and crashes: TypeOK, OneOperationPerApp and *)
(* SlotForEveryLaunch.  None is inductive by itself; IInv adds what the    *)
(* workers know of the operation and the app they hold, what an operation  *)
(* says of its app, and that a promotion always replaces a container.      *)
(***************************************************************************)
EXTENDS Platform, TLAPS, FiniteSetTheorems, FunctionTheorems, WellFoundedInduction

(***************************************************************************)
(* The host's containers, whatever the workers do with them.               *)
(***************************************************************************)

ActiveIn(S) == {c \in S : c.role = "active"}
CandidatesIn(S) == {c \in S : c.role = "candidate"}

SoundContainers(S) ==
  /\ S \subseteq Container
  /\ IsFiniteSet(S)
  /\ Cardinality(ActiveIn(S)) <= ActiveLimit
  /\ \A c, d \in CandidatesIn(S) : c = d
  /\ \A c, d \in S : c.port = d.port => c = d

HostsInv ==
  /\ HostsTypeOK
  /\ SoundContainers(containers)

-----------------------------------------------------------------------------

\* Removing containers keeps a sound set sound.
LEMMA FewerContainers ==
  ASSUME NEW S, NEW T \in SUBSET S, SoundContainers(S)
  PROVE  SoundContainers(T)
<1>1. IsFiniteSet(T)
  BY FS_Subset DEF SoundContainers
<1>2. IsFiniteSet(ActiveIn(S)) /\ ActiveIn(T) \in SUBSET ActiveIn(S)
  BY FS_Subset DEF SoundContainers, ActiveIn
<1>3. Cardinality(ActiveIn(T)) <= Cardinality(ActiveIn(S))
  BY <1>2, FS_Subset
<1>4. Cardinality(ActiveIn(T)) \in Nat /\ Cardinality(ActiveIn(S)) \in Nat
  BY <1>1, <1>2, FS_CardinalityType, FS_Subset DEF ActiveIn
<1> QED
  BY <1>1, <1>3, <1>4, ConstantsAssumption DEF SoundContainers, CandidatesIn

\* When the runtime host admits a launch, at most ActiveLimit containers exist.
LEMMA RoomForLaunch ==
  ASSUME SoundContainers(containers), NEW a \in Apps, NEW candidate \in BOOLEAN,
         LaunchAllowed(a, candidate)
  PROVE  Cardinality(containers) <= ActiveLimit
<1> DEFINE A == ActiveIn(containers)
           C == CandidatesIn(containers)
<1>1. IsFiniteSet(A) /\ IsFiniteSet(C) /\ containers = A \cup C
  <2>1. containers = A \cup C
    BY DEF SoundContainers, Container, ActiveIn, CandidatesIn
  <2>2. A \in SUBSET containers /\ C \in SUBSET containers
    BY DEF ActiveIn, CandidatesIn
  <2> QED
    BY <2>1, <2>2, FS_Subset DEF SoundContainers
<1>2. Cardinality(A) \in Nat /\ ActiveLimit \in Nat
  BY <1>1, FS_CardinalityType, ConstantsAssumption
<1>3. CASE candidate
  <2>1. C = {}
    BY <1>3 DEF LaunchAllowed, InRole, CandidatesIn
  <2> QED
    BY <1>1, <2>1 DEF SoundContainers
<1>4. CASE ~candidate
  <2>1. Cardinality(A) < ActiveLimit
    BY <1>4 DEF LaunchAllowed, InRole, ActiveIn
  <2>2. CASE C = {}
    BY <1>1, <1>2, <2>1, <2>2
  <2>3. CASE C # {}
    <3>1. PICK c : C = {c}
      BY <2>3 DEF SoundContainers
    <3>2. Cardinality(A \cup {c}) = IF c \in A THEN Cardinality(A) ELSE Cardinality(A) + 1
      BY <1>1, FS_AddElement
    <3>3. containers = A \cup {c}
      BY <1>1, <3>1
    <3>4. Cardinality(containers) \in Nat
      BY FS_CardinalityType DEF SoundContainers
    <3> QED
      BY <1>2, <2>1, <3>2, <3>3, <3>4
  <2> QED
    BY <2>2, <2>3
<1> QED
  BY <1>3, <1>4

\* A launch that the runtime host admits finds a free network slot: the next()
\* of sandbox.py's launch always has a value.
THEOREM SlotLeft ==
  ASSUME SoundContainers(containers), NEW a \in Apps, NEW candidate \in BOOLEAN,
         LaunchAllowed(a, candidate)
  PROVE  UsedPorts # Ports /\ FreePort \in Ports \ UsedPorts
<1> DEFINE port == [c \in containers |-> c.port]
<1>1. UsedPorts \subseteq Ports
  BY DEF UsedPorts, SoundContainers, Container
<1>2. ActiveLimit \in Nat
  BY ConstantsAssumption
<1>3. IsFiniteSet(Ports) /\ Cardinality(Ports) = ActiveLimit + 1
  BY <1>2, FS_Interval DEF Ports
<1>4. UsedPorts # Ports
  <2> SUFFICES ASSUME UsedPorts = Ports PROVE FALSE
    OBVIOUS
  <2>1. port \in Surjection(containers, Ports)
    BY DEF Surjection, UsedPorts
  <2>2. Cardinality(Ports) <= Cardinality(containers)
    BY <2>1, FS_Surjection DEF SoundContainers
  <2>3. Cardinality(containers) \in Nat
    BY FS_CardinalityType DEF SoundContainers
  <2> QED
    BY <1>2, <1>3, <2>2, <2>3, RoomForLaunch
<1>5. \E p \in Ports \ UsedPorts : \A q \in Ports \ UsedPorts : p <= q
  <2> DEFINE Left == Ports \ UsedPorts
  <2>1. Left # {}
    BY <1>1, <1>4
  <2>2. Left \subseteq Nat
    BY <1>2 DEF Ports
  <2> HIDE DEF Left
  <2> DEFINE less == {pair \in Nat \X Nat : pair[1] < pair[2]}
  <2>3. IsWellFoundedOn(less, Nat)
    BY NatLessThanWellFounded DEF OpToRel
  <2> HIDE DEF less
  <2>4. PICK p \in Left : \A q \in Left : <<q, p>> \notin less
    BY <2>1, <2>2, <2>3, WFMin
  <2>5. \A q \in Left : p <= q
    <3> SUFFICES ASSUME NEW q \in Left, ~(p <= q) PROVE FALSE
      OBVIOUS
    <3>1. p \in Nat /\ q \in Nat /\ q < p
      BY <2>2
    <3>2. <<q, p>> \in less
      BY <3>1 DEF less
    <3> QED
      BY <2>4, <3>2
  <2> QED
    BY <2>5 DEF Left
<1> QED
  BY <1>4, <1>5 DEF FreePort

\* A launch keeps the containers sound.
LEMMA LaunchedContainers ==
  ASSUME SoundContainers(containers), NEW a \in Apps, NEW candidate \in BOOLEAN,
         LaunchAllowed(a, candidate), NEW release \in Ops, NEW secret \in Ops \cup {NoOp},
         NEW up \in BOOLEAN
  PROVE  SoundContainers(containers \cup {NewContainer(a, release, secret, candidate, up)})
<1> DEFINE n == NewContainer(a, release, secret, candidate, up)
           T == containers \cup {n}
<1>1. n \in Container /\ n.port \notin UsedPorts
  BY SlotLeft DEF NewContainer, Container
<1>2. n.role = IF candidate THEN "candidate" ELSE "active"
  BY DEF NewContainer
<1> HIDE DEF n
<1>3. IsFiniteSet(ActiveIn(containers)) /\ Cardinality(ActiveIn(containers)) \in Nat
  BY FS_Subset, FS_CardinalityType DEF SoundContainers, ActiveIn
<1>4. IsFiniteSet(T)
  BY FS_AddElement DEF SoundContainers
<1>5. Cardinality(ActiveIn(T)) <= ActiveLimit
  <2>1. CASE candidate
    <3>1. ActiveIn(T) = ActiveIn(containers)
      BY <1>2, <2>1 DEF ActiveIn
    <3> QED
      BY <3>1 DEF SoundContainers
  <2>2. CASE ~candidate
    <3>1. ActiveIn(T) = ActiveIn(containers) \cup {n}
      BY <1>2, <2>2 DEF ActiveIn
    <3> HIDE DEF T
    <3>2. Cardinality(ActiveIn(containers)) < ActiveLimit
      BY <2>2 DEF LaunchAllowed, InRole, ActiveIn
    <3>3. Cardinality(ActiveIn(containers) \cup {n}) =
            IF n \in ActiveIn(containers) THEN Cardinality(ActiveIn(containers))
                                         ELSE Cardinality(ActiveIn(containers)) + 1
      BY <1>3, FS_AddElement
    <3> QED
      BY <1>3, <3>1, <3>2, <3>3, ConstantsAssumption
  <2> QED
    BY <2>1, <2>2
<1>6. \A c, d \in CandidatesIn(T) : c = d
  BY <1>2 DEF SoundContainers, CandidatesIn, LaunchAllowed, InRole
<1>7. \A c, d \in T : c.port = d.port => c = d
  BY <1>1 DEF SoundContainers, UsedPorts
<1> QED
  BY <1>1, <1>4, <1>5, <1>6, <1>7 DEF SoundContainers, n

\* Whatever a failed launch leaves behind is sound too.
LEMMA LeftoversSound ==
  ASSUME SoundContainers(containers), NEW a \in Apps, NEW candidate \in BOOLEAN,
         NEW release \in Ops, NEW secret \in Ops \cup {NoOp},
         NEW T \in LaunchLeftovers(a, release, secret, candidate)
  PROVE  SoundContainers(T)
BY LaunchedContainers DEF LaunchLeftovers

\* A container whose process exits keeps its place.
LEMMA ExitedContainers ==
  ASSUME SoundContainers(containers), NEW c \in containers
  PROVE  SoundContainers((containers \ {c}) \cup {[c EXCEPT !.running = FALSE]})
<1> DEFINE n == [c EXCEPT !.running = FALSE]
           rest == containers \ {c}
           T == rest \cup {n}
<1>1. n \in Container /\ n.role = c.role /\ n.port = c.port
  BY DEF SoundContainers, Container
<1> HIDE DEF n
<1>2. IsFiniteSet(T)
  BY FS_AddElement, FS_RemoveElement DEF SoundContainers
<1>3. \A d, e \in CandidatesIn(T) : d = e
  BY <1>1 DEF SoundContainers, CandidatesIn
<1>4. \A d, e \in T : d.port = e.port => d = e
  BY <1>1 DEF SoundContainers
<1>5. Cardinality(ActiveIn(T)) <= ActiveLimit
  <2>1. IsFiniteSet(ActiveIn(containers)) /\ Cardinality(ActiveIn(containers)) \in Nat
    BY FS_Subset, FS_CardinalityType DEF SoundContainers, ActiveIn
  <2>2. CASE c.role = "active"
    <3>1. ActiveIn(T) = (ActiveIn(containers) \ {c}) \cup {n}
      BY <1>1, <2>2 DEF ActiveIn
    <3> HIDE DEF T
    <3>2. /\ IsFiniteSet(ActiveIn(containers) \ {c})
          /\ Cardinality(ActiveIn(containers) \ {c}) = Cardinality(ActiveIn(containers)) - 1
      BY <2>1, <2>2, FS_RemoveElement DEF ActiveIn
    <3>3. Cardinality(ActiveIn(T)) =
            IF n \in ActiveIn(containers) \ {c} THEN Cardinality(ActiveIn(containers) \ {c})
                                               ELSE Cardinality(ActiveIn(containers) \ {c}) + 1
      BY <3>1, <3>2, FS_AddElement
    <3> QED
      BY <2>1, <3>2, <3>3, ConstantsAssumption DEF SoundContainers
  <2>3. CASE c.role # "active"
    <3>1. ActiveIn(T) = ActiveIn(containers)
      BY <1>1, <2>3 DEF ActiveIn
    <3> QED
      BY <3>1 DEF SoundContainers
  <2> QED
    BY <2>2, <2>3
<1> QED
  BY <1>1, <1>2, <1>3, <1>4, <1>5 DEF SoundContainers, n

\* Promotion keeps the containers sound, provided the candidate replaces an
\* active container: otherwise it would need a slot of its own.
LEMMA RenamedContainers ==
  ASSUME SoundContainers(containers), NEW a \in Apps,
         NEW old \in Own(a), old.role = "active",
         NEW new \in Own(a), new.role = "candidate"
  PROVE  SoundContainers(Renamed(a))
<1> DEFINE n == [new EXCEPT !.role = "active"]
           A == ActiveIn(containers)
<1>1. /\ n \in Container /\ n.role = "active" /\ n.port = new.port /\ n.app = a
      /\ new \in containers /\ old \in A
  BY DEF SoundContainers, Container, Own, ActiveIn
<1>2. \A c \in WithoutOldActive(a) : c.app = a => c = new
  BY DEF SoundContainers, Container, CandidatesIn, WithoutOldActive, Own
<1>3. Renamed(a) = {c \in containers : c.app # a} \cup {n}
  <2>1. new \in WithoutOldActive(a)
    BY DEF WithoutOldActive, Own
  <2>2. \A c \in containers : c.app # a => c \in WithoutOldActive(a)
    BY DEF WithoutOldActive
  <2> QED
    BY <1>2, <2>1, <2>2 DEF Renamed, WithoutOldActive, Own
<1> HIDE DEF n
<1>4. IsFiniteSet({c \in containers : c.app # a})
  BY FS_Subset DEF SoundContainers
<1>5. IsFiniteSet(Renamed(a))
  BY <1>3, <1>4, FS_AddElement
<1>6. Cardinality(ActiveIn(Renamed(a))) <= ActiveLimit
  <2>1. IsFiniteSet(A) /\ Cardinality(A) \in Nat
    BY FS_Subset, FS_CardinalityType DEF SoundContainers, ActiveIn
  <2>2. IsFiniteSet(A \ {old}) /\ Cardinality(A \ {old}) = Cardinality(A) - 1
    BY <1>1, <2>1, FS_RemoveElement
  <2>3. /\ IsFiniteSet((A \ {old}) \cup {n})
        /\ Cardinality((A \ {old}) \cup {n}) =
             IF n \in A \ {old} THEN Cardinality(A \ {old}) ELSE Cardinality(A \ {old}) + 1
    BY <2>2, FS_AddElement
  <2>4. ActiveIn(Renamed(a)) \in SUBSET ((A \ {old}) \cup {n})
    BY <1>3 DEF ActiveIn, Own
  <2>5. Cardinality(ActiveIn(Renamed(a))) <= Cardinality((A \ {old}) \cup {n})
    BY <2>3, <2>4, FS_Subset
  <2>6. Cardinality(ActiveIn(Renamed(a))) \in Nat
    BY <2>3, <2>4, FS_Subset, FS_CardinalityType
  <2> QED
    BY <2>1, <2>2, <2>3, <2>5, <2>6, ConstantsAssumption DEF SoundContainers
<1>7. \A d, e \in CandidatesIn(Renamed(a)) : d = e
  BY <1>1, <1>3 DEF SoundContainers, CandidatesIn
<1>8. \A d, e \in Renamed(a) : d.port = e.port => d = e
  BY <1>1, <1>3 DEF SoundContainers, Own
<1> QED
  BY <1>1, <1>3, <1>5, <1>6, <1>7, <1>8 DEF SoundContainers

-----------------------------------------------------------------------------

(***************************************************************************)
(* The platform.                                                           *)
(***************************************************************************)

PubWorking == pub.stage \notin {"down", "idle"}
LcWorking == lc.stage \notin {"down", "recovering", "idle", "scan"}

\* An operation is about an app that exists.
DbInv ==
  /\ DbTypeOK
  /\ \A o \in Ops : ops[o].state # "none" => ops[o].app \in Apps /\ apps[ops[o].app].exists

\* The publishing worker works on a deployment that no one else ends.
PubInv ==
  /\ PublishingTypeOK
  /\ PubWorking => pub.op \in Ops /\ Unfinished(pub.op) /\ ops[pub.op].kind = "deploy"

\* The lifecycle worker works on an app and, if there is one, on its secret change.
LcInv ==
  /\ LifecycleTypeOK
  /\ LcWorking => lc.app \in Apps /\ (lc.op # NoOp => SecretChange(lc.app, lc.op))
  /\ ~LcWorking => lc.op = NoOp
  /\ lc.stage \in {"retire", "expire", "finish"} => lc.op # NoOp

\* A request under way has an app.
GwInv ==
  /\ GatewayTypeOK
  /\ \A r \in Requests : requests[r].stage # "idle" => shared[r] \in Apps

\* The candidate of an update stands beside the container that it will replace.
Promotable ==
  pub.stage \in {"ready", "switch", "promote"} /\ pub.container =>
    \E old, new \in Own(Target) : old.role = "active" /\ new.role = "candidate"

IInv ==
  /\ DbInv /\ HostsInv /\ GwInv /\ PubInv /\ LcInv
  /\ Promotable /\ OneOperationPerApp

-----------------------------------------------------------------------------

\* The platform starts in the invariant.
LEMMA InitInv == Init => IInv
<1> SUFFICES ASSUME Init PROVE IInv
  OBVIOUS
<1> USE DEF Init, DbInit, HostsInit, GatewayInit, PublishingInit, LifecycleInit
<1>1. DbInv
  <2>1. \A o \in Ops : ops[o].state = "none"
    OBVIOUS
  <2>2. DbTypeOK
    BY ConstantsAssumption DEF DbTypeOK, AppRow, OpRow, RuntimeStates, Busy, Unsettled
  <2> QED
    BY <2>1, <2>2 DEF DbInv
<1>2. HostsInv
  BY FS_EmptySet, ConstantsAssumption
  DEF HostsInv, HostsTypeOK, SoundContainers, ActiveIn, CandidatesIn
<1>3. GwInv
  BY DEF GwInv, GatewayTypeOK, Idle
<1>4. PubInv /\ Promotable
  BY DEF PubInv, PublishingTypeOK, PubWorking, PubIdle, PubStages, Promotable
<1>5. LcInv
  BY DEF LcInv, LifecycleTypeOK, LcWorking, LcIdle, LcStages
<1>6. OneOperationPerApp
  BY DEF OneOperationPerApp, Unfinished
<1> QED
  BY <1>1, <1>2, <1>3, <1>4, <1>5, <1>6 DEF IInv

\* What a step must not disturb to keep each part of the invariant.
LEMMA HostsUntouched ==
  ASSUME IInv, UNCHANGED hostVars
  PROVE  HostsInv'
BY DEF IInv, HostsInv, HostsTypeOK, hostVars, SoundContainers, ActiveIn, CandidatesIn

\* The gateway's part depends on the requests and their locks only.
LEMMA RequestsUntouched ==
  ASSUME IInv, UNCHANGED <<requests, shared>>
  PROVE  GwInv'
BY DEF IInv, GwInv, GatewayTypeOK

\* Operations may advance and end, but keep their app and kind, and apps stay.
Advances ==
  /\ \A o \in Ops : /\ ops'[o].app = ops[o].app /\ ops'[o].kind = ops[o].kind
                    /\ ops'[o].state # "none" => ops[o].state # "none"
                    /\ Unfinished(o)' => Unfinished(o)
  /\ \A a \in Apps : apps[a].exists => apps'[a].exists

\* A step that only advances operations keeps the database's part.
LEMMA OperationsAdvance ==
  ASSUME IInv, DbTypeOK', Advances
  PROVE  DbInv' /\ OneOperationPerApp'
BY DEF IInv, OneOperationPerApp, DbInv, Advances

\* The lifecycle worker's part depends on its state and on secret changes.
LEMMA LifecycleUntouched ==
  ASSUME IInv, UNCHANGED lcVars,
         \A o \in Ops : ops[o].kind = "secret-change" => ops'[o] = ops[o]
  PROVE  LcInv'
BY DEF IInv, LcInv, lcVars, LcWorking, LifecycleTypeOK, SecretChange, Unfinished

\* The publishing worker's part depends on its state and on deployments.
LEMMA PublisherUntouched ==
  ASSUME IInv, UNCHANGED pubVars,
         \A o \in Ops : ops[o].kind = "deploy" /\ Unfinished(o) => ops'[o] = ops[o]
  PROVE  PubInv'
BY DEF IInv, PubInv, pubVars, PubWorking, PublishingTypeOK, Unfinished

\* A step that gives one unfinished operation a new row with its app and kind.
LEMMA RowAdvances ==
  ASSUME DbTypeOK, NEW o \in Ops, Unfinished(o),
         NEW row \in OpRow, row.app = ops[o].app, row.kind = ops[o].kind, row.state # "none",
         ops' = [ops EXCEPT ![o] = row],
         UNCHANGED <<apps, retired, exclusive, shared>>
  PROVE  /\ DbTypeOK' /\ Advances
         /\ ops'[o] = row /\ \A p \in Ops : p # o => ops'[p] = ops[p]
BY DEF DbTypeOK, Advances, Unfinished

\* A step that gives one app a new row, and does not remove it.
LEMMA AppRowChanges ==
  ASSUME DbTypeOK, NEW a \in Apps, NEW row \in AppRow, apps[a].exists => row.exists,
         apps' = [apps EXCEPT ![a] = row]
  PROVE  /\ apps' \in [Apps -> AppRow] /\ apps'[a] = row
         /\ \A b \in Apps : b # a => apps'[b] = apps[b]
         /\ \A b \in Apps : apps[b].exists => apps'[b].exists
BY DEF DbTypeOK

\* The part of the invariant that a step of the publishing worker must restore
\* when it stays within the database.
PublisherPart ==
  /\ DbTypeOK' /\ Advances /\ PubInv' /\ Promotable'
  /\ \A o \in Ops : ops[o].kind = "secret-change" => ops'[o] = ops[o]

\* The worker keeps its operation, or has none any more.
PubMoves(stages) ==
  /\ PublishingTypeOK' /\ pub'.stage \in stages
  /\ pub'.op = pub.op /\ pub'.container = pub.container

\* An exception keeps the worker's operation.
LEMMA Thrown ==
  ASSUME PublishingTypeOK, publisherCrashes' \in Nat, NEW reconcile \in BOOLEAN, Throw(reconcile)
  PROVE  PubMoves({"undo", "record"})
BY DEF Throw, PublishingTypeOK, PubStages, PubMoves

\* The worker goes on to another stage.
LEMMA Went ==
  ASSUME PublishingTypeOK, publisherCrashes' \in Nat,
         NEW stage \in PubStages, pub' = [pub EXCEPT !.stage = stage]
  PROVE  PubMoves({stage})
BY DEF PublishingTypeOK, PubMoves

\* A step of the worker that gives its operation a new row.
LEMMA WorkedRow ==
  ASSUME IInv, PubWorking, PubMoves(PubStages \ {"down", "idle", "ready", "switch", "promote"}),
         NEW row \in OpRow, row.app = Target, row.kind = "deploy",
         row.state \notin {"none", "succeeded", "failed"},
         ops' = [ops EXCEPT ![pub.op] = row], UNCHANGED <<apps, retired, exclusive, shared>>
  PROVE  PublisherPart
<1>1. /\ pub.op \in Ops /\ Unfinished(pub.op)
      /\ ops[pub.op].kind = "deploy" /\ ops[pub.op].app = Target
  BY DEF IInv, PubInv, Target
<1>2. DbTypeOK
  BY DEF IInv, DbInv
<1>3. row.state # "none"
  OBVIOUS
<1>4. /\ DbTypeOK' /\ Advances
      /\ ops'[pub.op] = row /\ \A o \in Ops : o # pub.op => ops'[o] = ops[o]
  BY <1>1, <1>2, <1>3, RowAdvances
<1>5. PubInv' /\ Promotable'
  BY <1>1, <1>4 DEF PubInv, PubMoves, Unfinished, Promotable
<1> QED
  BY <1>1, <1>4, <1>5 DEF PublisherPart

\* A step that ends the worker's operation.
LEMMA EndedRow ==
  ASSUME IInv, PubWorking, pub' = PubIdle, publisherCrashes' \in Nat,
         NEW row \in OpRow, row.app = Target, row.kind = "deploy", row.state # "none",
         ops' = [ops EXCEPT ![pub.op] = row], UNCHANGED <<apps, retired, exclusive, shared>>
  PROVE  PublisherPart
<1>1. /\ pub.op \in Ops /\ Unfinished(pub.op)
      /\ ops[pub.op].kind = "deploy" /\ ops[pub.op].app = Target
  BY DEF IInv, PubInv, Target
<1>2. DbTypeOK
  BY DEF IInv, DbInv
<1>3. row.state # "none"
  OBVIOUS
<1>4. /\ DbTypeOK' /\ Advances
      /\ ops'[pub.op] = row /\ \A o \in Ops : o # pub.op => ops'[o] = ops[o]
  BY <1>1, <1>2, <1>3, RowAdvances
<1>5. PubInv' /\ Promotable'
  BY DEF PubInv, PubIdle, Promotable, PublishingTypeOK, PubStages, PubWorking
<1> QED
  BY <1>1, <1>4, <1>5 DEF PublisherPart

\* No step of the publishing worker within the database breaks the invariant.
LEMMA PublisherInDatabase ==
  ASSUME IInv,
         Claim \/ Settle \/ Admit \/ Ready \/ Switch \/ Promoted \/ Succeed \/ Record
           \/ PublisherRecovers \/ PublisherCrashes,
         publisherCrashes' \in Nat, UNCHANGED <<requests, lcVars>>
  PROVE  IInv'
<1> USE DEF At
<1>1. UNCHANGED hostVars /\ UNCHANGED shared
  BY DEF Claim, Settle, Admit, Ready, Switch, Promoted, Succeed, Record, PublisherRecovers,
         PublisherCrashes, dbVars
<1>2. HostsInv' /\ GwInv'
  BY <1>1, HostsUntouched, RequestsUntouched
<1>3. DbTypeOK /\ PublishingTypeOK
  BY DEF IInv, DbInv, PubInv
<1>4. PubWorking => /\ pub.op \in Ops /\ Unfinished(pub.op) /\ ops[pub.op].kind = "deploy"
                    /\ Target \in Apps /\ ops[pub.op] \in OpRow
  BY <1>3 DEF IInv, PubInv, DbInv, Unfinished, Target, DbTypeOK
<1>5. PublisherPart
  <2>1. CASE Claim
    <3>1. PICK o \in Ops :
            /\ Accepted(o)
            /\ ops' = [ops EXCEPT ![o].state = "building"]
            /\ pub' = [PubIdle EXCEPT !.stage = "build", !.op = o,
                                      !.container = apps[ops[o].app].container,
                                      !.previous = apps[ops[o].app].active]
      BY <2>1 DEF Claim
    <3>2. ops[o].app \in Apps /\ UNCHANGED <<apps, retired, exclusive, shared>>
      BY <2>1, <3>1 DEF Claim, IInv, DbInv, Accepted
    <3>3. apps[ops[o].app].container \in BOOLEAN /\ apps[ops[o].app].active \in Ops \cup {NoOp}
      BY <1>3, <3>2 DEF DbTypeOK, AppRow
    <3>4. PublishingTypeOK' /\ pub'.op = o /\ pub'.stage = "build"
      BY <1>3, <3>1, <3>3 DEF PublishingTypeOK, PubIdle, PubStages
    <3>5. DbTypeOK'
      BY <1>3, <3>1, <3>2 DEF DbTypeOK, OpRow
    <3>6. Advances /\ Unfinished(o)' /\ ops'[o].kind = "deploy"
      BY <1>3, <3>1, <3>2 DEF DbTypeOK, OpRow, Advances, Unfinished, Accepted
    <3>7. \A p \in Ops : ops[p].kind = "secret-change" => ops'[p] = ops[p]
      BY <1>3, <3>1 DEF DbTypeOK, OpRow, Accepted
    <3> QED
      BY <3>4, <3>5, <3>6, <3>7 DEF PublisherPart, PubInv, Promotable
  <2>2. CASE Settle
    <3>1. PubMoves({"undo", "admit", "record"}) /\ PubWorking
      BY <1>3, <2>2 DEF Settle, Throw, PublishingTypeOK, PubStages, PubMoves, PubWorking
    <3>2. PICK seconds \in Charges :
            ops' \in {ops, [ops EXCEPT ![pub.op].charge = IF @ = Unsettled THEN seconds ELSE @]}
      <4>1. 0 \in Charges
        BY ConstantsAssumption DEF Charges
      <4>2. \/ ops' = ops
            \/ \E seconds \in Charges :
                 ops' = [ops EXCEPT ![pub.op].charge = IF @ = Unsettled THEN seconds ELSE @]
        BY <2>2 DEF Settle
      <4> QED
        BY <4>1, <4>2
    <3> DEFINE row == IF ops' = ops THEN ops[pub.op]
                      ELSE [ops[pub.op] EXCEPT !.charge = IF @ = Unsettled THEN seconds ELSE @]
    <3>3. /\ row \in OpRow /\ row.app = Target /\ row.kind = "deploy"
          /\ row.state = ops[pub.op].state
      BY <1>4, <3>1, <3>2 DEF OpRow, Target, Charges, Unsettled
    <3>4. ops' = [ops EXCEPT ![pub.op] = row]
      BY <1>3, <1>4, <3>1, <3>2 DEF DbTypeOK
    <3> HIDE DEF row
    <3>5. PubMoves(PubStages \ {"down", "idle", "ready", "switch", "promote"})
      BY <3>1 DEF PubMoves, PubStages
    <3>6. UNCHANGED <<apps, retired, exclusive, shared>>
      BY <2>2 DEF Settle
    <3>7. row.state \notin {"none", "succeeded", "failed"}
      BY <1>4, <3>1, <3>3 DEF Unfinished
    <3> QED
      BY <3>1, <3>3, <3>4, <3>5, <3>6, <3>7, WorkedRow
  <2>3. CASE Admit
    <3>1. PubMoves({"undo", "prepare"}) /\ PubWorking
      BY <1>3, <2>3 DEF Admit, Throw, PublishingTypeOK, PubStages, PubMoves, PubWorking
    <3>2. PubMoves(PubStages \ {"down", "idle", "ready", "switch", "promote"})
      BY <3>1 DEF PubMoves, PubStages
    <3>3. UNCHANGED <<apps, retired, exclusive, shared>>
      BY <2>3 DEF Admit
    <3> DEFINE row == IF ops' = ops THEN ops[pub.op] ELSE [ops[pub.op] EXCEPT !.state = "starting"]
    <3>4. ops' = [ops EXCEPT ![pub.op] = row]
      BY <1>3, <1>4, <2>3, <3>1 DEF Admit, DbTypeOK
    <3>5. /\ row \in OpRow /\ row.app = Target /\ row.kind = "deploy"
          /\ row.state \notin {"none", "succeeded", "failed"}
      BY <1>4, <3>1 DEF OpRow, Target, Unfinished
    <3> QED
      BY <3>1, <3>2, <3>3, <3>4, <3>5, WorkedRow
  <2>4. CASE Ready
    <3>1. PubMoves({"switch", "undo"}) /\ PubWorking /\ pub.stage = "ready"
      BY <1>3, <2>4 DEF Ready, Throw, PublishingTypeOK, PubStages, PubMoves, PubWorking
    <3>2. UNCHANGED <<apps, ops, retired, exclusive, shared, containers>>
      BY <2>4 DEF Ready, dbVars, hostVars
    <3>3. DbTypeOK' /\ Advances /\ PubInv'
      BY <1>3, <1>4, <3>1, <3>2 DEF DbTypeOK, Advances, PubInv, PubMoves, Unfinished
    <3>4. Promotable'
      BY <3>1, <3>2 DEF IInv, Promotable, PubMoves, Own, Target
    <3> QED
      BY <3>2, <3>3, <3>4 DEF PublisherPart
  <2>5. CASE Switch /\ apps[Target].authorized
    <3>1. PubMoves({"promote"}) /\ PubWorking /\ pub.stage = "switch"
      BY <1>3, <2>5 DEF Switch, PublishingTypeOK, PubStages, PubMoves, PubWorking
    <3>2. /\ apps' = SwitchedRow /\ ops' = [ops EXCEPT ![pub.op].state = "cleaning"]
          /\ UNCHANGED <<retired, exclusive, shared, containers>>
      BY <2>5 DEF Switch, hostVars
    <3>3. DbTypeOK' /\ Advances
      <4> DEFINE row == [apps[Target] EXCEPT !.active = pub.op, !.target = pub.port,
                                             !.container = TRUE, !.runtime = "running",
                                             !.idle = FALSE]
      <4>1. pub.op \in Ops /\ pub.port \in Ports \cup {NoPort} /\ apps[Target] \in AppRow
        BY <1>3, <1>4, <3>1 DEF PublishingTypeOK, DbTypeOK
      <4>2. row \in AppRow /\ (apps[Target].exists => row.exists)
        BY <4>1 DEF AppRow, RuntimeStates
      <4>3. apps' = [apps EXCEPT ![Target] = row]
        BY <3>2 DEF SwitchedRow
      <4> HIDE DEF row
      <4>4. apps' \in [Apps -> AppRow] /\ \A b \in Apps : apps[b].exists => apps'[b].exists
        BY <1>3, <1>4, <3>1, <4>2, <4>3, AppRowChanges
      <4>5. ops' \in [Ops -> OpRow]
        BY <1>3, <1>4, <3>1, <3>2 DEF DbTypeOK, OpRow
      <4> QED
        BY <1>3, <1>4, <3>1, <3>2, <4>4, <4>5 DEF DbTypeOK, OpRow, Advances, Unfinished
    <3>4. Unfinished(pub.op)' /\ ops'[pub.op].kind = "deploy" /\ ops'[pub.op].app = Target
      <4>1. ops'[pub.op] = [ops[pub.op] EXCEPT !.state = "cleaning"]
        BY <1>3, <1>4, <3>1, <3>2 DEF DbTypeOK
      <4>2. ops[pub.op] \in OpRow /\ ops[pub.op].app = Target /\ ops[pub.op].kind = "deploy"
        BY <1>4, <3>1 DEF Target
      <4> QED
        BY <3>1, <4>1, <4>2 DEF PubMoves, OpRow, Unfinished
    <3>5. \A o \in Ops : ops[o].kind = "secret-change" => ops'[o] = ops[o]
      BY <1>3, <1>4, <3>1, <3>2 DEF DbTypeOK
    <3>6. PubInv'
      BY <1>4, <3>1, <3>4 DEF PubInv, PubMoves
    <3>7. Promotable'
      BY <3>1, <3>2, <3>4 DEF IInv, Promotable, PubMoves, Own, Target
    <3> QED
      BY <3>3, <3>4, <3>5, <3>6, <3>7 DEF PublisherPart
  <2>6. CASE (Switch /\ ~apps[Target].authorized) \/ Promoted
    <3>1. PubMoves({"undo", "discard"}) /\ PubWorking
      BY <1>3, <2>6 DEF Switch, Promoted, Throw, PublishingTypeOK, PubStages, PubMoves, PubWorking
    <3>2. ops' = ops /\ UNCHANGED <<retired, exclusive, shared>>
      BY <2>6 DEF Switch, Promoted
    <3>3. apps' \in {apps, [apps EXCEPT ![Target].container = TRUE]}
      BY <2>6 DEF Switch, Promoted
    <3>4. DbTypeOK' /\ Advances
      <4> DEFINE row == IF apps' = apps THEN apps[Target] ELSE [apps[Target] EXCEPT !.container = TRUE]
      <4>0. apps[Target] \in AppRow
        BY <1>3, <1>4, <3>1 DEF DbTypeOK
      <4>1. row \in AppRow /\ row.exists = apps[Target].exists
        BY <4>0 DEF AppRow
      <4>2. apps' = [apps EXCEPT ![Target] = row]
        BY <1>3, <1>4, <3>1, <3>3 DEF DbTypeOK
      <4> HIDE DEF row
      <4>3. apps' \in [Apps -> AppRow] /\ \A b \in Apps : apps[b].exists => apps'[b].exists
        BY <1>3, <1>4, <3>1, <4>1, <4>2, AppRowChanges
      <4> QED
        BY <1>3, <3>2, <4>3 DEF DbTypeOK, Advances, Unfinished
    <3>5. PubInv' /\ Promotable'
      BY <1>4, <3>1, <3>2 DEF PubInv, PubMoves, Promotable, Unfinished
    <3> QED
      BY <3>2, <3>4, <3>5 DEF PublisherPart
  <2>7. CASE Succeed \/ Record
    <3>1. pub' = PubIdle /\ PubWorking /\ UNCHANGED <<apps, retired, exclusive, shared>>
      BY <2>7 DEF Succeed, Record, PubWorking
    <3> DEFINE row == IF Succeed THEN [ops[pub.op] EXCEPT !.state = "succeeded"] ELSE Recorded[pub.op]
    <3>2. Recorded \in [Ops -> OpRow]
      BY <1>3, <1>4, <3>1 DEF Recorded, DbTypeOK, OpRow, PublishingTypeOK
    <3>3. /\ row \in OpRow /\ row.app = Target /\ row.kind = "deploy" /\ row.state # "none"
      BY <1>3, <1>4, <2>7, <3>1, <3>2 DEF OpRow, Target, Recorded, DbTypeOK
    <3>4. ops' = [ops EXCEPT ![pub.op] = row]
      BY <1>3, <1>4, <2>7, <3>1 DEF Succeed, Record, Recorded, DbTypeOK
    <3> HIDE DEF row
    <3> QED
      BY <3>1, <3>3, <3>4, EndedRow
  <2>8. CASE PublisherRecovers
    <3>1. ops' = Interrupted /\ pub' = PubIdle /\ UNCHANGED <<apps, retired, exclusive, shared>>
      BY <2>8 DEF PublisherRecovers
    <3>2. DbTypeOK'
      <4>1. \A o \in Ops : ops[o] \in OpRow /\ [ops[o] EXCEPT !.reconcile = TRUE] \in OpRow
        <5> SUFFICES ASSUME NEW o \in Ops
                     PROVE  ops[o] \in OpRow /\ [ops[o] EXCEPT !.reconcile = TRUE] \in OpRow
          OBVIOUS
        <5>1. ops[o] \in OpRow
          BY <1>3 DEF DbTypeOK
        <5> QED
          BY <5>1 DEF OpRow
      <4>2. ops' \in [Ops -> OpRow]
        BY <3>1, <4>1 DEF Interrupted
      <4> QED
        BY <1>3, <3>1, <4>2 DEF DbTypeOK
    <3>3. Advances
      BY <1>3, <3>1 DEF DbTypeOK, OpRow, Interrupted, Advances, Unfinished
    <3>4. pub'.stage = "idle" /\ PublishingTypeOK'
      BY <3>1 DEF PubIdle, PublishingTypeOK, PubStages
    <3>5. PubInv' /\ Promotable'
      BY <3>4 DEF PubWorking, PubInv, Promotable
    <3>6. \A o \in Ops : ops[o].kind = "secret-change" => ops'[o] = ops[o]
      BY <3>1 DEF Interrupted
    <3> QED
      BY <3>2, <3>3, <3>5, <3>6 DEF PublisherPart
  <2>9. CASE PublisherCrashes
    <3>1. UNCHANGED dbVars /\ pub' = [PubIdle EXCEPT !.stage = "down"]
      BY <2>9 DEF PublisherCrashes
    <3>2. DbTypeOK' /\ Advances
      BY <1>3, <3>1 DEF dbVars, DbTypeOK, Advances, Unfinished
    <3>3. pub'.stage = "down" /\ PublishingTypeOK'
      BY <3>1 DEF PubIdle, PublishingTypeOK, PubStages
    <3>4. PubInv' /\ Promotable'
      BY <3>3 DEF PubWorking, PubInv, Promotable
    <3>5. \A o \in Ops : ops'[o] = ops[o]
      BY <3>1 DEF dbVars
    <3> QED
      BY <3>2, <3>4, <3>5 DEF PublisherPart
  <2> QED
    BY <2>1, <2>2, <2>3, <2>4, <2>5, <2>6, <2>7, <2>8, <2>9
<1> QED
  BY <1>2, <1>5, OperationsAdvance, LifecycleUntouched DEF IInv, PublisherPart

\* What the publishing worker does on the hosts keeps the rest, given what it
\* does to them and where it goes.
LEMMA PublisherKeepsRest ==
  ASSUME IInv, PubWorking, PublishingTypeOK', pub'.op = pub.op,
         UNCHANGED <<dbVars, requests, lcVars>>
  PROVE  DbInv' /\ GwInv' /\ PubInv' /\ LcInv' /\ OneOperationPerApp'
<1>1. UNCHANGED <<ops, shared>> /\ DbTypeOK' /\ Advances
  BY DEF IInv, DbInv, DbTypeOK, dbVars, Advances, Unfinished
<1>2. PubInv'
  BY <1>1 DEF IInv, PubInv, Unfinished
<1> QED
  BY <1>1, <1>2, OperationsAdvance, RequestsUntouched, LifecycleUntouched

\* No step of the publishing worker on the hosts breaks the invariant.
LEMMA PublisherOnHosts ==
  ASSUME IInv, Build \/ Prepare \/ Launch \/ Promote \/ Discard \/ Undo \/ Forget,
         UNCHANGED <<publisherCrashes, requests, lcVars>>
  PROVE  IInv'
<1> USE DEF At
<1>1. PubWorking
  BY DEF PubWorking, Build, Prepare, Launch, Promote, Discard, Undo, Forget
<1>2. UNCHANGED dbVars
  BY DEF Build, Prepare, Launch, Promote, Discard, Undo, Forget
<1>3. HostsTypeOK /\ SoundContainers(containers) /\ PublishingTypeOK /\ publisherCrashes' \in Nat
  BY DEF IInv, HostsInv, PubInv, PublishingTypeOK
<1>4. pub.op \in Ops /\ Target \in Apps
  BY <1>1 DEF IInv, PubInv, DbInv, Target, Unfinished
<1>5. ops' = ops
  BY <1>2 DEF dbVars
<1>6. HostsInv' /\ PubMoves(PubStages) /\ Promotable'
  <2>1. CASE Build
    <3>1. HostsInv'
      BY <1>3, <1>4, <2>1 DEF Build, HostsInv, HostsTypeOK, SoundContainers, ActiveIn, CandidatesIn
    <3>2. PubMoves({"settle"})
      BY <1>3, <2>1 DEF Build, PublishingTypeOK, PubStages, PubMoves
    <3> QED
      BY <3>1, <3>2 DEF PubMoves, PubStages, Promotable
  <2>2. CASE Prepare
    <3>1. HostsInv'
      BY <1>3, <1>4, <2>2 DEF Prepare, HostsInv, HostsTypeOK, SoundContainers, ActiveIn, CandidatesIn
    <3>2. apps[Target].secret \in Ops \cup {NoOp}
      BY <1>4 DEF IInv, DbInv, DbTypeOK, AppRow
    <3>3. PubMoves({"launch", "undo", "record"})
      <4>1. ASSUME NEW reconcile \in BOOLEAN, Throw(reconcile)
            PROVE  PubMoves({"launch", "undo", "record"})
        BY <1>3, <4>1, Thrown DEF PubMoves
      <4>2. ASSUME pub' = [pub EXCEPT !.stage = "launch", !.secret = apps[Target].secret]
            PROVE  PubMoves({"launch", "undo", "record"})
        BY <1>3, <3>2, <4>2 DEF PublishingTypeOK, PubStages, PubMoves
      <4> QED
        BY <2>2, <4>1, <4>2 DEF Prepare
    <3> QED
      BY <3>1, <3>3 DEF PubMoves, PubStages, Promotable
  <2>3. CASE Launch
    <3>1. pub.secret \in Ops \cup {NoOp} /\ pub.container \in BOOLEAN /\ pub.stage = "launch"
      BY <1>3, <2>3 DEF PublishingTypeOK, Launch
    <3>2. CASE pub'.stage = "ready"
      <4>1. /\ LaunchAllowed(Target, pub.container)
            /\ LET c == NewContainer(Target, pub.op, pub.secret, pub.container, TRUE)
               IN containers' = containers \cup {c}
                  /\ pub' = [pub EXCEPT !.stage = "ready", !.port = c.port]
            /\ UNCHANGED <<retained, registry, orphan, orphans>>
        BY <1>3, <2>3, <3>2 DEF Launch, Throw, PublishingTypeOK
      <4> DEFINE c == NewContainer(Target, pub.op, pub.secret, pub.container, TRUE)
      <4>2. SoundContainers(containers')
        BY <1>3, <1>4, <3>1, <4>1, LaunchedContainers
      <4>3. HostsInv'
        BY <1>3, <1>5, <4>1, <4>2 DEF HostsInv, HostsTypeOK, SoundContainers
      <4>4. c.port \in Ports /\ c.app = Target
            /\ c.role = IF pub.container THEN "candidate" ELSE "active"
        BY <1>3, <1>4, <3>1, <4>1, SlotLeft DEF NewContainer
      <4> HIDE DEF c
      <4>5. PubMoves({"ready"})
        BY <1>3, <4>1, <4>4 DEF PublishingTypeOK, PubStages, PubMoves, c
      <4>6. Promotable'
        <5> SUFFICES ASSUME pub.container
                     PROVE  \E old, new \in Own(Target)' : old.role = "active" /\ new.role = "candidate"
          BY <4>5 DEF Promotable, PubMoves
        <5>1. PICK old \in Own(Target) : old.role = "active"
          BY <4>1 DEF LaunchAllowed
        <5>2. old \in Own(Target)' /\ c \in Own(Target)'
          BY <1>5, <4>1, <4>4, <4>5, <5>1 DEF Own, c, PubMoves, Target
        <5> QED
          BY <4>4, <5>1, <5>2
      <4> QED
        BY <4>3, <4>5, <4>6 DEF PubMoves, PubStages
    <3>3. CASE pub'.stage # "ready"
      <4>1. PubMoves({"undo", "record"})
        BY <1>3, <2>3, <3>3 DEF Launch, Throw, PublishingTypeOK, PubStages, PubMoves
      <4>2. /\ containers' \in LaunchLeftovers(Target, pub.op, pub.secret, pub.container)
            /\ \/ UNCHANGED <<retained, registry, orphan, orphans>>
               \/ LoseLaunch(Target, pub.op, pub.secret, pub.container)
        BY <1>3, <2>3, <3>3 DEF Launch, LaunchLeftovers, LoseLaunch, PublishingTypeOK
      <4>3. SoundContainers(containers')
        BY <1>3, <1>4, <3>1, <4>2, LeftoversSound
      <4>4. HostsInv'
        BY <1>3, <1>4, <3>1, <4>2, <4>3 DEF HostsInv, HostsTypeOK, SoundContainers, LoseLaunch
      <4> QED
        BY <4>1, <4>4 DEF PubMoves, PubStages, Promotable
    <3> QED
      BY <3>2, <3>3
  <2>4. CASE Promote
    <3>1. PubMoves({"promoted", "undo", "record"}) /\ pub.stage = "promote"
      <4>1. Throw(TRUE) \/ pub' = [pub EXCEPT !.stage = "promoted"]
        BY <2>4 DEF Promote
      <4>2. PubMoves({"promoted", "undo", "record"})
        BY <1>3, <4>1, Thrown, Went DEF PubStages, PubMoves
      <4> QED
        BY <2>4, <4>2 DEF Promote
    <3>2. UNCHANGED <<retained, registry, orphan, orphans>>
      BY <2>4 DEF Promote
    <3>3. containers' = containers \/ (pub.container /\ containers' \in {WithoutOldActive(Target), Renamed(Target)})
      BY <2>4 DEF Promote
    <3>4. SoundContainers(WithoutOldActive(Target))
      BY <1>3, FewerContainers DEF WithoutOldActive
    <3>5. ASSUME pub.container PROVE SoundContainers(Renamed(Target))
      <4>1. PICK old, new \in Own(Target) : old.role = "active" /\ new.role = "candidate"
        BY <3>1, <3>5 DEF IInv, Promotable
      <4> QED
        BY <1>3, <1>4, <4>1, RenamedContainers
    <3>6. SoundContainers(containers')
      BY <1>3, <3>3, <3>4, <3>5
    <3> QED
      BY <1>3, <3>1, <3>2, <3>6 DEF HostsInv, HostsTypeOK, SoundContainers, PubMoves, PubStages, Promotable
  <2>5. CASE Discard \/ Forget
    <3>1. PubMoves({"succeed", "undo", "record"})
      <4>1. Throw(TRUE) \/ \E stage \in {"succeed", "record"} : pub' = [pub EXCEPT !.stage = stage]
        BY <2>5 DEF Discard, Forget
      <4> QED
        BY <1>3, <4>1, Thrown, Went DEF PubStages, PubMoves
    <3>2. UNCHANGED <<containers, orphan, orphans>> /\ retained' \subseteq retained /\ registry' \subseteq registry
      BY <2>5 DEF Discard, Forget
    <3>3. HostsInv'
      BY <1>3, <3>2 DEF HostsInv, HostsTypeOK, SoundContainers, ActiveIn, CandidatesIn
    <3> QED
      BY <3>1, <3>3 DEF PubMoves, PubStages, Promotable
  <2>6. CASE Undo
    <3>1. PubMoves({"forget", "undo", "record"})
      <4>1. Throw(TRUE) \/ pub' = [pub EXCEPT !.stage = "forget"]
        BY <2>6 DEF Undo
      <4> QED
        BY <1>3, <4>1, Thrown, Went DEF PubStages, PubMoves
    <3>2. UNCHANGED <<retained, registry, orphan, orphans>> /\ containers' \subseteq containers
      BY <2>6 DEF Undo
    <3>3. SoundContainers(containers')
      BY <1>3, <3>2, FewerContainers
    <3>4. HostsInv'
      BY <1>3, <3>2, <3>3 DEF HostsInv, HostsTypeOK, SoundContainers
    <3> QED
      BY <3>1, <3>4 DEF PubMoves, PubStages, Promotable
  <2> QED
    BY <2>1, <2>2, <2>3, <2>4, <2>5, <2>6
<1> QED
  BY <1>1, <1>2, <1>6, PublisherKeepsRest DEF IInv, PubMoves

-----------------------------------------------------------------------------

\* What is said of the candidate survives a step that keeps the app's containers.
LEMMA PromotableUntouched ==
  ASSUME IInv, UNCHANGED <<pubVars, containers>>,
         \A o \in Ops : ops'[o].app = ops[o].app
  PROVE  Promotable'
BY DEF IInv, PubInv, PubWorking, pubVars, Promotable, Own, Target

\* The lifecycle worker keeps its app and its operation.
LcMoves(stages) ==
  /\ LifecycleTypeOK' /\ lc'.stage \in stages
  /\ lc'.app = lc.app /\ lc'.op = lc.op

\* The lifecycle worker has nothing in hand.
LcFree ==
  /\ LifecycleTypeOK' /\ lc'.stage \in {"down", "recovering", "idle", "scan"}
  /\ lc'.op = NoOp

\* What a step of the lifecycle worker within the database must restore.
LifecyclePart ==
  /\ DbTypeOK' /\ Advances /\ LcInv'
  /\ \A o \in Ops : ops[o].kind = "deploy" => ops'[o] = ops[o]

\* The worker puts down what it had.
LEMMA LifecycleFree ==
  ASSUME LcFree
  PROVE  LcInv'
BY DEF LcFree, LcInv, LcWorking

\* The worker goes on with what it has.
LEMMA LifecycleGoesOn ==
  ASSUME IInv, LcWorking, LcMoves(LcStages \ {"down", "recovering", "idle", "scan"}),
         lc'.stage \in {"retire", "expire", "finish"} => lc.op # NoOp,
         lc.op # NoOp => /\ ops'[lc.op].app = ops[lc.op].app /\ ops'[lc.op].kind = ops[lc.op].kind
                         /\ ops'[lc.op].state \notin {"none", "succeeded", "failed"}
  PROVE  LcInv'
BY DEF IInv, LcInv, LcMoves, LcWorking, SecretChange, Unfinished

\* A row of the app in hand is rewritten, or none is, and no operation changes.
LEMMA AppInHand ==
  ASSUME IInv, LcWorking, NEW row \in AppRow, apps[lc.app].exists => row.exists,
         apps' = [apps EXCEPT ![lc.app] = row],
         ops' = ops, retired' = retired, shared' = shared, exclusive' \in {exclusive, NoApp}
  PROVE  DbTypeOK' /\ Advances
<1>1. lc.app \in Apps /\ DbTypeOK
  BY DEF IInv, DbInv, LcInv
<1>2. apps' \in [Apps -> AppRow] /\ \A b \in Apps : apps[b].exists => apps'[b].exists
  BY <1>1, AppRowChanges
<1> QED
  BY <1>1, <1>2 DEF DbTypeOK, Advances, Unfinished

\* No step of the lifecycle worker within the database breaks the invariant.
LEMMA LifecycleInDatabase ==
  ASSUME IInv,
         \/ Scan \/ ScanEnds \/ Begin \/ Skip \/ RetireSecrets \/ ReadyApp \/ Commit
         \/ Stopped \/ Expire \/ Result \/ FinishSecret \/ LifecycleRecovery
         \/ LifecycleCrashes \/ \E a \in Apps : TryLock(a),
         lifecycleCrashes' \in Nat, UNCHANGED <<requests, pubVars>>
  PROVE  IInv'
<1> USE DEF LcAt, LcGoto
<1>1. UNCHANGED hostVars /\ UNCHANGED shared
  BY DEF Scan, ScanEnds, TryLock, Begin, Skip, RetireSecrets, ReadyApp, Commit, Stopped, Expire,
         Result, FinishSecret, LifecycleRecovery, RecoverSecretChanges, RecoverStarts,
         LifecycleCrashes, dbVars
<1>2. HostsInv' /\ GwInv'
  BY <1>1, HostsUntouched, RequestsUntouched
<1>3. DbTypeOK /\ LifecycleTypeOK
  BY DEF IInv, DbInv, LcInv
<1>4. LcWorking => /\ lc.app \in Apps /\ apps[lc.app] \in AppRow
                   /\ lc.op # NoOp => SecretChange(lc.app, lc.op) /\ lc.op \in Ops
  BY <1>3 DEF IInv, LcInv, DbTypeOK, LifecycleTypeOK
<1>5. LifecyclePart
  <2>1. CASE Scan \/ ScanEnds
    <3>1. UNCHANGED dbVars
      BY <2>1 DEF Scan, ScanEnds
    <3>2. ASSUME Scan PROVE LcFree
      <4>1. PICK rows \in SUBSET Apps : lc' = [LcIdle EXCEPT !.stage = "scan", !.todo = rows]
        BY <3>2 DEF Scan
      <4> QED
        BY <4>1 DEF LcFree, LcIdle, LifecycleTypeOK, LcStages
    <3>3. ASSUME ScanEnds PROVE LcFree
      BY <3>3 DEF ScanEnds, LcFree, LcIdle, LifecycleTypeOK, LcStages
    <3>4. LcFree
      BY <2>1, <3>2, <3>3
    <3> QED
      BY <1>3, <3>1, <3>4, LifecycleFree DEF LifecyclePart, dbVars, DbTypeOK, Advances, Unfinished
  <2>2. CASE \E a \in Apps : TryLock(a)
    <3>1. PICK a \in Apps : TryLock(a)
      BY <2>2
    <3>2. lc.stage = "scan" /\ lc.op = NoOp /\ UNCHANGED <<apps, ops, retired, shared>>
      BY <3>1 DEF TryLock, IInv, LcInv, LcWorking
    <3>3. exclusive' \in {a, exclusive}
      BY <3>1 DEF TryLock, TakeLock
    <3>4. LifecycleTypeOK' /\ lc'.stage \in {"begin", "scan"} /\ lc'.op = NoOp
          /\ (lc'.stage = "begin" => lc'.app \in Apps)
      <4>1. CASE lc' = [lc EXCEPT !.stage = "begin", !.app = a]
        BY <1>3, <3>2, <4>1 DEF LifecycleTypeOK, LcStages
      <4>2. CASE lc' = [lc EXCEPT !.todo = @ \ {a}]
        BY <1>3, <3>2, <4>2 DEF LifecycleTypeOK, LcStages
      <4> QED
        BY <3>1, <4>1, <4>2 DEF TryLock, TakeLock
    <3>5. LcInv'
      BY <3>4 DEF LcInv, LcWorking
    <3>6. DbTypeOK' /\ Advances
      BY <1>3, <3>2, <3>3 DEF DbTypeOK, Advances, Unfinished
    <3> QED
      BY <3>2, <3>5, <3>6 DEF LifecyclePart
  <2>3. CASE Begin
    <3> DEFINE row == [apps[lc.app] EXCEPT !.runtime = IF @ = "queued" THEN "starting"
                                                      ELSE IF @ = "running" THEN "stopping" ELSE @]
               op == IF \E o \in Ops : SecretChange(lc.app, o)
                     THEN CHOOSE o \in Ops : SecretChange(lc.app, o) ELSE NoOp
    <3>1. LcWorking /\ lc.stage = "begin"
      BY <2>3 DEF Begin, LcWorking
    <3>2. row \in AppRow /\ row.exists = apps[lc.app].exists
      BY <1>4, <3>1 DEF AppRow, RuntimeStates, Busy
    <3>3. apps' = [apps EXCEPT ![lc.app] = row] /\ UNCHANGED <<ops, retired, exclusive, shared>>
      BY <2>3 DEF Begin
    <3>4. /\ lc' = [lc EXCEPT !.op = op, !.active = apps[lc.app].active,
                             !.queued = (apps[lc.app].runtime = "queued"),
                             !.stage = IF op # NoOp \/ apps[lc.app].runtime # "queued"
                                       THEN "stop" ELSE "wake"]
      BY <2>3 DEF Begin
    <3>5. op = NoOp \/ (op \in Ops /\ SecretChange(lc.app, op))
      OBVIOUS
    <3> HIDE DEF row, op
    <3>6. DbTypeOK' /\ Advances
      BY <3>1, <3>2, <3>3, AppInHand
    <3>7. apps[lc.app].active \in Ops \cup {NoOp}
      BY <1>4, <3>1 DEF AppRow
    <3>8. /\ LifecycleTypeOK' /\ lc'.stage \in {"stop", "wake"}
          /\ lc'.app = lc.app /\ lc'.op = op
      <4>1. PICK stage \in {"stop", "wake"}, active \in Ops \cup {NoOp}, queued \in BOOLEAN :
              lc' = [lc EXCEPT !.op = op, !.active = active, !.queued = queued, !.stage = stage]
        BY <3>4, <3>7
      <4>2. op \in Ops \cup {NoOp}
        BY <3>5
      <4> QED
        <5>1. LifecycleTypeOK'
          BY <1>3, <4>1, <4>2 DEF LifecycleTypeOK, LcStages
        <5>2. lc'.stage = stage /\ lc'.app = lc.app /\ lc'.op = op
          BY <1>3, <4>1 DEF LifecycleTypeOK
        <5> QED
          BY <5>1, <5>2
    <3>9. LcInv'
      BY <1>4, <3>1, <3>3, <3>5, <3>8 DEF LcInv, LcWorking, SecretChange, Unfinished
    <3> QED
      BY <3>3, <3>6, <3>9 DEF LifecyclePart
  <2>4. CASE Skip \/ LifecycleCrashes
    <3>1. UNCHANGED <<apps, ops, retired, shared>> /\ exclusive' = NoApp
      BY <2>4 DEF Skip, LifecycleCrashes
    <3>2. LcFree
      <4>1. \/ lc' = [LcIdle EXCEPT !.stage = "down"]
            \/ lc' = [LcIdle EXCEPT !.stage = "scan", !.todo = lc.todo \ {lc.app}]
        BY <2>4 DEF Skip, LifecycleCrashes
      <4>2. lc.todo \in SUBSET Apps
        BY <1>3 DEF LifecycleTypeOK
      <4>3. CASE lc' = [LcIdle EXCEPT !.stage = "down"]
        BY <4>3 DEF LcFree, LcIdle, LifecycleTypeOK, LcStages
      <4>4. CASE lc' = [LcIdle EXCEPT !.stage = "scan", !.todo = lc.todo \ {lc.app}]
        BY <4>2, <4>4 DEF LcFree, LcIdle, LifecycleTypeOK, LcStages
      <4> QED
        BY <4>1, <4>3, <4>4
    <3>3. DbTypeOK' /\ Advances
      BY <1>3, <3>1 DEF DbTypeOK, Advances, Unfinished
    <3> QED
      BY <3>1, <3>2, <3>3, LifecycleFree DEF LifecyclePart
  <2>5. CASE ReadyApp \/ Expire
    <3>1. LcWorking /\ LcMoves({"commit", "undo", "result"})
      BY <1>3, <2>5 DEF ReadyApp, Expire, LcWorking, LcMoves, LifecycleTypeOK, LcStages
    <3>2. UNCHANGED <<apps, ops, exclusive, shared>> /\ retired' \in {retired, Expired}
      BY <2>5 DEF ReadyApp, Expire, dbVars
    <3>3. DbTypeOK' /\ Advances
      BY <1>3, <3>2 DEF DbTypeOK, Advances, Unfinished, Expired
    <3>4. LcInv'
      BY <1>4, <3>1, <3>2, LifecycleGoesOn DEF LcMoves, LcStages, SecretChange, Unfinished
    <3> QED
      BY <3>2, <3>3, <3>4 DEF LifecyclePart
  <2>6. CASE RetireSecrets
    <3> DEFINE row == [ops[lc.op] EXCEPT !.state = "starting"]
    <3>1. LcWorking /\ lc.op # NoOp /\ lc.op \in Ops /\ SecretChange(lc.app, lc.op)
      BY <1>4, <2>6 DEF RetireSecrets, LcWorking, IInv, LcInv
    <3>2. /\ ops' = [ops EXCEPT ![lc.op] = row] /\ retired' = Expired
          /\ UNCHANGED <<apps, exclusive, shared>>
      BY <2>6 DEF RetireSecrets
    <3>3. /\ row \in OpRow /\ row.app = ops[lc.op].app
          /\ row.kind = "secret-change" /\ row.state = "starting"
      BY <1>3, <3>1 DEF DbTypeOK, OpRow, SecretChange
    <3> HIDE DEF row
    <3>4. DbTypeOK' /\ Advances
      BY <1>3, <3>1, <3>2, <3>3 DEF DbTypeOK, Advances, Unfinished, Expired, SecretChange
    <3>5. LcMoves({"wake"})
      BY <1>3, <2>6 DEF RetireSecrets, LcMoves, LifecycleTypeOK, LcStages
    <3>6. ops'[lc.op] = row
      BY <1>3, <3>1, <3>2 DEF DbTypeOK
    <3>7. LcInv'
      BY <3>1, <3>3, <3>5, <3>6, LifecycleGoesOn DEF LcMoves, LcStages, SecretChange
    <3>8. \A o \in Ops : ops[o].kind = "deploy" => ops'[o] = ops[o]
      BY <1>3, <3>1, <3>2 DEF DbTypeOK, SecretChange
    <3> QED
      BY <3>4, <3>7, <3>8 DEF LifecyclePart
  <2>7. CASE FinishSecret
    <3> DEFINE row == [ops[lc.op] EXCEPT !.state = IF apps[lc.app].runtime = "blocked" THEN "cleaning"
                                                   ELSE IF apps[lc.app].runtime = "running" THEN "succeeded"
                                                   ELSE "failed"]
    <3>1. LcWorking /\ lc.op # NoOp /\ lc.op \in Ops /\ SecretChange(lc.app, lc.op)
      BY <1>4, <2>7 DEF FinishSecret, LcWorking, IInv, LcInv
    <3>2. /\ ops' = [ops EXCEPT ![lc.op] = row] /\ lc' = LcIdle
          /\ UNCHANGED <<apps, retired, shared>> /\ exclusive' = NoApp
      BY <2>7 DEF FinishSecret, LcDone
    <3>3. /\ row \in OpRow /\ row.app = ops[lc.op].app /\ row.kind = "secret-change"
          /\ row.state # "none"
      BY <1>3, <3>1 DEF DbTypeOK, OpRow, SecretChange
    <3> HIDE DEF row
    <3>4. DbTypeOK' /\ Advances
      BY <1>3, <3>1, <3>2, <3>3 DEF DbTypeOK, Advances, Unfinished, SecretChange
    <3>5. LcFree
      BY <3>2 DEF LcFree, LcIdle, LifecycleTypeOK, LcStages
    <3>6. \A o \in Ops : ops[o].kind = "deploy" => ops'[o] = ops[o]
      BY <1>3, <3>1, <3>2 DEF DbTypeOK, SecretChange
    <3> QED
      BY <3>4, <3>5, <3>6, LifecycleFree DEF LifecyclePart
  <2>8. CASE Commit /\ ~apps[lc.app].authorized
    <3>1. LcWorking /\ LcMoves({"undo"}) /\ UNCHANGED <<apps, ops, retired, exclusive, shared>>
      BY <1>3, <2>8 DEF Commit, LcWorking, LcMoves, LifecycleTypeOK, LcStages
    <3>2. DbTypeOK' /\ Advances
      BY <1>3, <3>1 DEF DbTypeOK, Advances, Unfinished
    <3>3. LcInv'
      BY <1>4, <3>1, LifecycleGoesOn DEF LcMoves, LcStages, SecretChange, Unfinished
    <3> QED
      BY <3>1, <3>2, <3>3 DEF LifecyclePart
  <2>9. CASE (Commit /\ apps[lc.app].authorized) \/ Result \/ Stopped
    <3> DEFINE row == IF Commit
                      THEN [apps[lc.app] EXCEPT !.runtime = "running", !.target = lc.port,
                                                !.container = TRUE, !.idle = FALSE]
                      ELSE [apps[lc.app] EXCEPT !.runtime = IF Stopped THEN "stopped" ELSE lc.result,
                                                !.target = NoPort, !.container = FALSE]
    <3>1. LcWorking /\ lc.port \in Ports \cup {NoPort} /\ lc.result \in {"failed", "stopped", "blocked"}
      BY <1>3, <2>9 DEF LcWorking, LifecycleTypeOK, Commit, Result, Stopped
    <3>2. row \in AppRow /\ row.exists = apps[lc.app].exists
      <4>1. apps[lc.app] \in AppRow
        BY <1>4, <3>1
      <4>2. [apps[lc.app] EXCEPT !.runtime = "running", !.target = lc.port,
                                !.container = TRUE, !.idle = FALSE] \in AppRow
        BY <3>1, <4>1 DEF AppRow, RuntimeStates
      <4>3. \A result \in {"stopped", lc.result} :
              [apps[lc.app] EXCEPT !.runtime = result, !.target = NoPort,
                                   !.container = FALSE] \in AppRow
        BY <3>1, <4>1 DEF AppRow, RuntimeStates, Busy
      <4> QED
        BY <4>1, <4>2, <4>3 DEF AppRow
    <3>3. /\ apps' = [apps EXCEPT ![lc.app] = row]
          /\ UNCHANGED <<ops, retired, shared>>
      <4>1. CASE Commit /\ apps[lc.app].authorized
        BY <4>1 DEF Commit
      <4>2. CASE Result \/ Stopped
        <5>1. ~Commit /\ ~(Result /\ Stopped)
          BY <4>2 DEF Commit, Result, Stopped
        <5> QED
          BY <4>2, <5>1 DEF Result, Stopped, WithRuntime
      <4> QED
        BY <2>9, <4>1, <4>2
    <3> HIDE DEF row
    <3>4. \/ LcIdle = lc' /\ exclusive' = NoApp
          \/ lc' = [lc EXCEPT !.stage = "finish"] /\ exclusive' = exclusive /\ lc.op # NoOp
      BY <2>9 DEF Commit, Result, Stopped, LcDone
    <3>5. DbTypeOK' /\ Advances
      BY <3>1, <3>2, <3>3, <3>4, AppInHand
    <3>6. LcInv'
      <4>1. CASE LcIdle = lc'
        BY <4>1, LifecycleFree DEF LcFree, LcIdle, LifecycleTypeOK, LcStages
      <4>2. CASE lc' = [lc EXCEPT !.stage = "finish"] /\ lc.op # NoOp
        <5>1. LcMoves({"finish"})
          BY <1>3, <4>2 DEF LcMoves, LifecycleTypeOK, LcStages
        <5> QED
          BY <1>4, <3>1, <3>3, <4>2, <5>1, LifecycleGoesOn DEF LcMoves, LcStages, SecretChange, Unfinished
      <4> QED
        BY <3>4, <4>1, <4>2
    <3> QED
      BY <3>3, <3>5, <3>6 DEF LifecyclePart
  <2>10. CASE LifecycleRecovery
    <3>1. UNCHANGED <<ops, retired, exclusive, shared>>
      BY <2>10 DEF LifecycleRecovery, RecoverSecretChanges, RecoverStarts
    <3>2. \A a \in Apps : Resumed(a) \in AppRow /\ Resumed(a).exists = apps[a].exists
      BY <1>3 DEF Resumed, DbTypeOK, AppRow, RuntimeStates, Busy
    <3>3. \A a \in Apps : Recovered(apps[a]) \in AppRow /\ Recovered(apps[a]).exists = apps[a].exists
      BY <1>3 DEF Recovered, DbTypeOK, AppRow, RuntimeStates, Busy
    <3>4. apps' \in [Apps -> AppRow] /\ \A a \in Apps : apps'[a].exists = apps[a].exists
      BY <2>10, <3>2, <3>3 DEF LifecycleRecovery, RecoverSecretChanges, RecoverStarts
    <3>5. DbTypeOK' /\ Advances
      BY <1>3, <3>1, <3>4 DEF DbTypeOK, Advances, Unfinished
    <3>6. LcFree
      <4>1. CASE RecoverStarts
        BY <4>1 DEF RecoverStarts, LcFree, LcIdle, LifecycleTypeOK, LcStages
      <4>2. CASE RecoverSecretChanges
        BY <1>3, <4>2 DEF RecoverSecretChanges, LcFree, LifecycleTypeOK, LcStages, IInv, LcInv, LcWorking
      <4> QED
        BY <2>10, <4>1, <4>2 DEF LifecycleRecovery
    <3> QED
      BY <3>1, <3>5, <3>6, LifecycleFree DEF LifecyclePart
  <2> QED
    BY <2>1, <2>2, <2>3, <2>4, <2>5, <2>6, <2>7, <2>8, <2>9, <2>10
<1>6. Advances => \A o \in Ops : ops'[o].app = ops[o].app
  BY DEF Advances
<1> QED
  BY <1>1, <1>2, <1>5, <1>6, OperationsAdvance, PublisherUntouched, PromotableUntouched
  DEF IInv, LifecyclePart, hostVars

\* No step of the lifecycle worker on the runtime host breaks the invariant: it
\* stops no app that has a candidate.
LEMMA LifecycleOnHosts ==
  ASSUME IInv, Stop \/ WakeApp \/ UndoApp,
         UNCHANGED <<lifecycleCrashes, requests, pubVars>>
  PROVE  IInv'
<1> USE DEF LcAt, LcGoto
<1>1. UNCHANGED dbVars
  BY DEF Stop, WakeApp, UndoApp
<1>2. DbTypeOK' /\ Advances /\ UNCHANGED <<apps, ops, shared>>
  BY <1>1 DEF IInv, DbInv, DbTypeOK, dbVars, Advances, Unfinished
<1>3. HostsTypeOK /\ SoundContainers(containers) /\ LifecycleTypeOK /\ DbTypeOK
  BY DEF IInv, HostsInv, LcInv, DbInv
<1>4. /\ LcWorking /\ lc.app \in Apps
      /\ lc.op # NoOp => SecretChange(lc.app, lc.op)
  BY DEF IInv, LcInv, LcWorking, Stop, WakeApp, UndoApp
<1>5. PubWorking => pub.op \in Ops /\ Target \in Apps
  BY DEF IInv, PubInv, DbInv, Target, Unfinished
<1>6. LcMoves({"retire", "stopped", "undo", "ready", "expire", "result"})
  <2>1. CASE Stop
    <3>1. PICK stage \in {"retire", "stopped", "undo"} : lc' = [lc EXCEPT !.stage = stage]
      BY <2>1 DEF Stop, StopOutcome
    <3> QED
      BY <1>3, <3>1 DEF LcMoves, LcStages, LifecycleTypeOK
  <2>2. CASE UndoApp
    <3>1. PICK stage \in {"expire", "result"}, result \in {"failed", "stopped", "blocked"} :
            lc' = [lc EXCEPT !.stage = stage, !.result = result]
      BY <2>2 DEF UndoApp, StopOutcome, UndoFailed
    <3> QED
      BY <1>3, <3>1 DEF LcMoves, LcStages, LifecycleTypeOK
  <2>3. CASE WakeApp
    <3>1. CASE lc' = [lc EXCEPT !.stage = "undo"]
      BY <1>3, <3>1 DEF LcMoves, LcStages, LifecycleTypeOK
    <3>2. CASE lc' # [lc EXCEPT !.stage = "undo"]
      <4>1. /\ lc.active \in retained /\ LaunchAllowed(lc.app, FALSE)
            /\ lc' = [lc EXCEPT !.stage = "ready",
                                !.port = NewContainer(lc.app, lc.active, WakeSecret, FALSE, TRUE).port]
        BY <2>3, <3>2 DEF WakeApp
      <4>2. FreePort \in Ports
        BY <1>3, <1>4, <4>1, SlotLeft
      <4>3. NewContainer(lc.app, lc.active, WakeSecret, FALSE, TRUE).port \in Ports
        BY <4>2 DEF NewContainer
      <4> QED
        BY <1>3, <4>1, <4>3 DEF LcMoves, LcStages, LifecycleTypeOK
    <3> QED
      BY <3>1, <3>2
  <2> QED
    BY <2>1, <2>2, <2>3
<1>7. LcInv'
  <2>1. lc'.stage \in {"retire", "expire", "finish"} => lc.op # NoOp
    <3>1. CASE lc.op = NoOp
      <4>1. lc'.stage \in {"stopped", "undo", "ready", "result"}
        BY <1>3, <3>1 DEF Stop, WakeApp, UndoApp, StopOutcome, LifecycleTypeOK
      <4> QED
        BY <4>1
    <3> QED
      BY <3>1
  <2>2. LcMoves(LcStages \ {"down", "recovering", "idle", "scan"})
    BY <1>6 DEF LcMoves, LcStages
  <2> QED
    BY <1>2, <1>4, <2>1, <2>2, LifecycleGoesOn DEF SecretChange, Unfinished
<1>8. HostsInv' /\ Promotable'
  <2>1. CASE Stop \/ UndoApp
    <3>1. /\ UNCHANGED <<retained, registry, orphan, orphans>>
          /\ containers' = containers \/ (CanStop(lc.app) /\ containers' = WithoutApp)
      BY <2>1 DEF Stop, UndoApp, StopOutcome
    <3>2. SoundContainers(containers')
      BY <1>3, <3>1, FewerContainers DEF WithoutApp
    <3>3. HostsInv'
      BY <1>3, <3>1, <3>2 DEF HostsInv, HostsTypeOK, SoundContainers
    <3>4. Promotable'
      <4>1. CASE containers' = containers
        BY <1>2, <4>1, PromotableUntouched
      <4>2. CASE CanStop(lc.app) /\ containers' = WithoutApp
        <5> SUFFICES ASSUME pub.stage \in {"ready", "switch", "promote"}, pub.container
                     PROVE  \E old, new \in Own(Target)' : old.role = "active" /\ new.role = "candidate"
          BY DEF Promotable, pubVars
        <5>1. PICK old, new \in Own(Target) : old.role = "active" /\ new.role = "candidate"
          BY DEF IInv, Promotable
        <5>2. Target # lc.app
          BY <4>2, <5>1 DEF CanStop
        <5>3. old \in Own(Target)' /\ new \in Own(Target)'
          BY <1>2, <4>2, <5>1, <5>2 DEF Own, WithoutApp, Target, pubVars
        <5> QED
          BY <5>1, <5>3
      <4> QED
        BY <3>1, <4>1, <4>2
    <3> QED
      BY <3>3, <3>4
  <2>2. CASE WakeApp
    <3>1. \/ UNCHANGED hostVars
          \/ /\ lc.active \in Ops
             /\ containers' \in LaunchLeftovers(lc.app, lc.active, WakeSecret, FALSE)
             /\ \/ UNCHANGED <<retained, registry, orphan, orphans>>
                \/ LoseLaunch(lc.app, lc.active, WakeSecret, FALSE)
      <4>1. SandboxFree /\ lc.active \in retained => lc.active \in Ops
        BY <1>3 DEF HostsTypeOK
      <4> QED
        BY <2>2, <4>1 DEF WakeApp, LaunchLeftovers, LoseLaunch
    <3>2. WakeSecret \in Ops \cup {NoOp}
      BY <1>3, <1>4 DEF WakeSecret, DbTypeOK, AppRow
    <3>3. containers \subseteq containers'
      BY <3>1 DEF hostVars, LaunchLeftovers
    <3>4. SoundContainers(containers')
      <4>1. CASE containers' = containers
        BY <1>3, <4>1
      <4>2. CASE /\ lc.active \in Ops
                 /\ containers' \in LaunchLeftovers(lc.app, lc.active, WakeSecret, FALSE)
        BY <1>3, <1>4, <3>2, <4>2, LeftoversSound
      <4> QED
        BY <3>1, <4>1, <4>2 DEF hostVars
    <3>5. HostsInv'
      <4>1. UNCHANGED <<retained, registry>>
        BY <3>1 DEF hostVars, LoseLaunch
      <4>2. UNCHANGED <<orphan, orphans>> \/ (lc.active \in Ops /\ LoseLaunch(lc.app, lc.active, WakeSecret, FALSE))
        BY <3>1 DEF hostVars
      <4>3. orphan' \in SUBSET [app: Apps, release: Ops, secret: Ops \cup {NoOp}, candidate: BOOLEAN]
            /\ orphans' \in Nat
        <5>1. orphan \in SUBSET [app: Apps, release: Ops, secret: Ops \cup {NoOp}, candidate: BOOLEAN]
              /\ orphans \in Nat
          BY <1>3 DEF HostsTypeOK
        <5>2. CASE UNCHANGED <<orphan, orphans>>
          BY <5>1, <5>2
        <5>3. CASE lc.active \in Ops /\ LoseLaunch(lc.app, lc.active, WakeSecret, FALSE)
          BY <1>4, <3>2, <5>1, <5>3 DEF LoseLaunch
        <5> QED
          BY <4>2, <5>2, <5>3
      <4> QED
        BY <1>3, <3>4, <4>1, <4>3 DEF HostsInv, HostsTypeOK, SoundContainers
    <3>6. Own(Target) \subseteq Own(Target)' /\ pub' = pub
      BY <1>2, <3>3 DEF Own, Target, pubVars
    <3>7. Promotable'
      BY <3>6 DEF IInv, Promotable
    <3> QED
      BY <3>5, <3>7
  <2> QED
    BY <2>1, <2>2
<1> QED
  BY <1>2, <1>7, <1>8, OperationsAdvance, RequestsUntouched, PublisherUntouched DEF IInv

-----------------------------------------------------------------------------

\* Admission starts an operation only on an app that has none.
LEMMA AdmissionInv ==
  ASSUME IInv, Admission
  PROVE  IInv'
<1>1. PICK a \in Apps, o \in Ops, kind \in {"deploy", "secret-change"} :
        /\ ops[o].state = "none" /\ ops' = [ops EXCEPT ![o] = NewOp(a, kind)]
        /\ kind = "deploy" => Deploy(a)
        /\ kind = "secret-change" => \E action \in {"set", "remove"} : ChangeSecret(a, action)
  BY DEF Admission, Deploy, ChangeSecret, Fresh
<1>2. UNCHANGED <<exclusive, shared, hostVars, requests, pubVars, lcVars>>
  BY DEF Admission, Deploy, ChangeSecret
<1>3. HostsInv' /\ GwInv'
  BY <1>2, HostsUntouched, RequestsUntouched
<1>4. DbTypeOK
  BY DEF IInv, DbInv
<1>5. \A p \in Ops : p # o => ops'[p] = ops[p]
  BY <1>1, <1>4 DEF DbTypeOK
<1>6. ops'[o] = NewOp(a, kind) /\ NewOp(a, kind) \in OpRow
  BY <1>1, <1>4, ConstantsAssumption DEF DbTypeOK, NewOp, OpRow, Unsettled
<1>7. \A p \in Ops : Unfinished(p) => ops[p].app # a
  <2>1. CASE kind = "deploy"
    BY <1>1, <2>1 DEF Deploy, NoOperation, Pending, IInv, DbInv, Unfinished
  <2>2. CASE kind = "secret-change"
    BY <1>1, <2>2 DEF ChangeSecret, NoOperation, Pending
  <2> QED
    BY <2>1, <2>2
<1>8. OneOperationPerApp'
  <2>1. kind = "deploy" => \A p \in Ops : Unfinished(p) /\ ops[p].kind = "deploy"
                                            => Owner[ops[p].app] # Owner[a]
    BY <1>1 DEF Deploy, CreatorBuilds, IInv, DbInv, Unfinished
  <2> QED
    BY <1>5, <1>6, <1>7, <2>1 DEF IInv, OneOperationPerApp, Unfinished, NewOp
<1>9. DbInv'
  <2>1. /\ apps' \in [Apps -> AppRow] /\ apps'[a].exists
        /\ \A b \in Apps : apps[b].exists => apps'[b].exists
    <3> DEFINE Goal == /\ apps' \in [Apps -> AppRow] /\ apps'[a].exists
                       /\ \A b \in Apps : apps[b].exists => apps'[b].exists
    <3>0. apps[a] \in AppRow
      BY <1>4 DEF DbTypeOK
    <3>1. ASSUME Deploy(a) PROVE Goal
      <4> DEFINE row == [apps[a] EXCEPT !.exists = TRUE]
      <4>1. row \in AppRow /\ row.exists /\ apps' = [apps EXCEPT ![a] = row]
        BY <3>0, <3>1 DEF Deploy, AppRow
      <4> HIDE DEF row
      <4> QED
        BY <1>4, <4>1, AppRowChanges
    <3>2. ASSUME NEW action \in {"set", "remove"}, ChangeSecret(a, action) PROVE Goal
      <4>1. PICK value \in Ops \cup {NoOp} : apps' = Saved(a, value)
        BY <3>2 DEF ChangeSecret
      <4> DEFINE row == [apps[a] EXCEPT !.runtime = "stopping", !.target = NoPort, !.secret = value]
      <4>2. row \in AppRow /\ row.exists = apps[a].exists
        <5>1. "stopping" \in RuntimeStates /\ NoPort \in Ports \cup {NoPort}
          BY DEF RuntimeStates, Busy
        <5> QED
          BY <3>0, <5>1 DEF AppRow
      <4>3. apps[a].exists /\ apps' = [apps EXCEPT ![a] = row]
        BY <3>2, <4>1 DEF ChangeSecret, Saved
      <4> HIDE DEF row
      <4> QED
        BY <1>4, <4>2, <4>3, AppRowChanges
    <3> QED
      BY <1>1, <3>1, <3>2
  <2>2. retired' \in [Ops -> {"no", "held", "expiring"}]
    BY <1>1, <1>4 DEF Deploy, ChangeSecret, Retire, DbTypeOK
  <2>3. DbTypeOK'
    BY <1>1, <1>2, <1>4, <1>6, <2>1, <2>2 DEF DbTypeOK
  <2> QED
    BY <1>5, <1>6, <2>1, <2>3 DEF IInv, DbInv, NewOp
<1>10. PubInv'
  BY <1>1, <1>2, <1>5, PublisherUntouched DEF Unfinished
<1>11. LcInv'
  BY <1>1, <1>2, <1>5 DEF IInv, LcInv, lcVars, LcWorking, LifecycleTypeOK, SecretChange, Unfinished
<1>12. Promotable'
  BY <1>1, <1>2, <1>5 DEF IInv, PubInv, PubWorking, pubVars, hostVars, Promotable, Own, Target, Unfinished
<1> QED
  BY <1>3, <1>8, <1>9, <1>10, <1>11, <1>12 DEF IInv

\* A step that rewrites the rows of apps, and no operation, keeps the database's
\* part and the workers' parts.
LEMMA AppsChange ==
  ASSUME IInv, UNCHANGED <<ops, exclusive, pubVars, lcVars>>,
         retired' \in [Ops -> {"no", "held", "expiring"}],
         shared' \in [Requests -> Apps \cup {NoApp}],
         apps' \in [Apps -> AppRow], \A a \in Apps : apps[a].exists => apps'[a].exists
  PROVE  DbInv' /\ PubInv' /\ LcInv' /\ OneOperationPerApp'
<1>1. DbTypeOK' /\ Advances
  BY DEF IInv, DbInv, DbTypeOK, Advances, Unfinished
<1> QED
  BY <1>1, OperationsAdvance, PublisherUntouched, LifecycleUntouched

\* No request breaks the invariant.
LEMMA IngressInv ==
  ASSUME IInv, Ingress
  PROVE  IInv'
<1>1. UNCHANGED <<ops, retired, exclusive, hostVars, pubVars, lcVars>>
  BY DEF Ingress, GatewayStep, Enter, Route, Wake, Refuse, Connect, Unavailable, Finish,
         ServiceRestarts, Leave, dbVars
<1>2. DbTypeOK /\ GatewayTypeOK
  BY DEF IInv, DbInv, GwInv
<1>3. HostsInv' /\ Promotable'
  BY <1>1, HostsUntouched, PromotableUntouched DEF hostVars
<1>4. GwInv' /\ shared' \in [Requests -> Apps \cup {NoApp}]
  <2>1. CASE ServiceRestarts
    BY <1>2, <2>1 DEF ServiceRestarts, GwInv, GatewayTypeOK, Idle
  <2>2. ASSUME NEW r \in Requests, NEW a \in Apps, Enter(r, a)
        PROVE  GwInv' /\ shared' \in [Requests -> Apps \cup {NoApp}]
    BY <1>2, <2>2 DEF Enter, IInv, GwInv, GatewayTypeOK, DbTypeOK
  <2>3. ASSUME NEW r \in Requests, Route(r)
        PROVE  GwInv' /\ shared' \in [Requests -> Apps \cup {NoApp}]
    <3>1. apps[shared[r]].target \in Ports \cup {NoPort} /\ shared' = shared /\ shared[r] \in Apps
      BY <1>2, <2>3 DEF Route, dbVars, IInv, GwInv, DbTypeOK, AppRow
    <3> QED
      <4>1. requests' = [requests EXCEPT ![r].stage = "routed", ![r].port = apps[shared[r]].target]
        BY <2>3 DEF Route
      <4>2. GatewayTypeOK' /\ \A q \in Requests : q # r => requests'[q] = requests[q]
        <5>1. GatewayTypeOK'
          BY <1>2, <3>1, <4>1 DEF GatewayTypeOK
        <5>2. \A q \in Requests : q # r => requests'[q] = requests[q]
          BY <1>2, <4>1 DEF GatewayTypeOK
        <5> QED
          BY <5>1, <5>2
      <4> QED
        BY <1>2, <3>1, <4>2 DEF IInv, GwInv, DbTypeOK
  <2>4. ASSUME NEW r \in Requests, Connect(r)
        PROVE  GwInv' /\ shared' \in [Requests -> Apps \cup {NoApp}]
    <3>1. \A c \in containers : c.app \in Apps
      BY DEF IInv, HostsInv, SoundContainers, Container
    <3>2. shared' = shared /\ shared[r] \in Apps
      BY <2>4 DEF Connect, dbVars, IInv, GwInv
    <3>3. PICK c \in containers :
            requests' = [requests EXCEPT ![r].stage = "forwarded", ![r].reached = c.app]
      BY <2>4 DEF Connect
    <3>4. GatewayTypeOK'
      BY <1>2, <3>1, <3>3 DEF GatewayTypeOK
    <3>5. \A q \in Requests : q # r => requests'[q] = requests[q]
      BY <1>2, <3>3 DEF GatewayTypeOK
    <3> QED
      BY <1>2, <3>2, <3>4, <3>5 DEF IInv, GwInv, DbTypeOK
  <2>5. ASSUME NEW r \in Requests, Leave(r)
        PROVE  GwInv' /\ shared' \in [Requests -> Apps \cup {NoApp}]
    BY <1>2, <2>5 DEF Leave, Idle, IInv, GwInv, GatewayTypeOK, DbTypeOK
  <2> QED
    BY <2>1, <2>2, <2>3, <2>4, <2>5 DEF Ingress, GatewayStep, Wake, Refuse, Unavailable, Finish
<1>5. apps' \in [Apps -> AppRow] /\ \A a \in Apps : apps[a].exists => apps'[a].exists
  <2>1. CASE apps' = apps
    BY <1>2, <2>1 DEF DbTypeOK
  <2>2. CASE apps' # apps
    <3>1. PICK r \in Requests : Wake(r) \/ Finish(r)
      BY <2>2 DEF Ingress, GatewayStep, ServiceRestarts, Enter, Route, Refuse, Connect, Unavailable, dbVars
    <3>2. shared[r] \in Apps /\ apps[shared[r]] \in AppRow
      BY <1>2, <3>1 DEF Wake, Finish, IInv, GwInv, DbTypeOK
    <3> DEFINE row == IF Wake(r) THEN [apps[shared[r]] EXCEPT !.runtime = "queued"]
                      ELSE [apps[shared[r]] EXCEPT !.idle = FALSE]
    <3>3. row \in AppRow /\ row.exists = apps[shared[r]].exists
      BY <3>2 DEF AppRow, RuntimeStates, Busy
    <3>4. apps' = [apps EXCEPT ![shared[r]] = row]
      BY <3>1 DEF Wake, Finish
    <3> HIDE DEF row
    <3> QED
      BY <1>2, <3>2, <3>3, <3>4, AppRowChanges
  <2> QED
    BY <2>1, <2>2
<1> QED
  BY <1>1, <1>2, <1>3, <1>4, <1>5, AppsChange DEF IInv, DbTypeOK

\* Nothing in the platform's environment breaks the invariant.
LEMMA EnvironmentInv ==
  ASSUME IInv, Environment
  PROVE  IInv'
<1>1. UNCHANGED <<ops, exclusive, shared, requests, pubVars, lcVars>>
  BY DEF Environment, LoseAuthority, IdleElapses, ExpireRetired, AppExits, FinishOrphan, dbVars
<1>2. DbTypeOK /\ HostsTypeOK /\ SoundContainers(containers)
  BY DEF IInv, DbInv, HostsInv
<1>3. GwInv'
  BY <1>1, RequestsUntouched
<1>4. /\ retired' \in [Ops -> {"no", "held", "expiring"}]
      /\ apps' \in [Apps -> AppRow] /\ \A a \in Apps : apps[a].exists => apps'[a].exists
  <2>1. retired' \in [Ops -> {"no", "held", "expiring"}]
    BY <1>2 DEF Environment, LoseAuthority, IdleElapses, ExpireRetired, AppExits, FinishOrphan, dbVars, DbTypeOK
  <2>2. CASE apps' = apps
    BY <1>2, <2>1, <2>2 DEF DbTypeOK
  <2>3. CASE apps' # apps
    <3>1. PICK a \in Apps : LoseAuthority(a) \/ IdleElapses(a)
      BY <2>3 DEF Environment, ExpireRetired, AppExits, FinishOrphan, dbVars
    <3> DEFINE row == IF LoseAuthority(a) THEN [apps[a] EXCEPT !.authorized = FALSE]
                      ELSE [apps[a] EXCEPT !.idle = TRUE]
    <3>2. row \in AppRow /\ row.exists = apps[a].exists
      BY <1>2 DEF DbTypeOK, AppRow
    <3>3. apps' = [apps EXCEPT ![a] = row]
      BY <3>1 DEF LoseAuthority, IdleElapses
    <3> HIDE DEF row
    <3> QED
      BY <1>2, <2>1, <3>2, <3>3, AppRowChanges
  <2> QED
    BY <2>2, <2>3
<1>5. HostsInv' /\ Promotable'
  <2>1. CASE UNCHANGED hostVars
    BY <1>1, <2>1, HostsUntouched, PromotableUntouched DEF hostVars
  <2>2. CASE AppExits
    <3>1. PICK c \in containers :
            /\ containers' = (containers \ {c}) \cup {[c EXCEPT !.running = FALSE]}
            /\ UNCHANGED <<retained, registry, orphan, orphans>>
      BY <2>2 DEF AppExits
    <3>2. SoundContainers(containers')
      BY <1>2, <3>1, ExitedContainers
    <3>3. HostsInv'
      BY <1>2, <3>1, <3>2 DEF HostsInv, HostsTypeOK, SoundContainers
    <3> DEFINE n == [c EXCEPT !.running = FALSE]
    <3>4. n.app = c.app /\ n.role = c.role /\ n \in containers'
      BY <1>2, <3>1 DEF SoundContainers, Container
    <3> HIDE DEF n
    <3>5. \A d \in Own(Target) : \E e \in Own(Target)' : e.role = d.role
      BY <1>1, <3>1, <3>4 DEF Own, Target, pubVars
    <3>6. Promotable'
      BY <1>1, <3>5 DEF IInv, Promotable, pubVars
    <3> QED
      BY <3>3, <3>6
  <2>3. CASE FinishOrphan
    <3>1. PICK n \in orphan : containers' \in LaunchLeftovers(n.app, n.release, n.secret, n.candidate)
      BY <2>3 DEF FinishOrphan
    <3>2. /\ n.app \in Apps /\ n.release \in Ops
          /\ n.secret \in Ops \cup {NoOp} /\ n.candidate \in BOOLEAN
      BY <1>2 DEF HostsTypeOK
    <3>3. SoundContainers(containers')
      BY <1>2, <3>1, <3>2, LeftoversSound
    <3>4. HostsInv'
      BY <1>2, <2>3, <3>3 DEF HostsInv, HostsTypeOK, SoundContainers, FinishOrphan
    <3>5. Own(Target) \subseteq Own(Target)'
      BY <1>1, <3>1 DEF LaunchLeftovers, Own, Target, pubVars
    <3>6. Promotable'
      BY <1>1, <3>5 DEF IInv, Promotable, pubVars
    <3> QED
      BY <3>4, <3>6
  <2> QED
    BY <2>1, <2>2, <2>3 DEF Environment, LoseAuthority, IdleElapses, ExpireRetired
<1> QED
  BY <1>1, <1>2, <1>3, <1>4, <1>5, AppsChange DEF IInv, DbTypeOK

-----------------------------------------------------------------------------

\* Every step of the platform keeps the invariant.
LEMMA NextInv == IInv /\ [Next]_vars => IInv'
<1> SUFFICES ASSUME IInv, [Next]_vars PROVE IInv'
  OBVIOUS
<1>1. CASE Admission
  BY <1>1, AdmissionInv
<1>2. CASE Ingress
  BY <1>2, IngressInv
<1>3. CASE Publisher
  <2>1. publisherCrashes' \in Nat
    BY <1>3 DEF Publisher, PublisherStep, PublisherCrashes, IInv, PubInv, PublishingTypeOK
  <2> QED
    BY <1>3, <2>1, PublisherInDatabase, PublisherOnHosts
    DEF Publisher, PublisherStep, PublisherWork
<1>4. CASE Lifecycle
  <2>1. lifecycleCrashes' \in Nat
    BY <1>4 DEF Lifecycle, LifecycleStep, LifecycleCrashes, IInv, LcInv, LifecycleTypeOK
  <2> QED
    BY <1>4, <2>1, LifecycleInDatabase, LifecycleOnHosts
    DEF Lifecycle, LifecycleStep, LifecycleWork
<1>5. CASE Environment
  BY <1>5, EnvironmentInv
<1>6. CASE UNCHANGED vars
  <2>1. UNCHANGED <<hostVars, ops, exclusive, shared, retired, apps, requests, pubVars, lcVars>>
    BY <1>6 DEF vars, dbVars
  <2>2. HostsInv' /\ GwInv' /\ Promotable'
    BY <2>1, HostsUntouched, RequestsUntouched, PromotableUntouched DEF hostVars
  <2> QED
    BY <2>1, <2>2, AppsChange DEF IInv, DbInv, DbTypeOK
<1> QED
  BY <1>1, <1>2, <1>3, <1>4, <1>5, <1>6 DEF Next

\* The invariant holds in every state the platform reaches.
THEOREM Invariant == Spec => []IInv
BY InitInv, NextInv, PTL DEF Spec

\* Every variable keeps its declared shape: the rows of the database, the
\* containers, the inventories and the workers' local variables.
THEOREM TypeCorrect == Spec => []TypeOK
<1>1. IInv => TypeOK
  BY DEF IInv, DbInv, HostsInv, GwInv, PubInv, LcInv, TypeOK
<1> QED
  BY <1>1, Invariant, PTL

\* Publishing.deploy and Vault.change admit no second unfinished operation on
\* an app, nor a second unfinished build of a creator, however the workers,
\* their losses and their recoveries interleave.
THEOREM OneOperation == Spec => []OneOperationPerApp
<1>1. IInv => OneOperationPerApp
  BY DEF IInv
<1> QED
  BY <1>1, Invariant, PTL

\* sandbox.py's launch always finds a free network slot when it admits a
\* container, and no two containers share one, also after failed launches,
\* lost connections and interrupted promotions.
THEOREM SlotsSuffice == Spec => []SlotForEveryLaunch
<1>1. IInv => SlotForEveryLaunch
  BY SlotLeft DEF IInv, HostsInv, SoundContainers, SlotForEveryLaunch
<1> QED
  BY <1>1, Invariant, PTL

=============================================================================
