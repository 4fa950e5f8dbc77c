----------------------------- MODULE WorkersProofs -----------------------------
(***************************************************************************)
(* What the two workers may rely on, for every instance of Platform: what  *)
(* a row says of the operation on it, what the copies in the workers'      *)
(* hands say of the rows, and that no deployment is open on an app that a  *)
(* lifecycle operation has.  From WInv follow the separation of the        *)
(* workers, the marks that an interruption leaves, admission within the    *)
(* slots, the protection of requests in flight, the refinement of          *)
(* Publication, and, with what a changed value does to a sum, the month's  *)
(* allowance.                                                              *)
(***************************************************************************)
EXTENDS PlatformProofs, SumProofs

\* The publishing worker's stages before its row says that it is starting, ...
Building == {"build", "settle", "admit"}
\* ... until the switch, ...
Starting == {"prepare", "launch", "ready", "switch"}
\* ... after it, ...
Switched == {"promote", "promoted", "discard", "succeed"}
\* ... and those of a failure.
Undoing == {"undo", "forget", "record"}

\* The lifecycle worker has read its app's row and marked it.
LcActing == LcWorking /\ lc.stage # "begin"

\* Operation o is an open deployment of app a.
Deployment(a, o) == ops[o].app = a /\ ops[o].kind = "deploy" /\ Unfinished(o)

\* Rows that nothing has used yet.
FreshRows ==
  /\ \A a \in Apps : ~apps[a].exists =>
       /\ apps[a].runtime = "unavailable" /\ apps[a].target = NoPort
       /\ ~apps[a].container /\ apps[a].active = NoOp /\ apps[a].secret = NoOp
  /\ \A o \in Ops : ops[o].state = "none" =>
       ops[o].app = NoApp /\ ops[o].kind = "deploy" /\ ops[o].charge = 0

\* A running app has a route and a container; only a running app, or one that an
\* operation has, may have them.
RouteRows ==
  \A a \in Apps :
    /\ apps[a].runtime = "running" => apps[a].target # NoPort /\ apps[a].container
    /\ apps[a].target # NoPort \/ apps[a].container => apps[a].runtime \in Busy \cup {"running"}

\* A selected release is that of a deployment of the app which passed its switch.
SelectedRows ==
  \A a \in Apps : apps[a].active # NoOp =>
    LET o == apps[a].active
    IN ops[o].app = a /\ ops[o].kind = "deploy" /\ ops[o].state \in {"cleaning", "succeeded"}

\* No deployment is open on an app that a lifecycle operation has.
Apart == \A a \in Apps, o \in Ops : Deployment(a, o) => apps[a].runtime \notin Busy

\* The lifecycle worker holds the lock of its app, which no request shares.
Locked ==
  /\ LcWorking => exclusive = lc.app
  /\ exclusive # NoApp => \A r \in Requests : shared[r] # exclusive

\* The app it acts on has an operation until its row says how it ended.
LcHolds ==
  /\ LcActing => apps[lc.app].runtime \in Busy \/ lc.stage = "finish"
  /\ lc.stage \in {"ready", "commit"} => lc.port # NoPort

\* How far the publishing worker is, and how far its operation's row.
PubStarted ==
  LET state == ops[pub.op].state IN
  /\ pub.stage \in Building => state = "building" /\ ~pub.starting
  /\ pub.stage \in Starting => state = "starting" /\ pub.starting
  /\ pub.stage \in Switched => state = "cleaning" /\ pub.starting
  /\ pub.stage \in Undoing => /\ state \in {"building", "starting", "cleaning"}
                              /\ pub.starting <=> state # "building"
                              /\ state = "cleaning" => pub.stage = "record" /\ pub.reconcile
  /\ pub.reconcile => pub.stage = "record"

\* What the publishing worker read of its app is still so, until it selects its
\* release; then its release is the one that runs.
PubKnows ==
  IF ops[pub.op].state = "cleaning"
  THEN /\ apps[Target].active = pub.op /\ apps[Target].runtime = "running"
       /\ pub.stage = "promote" => apps[Target].target = pub.port
  ELSE /\ pub.previous = apps[Target].active
       /\ pub.container <=> apps[Target].runtime = "running"

\* The build is charged once it is settled, or the operator must decide.
PubCharged ==
  pub.stage \in {"build", "settle"} \/ pub.reconcile \/ ops[pub.op].charge # Unsettled

\* A worker that awaits readiness or switches has the new container's port.
PubPort == pub.stage \in {"ready", "switch", "promote"} => pub.port # NoPort

\* All that the publishing worker relies on while it has an operation.
PubHolds ==
  IF PubWorking THEN PubStarted /\ PubKnows /\ PubCharged /\ PubPort ELSE pub.op = NoOp

\* A deployment that ended was charged.
Charged == \A o \in Ops : ops[o].kind = "deploy" /\ ~Unfinished(o) => ops[o].charge # Unsettled

\* The invariant of the two workers.
WInv ==
  /\ FreshRows /\ RouteRows /\ SelectedRows /\ Apart /\ Locked /\ LcHolds
  /\ PubHolds /\ Charged /\ InterruptedNeedsOperator

-----------------------------------------------------------------------------

\* The platform starts in the invariant.
LEMMA WorkersInitially == Init => WInv
<1> SUFFICES ASSUME Init PROVE WInv
  OBVIOUS
<1> USE DEF Init, DbInit, PublishingInit, LifecycleInit
<1>1. FreshRows /\ RouteRows /\ SelectedRows /\ Apart
  BY DEF FreshRows, RouteRows, SelectedRows, Apart, Deployment, Unfinished
<1>2. Locked /\ LcHolds
  BY DEF Locked, LcHolds, LcActing, LcWorking, LcIdle
<1>3. PubHolds
  BY DEF PubHolds, PubWorking, PubIdle
<1>4. Charged /\ InterruptedNeedsOperator
  BY DEF Charged, InterruptedNeedsOperator, Unsettled
<1> QED
  BY <1>1, <1>2, <1>3, <1>4 DEF WInv

\* While the lifecycle worker acts on an app, no deployment is open on it.
LEMMA HandIsFree ==
  ASSUME IInv, WInv, LcActing
  PROVE  lc.app \in Apps /\ \A o \in Ops : ~Deployment(lc.app, o)
<1>1. lc.app \in Apps /\ (lc.stage = "finish" => SecretChange(lc.app, lc.op) /\ lc.op \in Ops)
  BY DEF IInv, LcInv, LcActing, LcWorking, LifecycleTypeOK
<1>2. CASE apps[lc.app].runtime \in Busy
  BY <1>1, <1>2 DEF WInv, Apart
<1>3. CASE lc.stage = "finish"
  BY <1>1, <1>3 DEF IInv, OneOperationPerApp, SecretChange, Deployment
<1> QED
  BY <1>1, <1>2, <1>3 DEF WInv, LcHolds

\* So the two workers never work on the same app.
LEMMA HandsApart ==
  ASSUME IInv, WInv, LcActing, PubWorking
  PROVE  Target # lc.app
<1>1. pub.op \in Ops /\ Deployment(Target, pub.op)
  BY DEF IInv, PubInv, Deployment, Target
<1> QED
  BY <1>1, HandIsFree

\* A step rewrites rows of apps, but none on which a deployment is open, and
\* selects no release.
RowsMove ==
  \A a \in Apps :
    /\ apps'[a].exists = apps[a].exists /\ apps'[a].active = apps[a].active
    /\ ~apps[a].exists => apps'[a] = apps[a]
    /\ \A o \in Ops : Deployment(a, o) =>
         apps'[a].runtime = apps[a].runtime /\ apps'[a].target = apps[a].target

\* Such a step leaves what the rows say of the deployments.
LEMMA RowsMoved ==
  ASSUME IInv, WInv, RowsMove, UNCHANGED <<ops, pub>>
  PROVE  FreshRows' /\ SelectedRows' /\ Apart' /\ PubHolds' /\ Charged' /\ InterruptedNeedsOperator'
<1>1. FreshRows'
  BY DEF WInv, FreshRows, RowsMove
<1>2. SelectedRows'
  BY DEF WInv, SelectedRows, RowsMove
<1>3. Apart'
  BY DEF WInv, Apart, Deployment, Unfinished, RowsMove
<1>4. Charged' /\ InterruptedNeedsOperator'
  BY DEF WInv, Charged, InterruptedNeedsOperator, Unfinished
<1>5. PubHolds'
  <2> SUFFICES ASSUME PubWorking PROVE PubHolds'
    BY DEF PubHolds, PubWorking, WInv
  <2>1. pub.op \in Ops /\ Target \in Apps /\ Deployment(Target, pub.op)
    BY DEF IInv, PubInv, DbInv, Deployment, Target, Unfinished
  <2>2. /\ Target' = Target /\ apps'[Target].active = apps[Target].active
        /\ apps'[Target].runtime = apps[Target].runtime /\ apps'[Target].target = apps[Target].target
    BY <2>1 DEF RowsMove, Target
  <2>3. PubStarted' /\ PubCharged' /\ PubPort' /\ PubWorking'
    BY DEF WInv, PubHolds, PubStarted, PubCharged, PubPort, PubWorking
  <2>4. PubKnows'
    BY <2>2 DEF WInv, PubHolds, PubKnows
  <2> QED
    BY <2>3, <2>4 DEF PubHolds
<1> QED
  BY <1>1, <1>2, <1>3, <1>4, <1>5

-----------------------------------------------------------------------------

\* The worker keeps its operation and what it read, and goes to one of the stages.
PubGoes(stages) ==
  /\ pub'.stage \in stages /\ (pub'.reconcile => pub'.stage = "record")
  /\ pub'.stage \in {"ready", "switch"} => pub'.port # NoPort
  /\ pub'.op = pub.op /\ (pub'.container <=> pub.container) /\ pub'.previous = pub.previous

\* The row of the worker's operation, after a step, fits the worker's new stage.
RowFits ==
  /\ ops'[pub.op].app = ops[pub.op].app /\ ops'[pub.op].kind = ops[pub.op].kind
  /\ PubStarted' /\ PubCharged'

\* A step in which the publishing worker changes its operation's row at most,
\* before the switch or after it.
LEMMA OperationGoesOn ==
  ASSUME IInv, WInv, PubWorking, PubGoes(Building \cup Starting \cup Switched \cup Undoing),
         RowFits, \A o \in Ops : o # pub.op => ops'[o] = ops[o],
         ops'[pub.op].state = "cleaning" <=> ops[pub.op].state = "cleaning",
         ops'[pub.op].state \in {"building", "starting", "cleaning"},
         pub'.stage # "promote",
         UNCHANGED <<exclusive, shared, lcVars>>,
         \A a \in Apps :
           /\ apps'[a].exists = apps[a].exists /\ apps'[a].runtime = apps[a].runtime
           /\ apps'[a].active = apps[a].active /\ apps'[a].target = apps[a].target
           /\ apps'[a].container = apps[a].container /\ apps'[a].secret = apps[a].secret
  PROVE  WInv'
<1>1. pub.op \in Ops /\ Target \in Apps /\ Deployment(Target, pub.op) /\ Target' = Target
  BY DEF IInv, PubInv, DbInv, Deployment, Target, Unfinished, PubGoes, RowFits
<1>2. \A o \in Ops : /\ ops'[o].app = ops[o].app /\ ops'[o].kind = ops[o].kind
                     /\ Unfinished(o)' <=> Unfinished(o)
                     /\ (ops'[o].state = "none" <=> ops[o].state = "none")
  BY <1>1 DEF RowFits, Deployment, Unfinished
<1>3. FreshRows' /\ RouteRows'
  BY <1>1, <1>2 DEF WInv, FreshRows, RouteRows, Deployment, Unfinished
<1>4. SelectedRows'
  <2>1. \A a \in Apps : apps[a].active \in Ops \cup {NoOp}
    BY DEF IInv, DbInv, DbTypeOK, AppRow
  <2> QED
    BY <1>1, <1>2, <2>1 DEF WInv, SelectedRows, Deployment, Unfinished
<1>5. Apart'
  BY <1>2 DEF WInv, Apart, Deployment
<1>6. Locked' /\ LcHolds'
  BY DEF WInv, Locked, LcHolds, LcActing, LcWorking, lcVars, IInv, LcInv
<1>7. Charged'
  BY <1>1, <1>2 DEF WInv, Charged, Deployment
<1>8. InterruptedNeedsOperator'
  BY DEF WInv, InterruptedNeedsOperator, PubGoes, PubWorking
<1>9. PubHolds'
  <2>1. PubKnows'
    BY <1>1 DEF WInv, PubHolds, PubKnows, PubGoes
  <2>2. PubPort' /\ PubWorking'
    BY DEF PubPort, PubGoes, PubWorking, Building, Starting, Switched, Undoing
  <2> QED
    BY <2>1, <2>2 DEF RowFits, PubHolds
<1> QED
  BY <1>3, <1>4, <1>5, <1>6, <1>7, <1>8, <1>9 DEF WInv

\* Every stage of an operation in hand.
All == Building \cup Starting \cup Switched \cup Undoing

\* What a step of the worker that leaves the database alone owes the invariant.
PubOwes ==
  /\ PubGoes(All) /\ (pub'.starting <=> pub.starting) /\ pub'.stage # "promote"
  /\ PubStarted' /\ PubCharged'

\* No step of the publishing worker on the hosts, or before the switch, breaks
\* the invariant.
LEMMA WorkGoesOn ==
  ASSUME IInv, WInv, IInv', UNCHANGED <<publisherCrashes, requests, lcVars>>,
         \/ Build \/ Settle \/ Admit \/ Prepare \/ Launch \/ Ready \/ Promote \/ Promoted
         \/ Discard \/ Undo \/ Forget
         \/ Switch /\ ~apps[Target].authorized
  PROVE  WInv'
<1> USE DEF At, Building, Starting, Switched, Undoing
<1>1. PublishingTypeOK /\ DbTypeOK /\ PubWorking
  BY DEF IInv, PubInv, DbInv, PubWorking, Build, Settle, Admit, Prepare, Launch, Ready, Switch,
         Promote, Promoted, Discard, Undo, Forget
<1>2. /\ pub.op \in Ops /\ Target \in Apps /\ ops[pub.op] \in OpRow
      /\ PubStarted /\ PubKnows /\ PubCharged /\ PubPort
  BY <1>1 DEF IInv, PubInv, DbInv, DbTypeOK, Deployment, Target, Unfinished, WInv, PubHolds
<1>3. ASSUME NEW reconcile \in BOOLEAN, Throw(reconcile)
      PROVE  /\ PubGoes({"undo", "record"}) /\ (pub'.starting <=> pub.starting)
             /\ (pub'.reconcile <=> reconcile) /\ (pub'.stage = "record" <=> reconcile)
  BY <1>1, <1>3 DEF Throw, PublishingTypeOK, PubGoes
<1>4. ASSUME NEW stage, pub' = [pub EXCEPT !.stage = stage], pub.stage # "record",
             stage \in {"ready", "switch"} => pub.stage = "ready"
      PROVE  /\ PubGoes({stage}) /\ (pub'.starting <=> pub.starting)
             /\ ~pub'.reconcile /\ pub'.stage = stage
  BY <1>1, <1>2, <1>4 DEF PublishingTypeOK, PubGoes, PubStarted, PubPort
<1>5. ASSUME UNCHANGED <<ops, exclusive, shared>>,
             apps' \in {apps, [apps EXCEPT ![Target].container = TRUE]},
             apps'[Target].container = apps[Target].container,
             PubOwes
      PROVE  WInv'
  <2>1. \A a \in Apps :
          /\ apps'[a].exists = apps[a].exists /\ apps'[a].runtime = apps[a].runtime
          /\ apps'[a].active = apps[a].active /\ apps'[a].target = apps[a].target
          /\ apps'[a].container = apps[a].container /\ apps'[a].secret = apps[a].secret
    BY <1>1, <1>5 DEF DbTypeOK, AppRow
  <2>2. ops[pub.op].state \in {"building", "starting", "cleaning"}
    BY <1>1, <1>2, <1>5 DEF PubStarted, PubGoes, PubOwes, All
  <2> QED
    BY <1>1, <1>5, <2>1, <2>2, OperationGoesOn DEF RowFits, PubOwes, All
<1>6. ASSUME NEW reconcile \in BOOLEAN, Throw(reconcile), ops'[pub.op] = ops[pub.op],
             pub.stage \notin {"build", "settle"},
             reconcile \/ pub.stage \in Starting \cup {"undo"}, pub.stage # "record"
      PROVE  PubOwes
  <2>1. ops'[pub'.op] = ops[pub.op] /\ pub'.op = pub.op
    BY <1>3, <1>6 DEF PubGoes
  <2>2. /\ pub'.stage \in {"undo", "record"} /\ (pub'.starting <=> pub.starting)
        /\ (pub'.reconcile <=> reconcile) /\ (pub'.stage = "record" <=> reconcile)
    BY <1>3, <1>6 DEF PubGoes
  <2>3. PubStarted'
    BY <1>1, <1>2, <1>6, <2>1, <2>2 DEF PubStarted, PubWorking, PublishingTypeOK, PubStages
  <2> QED
    BY <1>2, <1>3, <1>6, <2>1, <2>2, <2>3 DEF PubGoes, PubCharged, PubStarted, PubOwes, All
<1>7. ASSUME UNCHANGED dbVars,
             Build \/ Prepare \/ Launch \/ Ready \/ Promote \/ Discard \/ Undo \/ Forget
      PROVE  WInv'
  <2>1. UNCHANGED <<apps, ops, exclusive, shared>>
    BY <1>7 DEF dbVars
  <2>2. PubOwes
    <3>1. ASSUME NEW stage, pub' = [pub EXCEPT !.stage = stage], pub.stage # "record", stage # "promote",
                 stage \in {"ready", "switch"} => pub.stage = "ready",
                 \/ pub.stage \in Building /\ stage \in Building
                 \/ pub.stage \in Starting /\ stage \in Starting
                 \/ pub.stage \in Switched /\ stage \in Switched
                 \/ pub.stage \in Undoing /\ stage \in Undoing,
                 pub.stage \in {"build", "settle"} => stage \in {"build", "settle"}
          PROVE  PubOwes
      <4>1. ops'[pub'.op] = ops[pub.op] /\ pub'.op = pub.op
        BY <1>4, <2>1, <3>1 DEF PubGoes
      <4>2. pub'.stage = stage /\ (pub'.starting <=> pub.starting) /\ ~pub'.reconcile
        BY <1>4, <3>1 DEF PubGoes
      <4>3. PubStarted'
        BY <1>2, <3>1, <4>1, <4>2 DEF PubStarted
      <4> QED
        BY <1>2, <1>4, <3>1, <4>1, <4>2, <4>3 DEF PubGoes, PubCharged, PubStarted, PubOwes, All
    <3>2. pub.stage # "record" => ~pub.reconcile
      BY <1>2 DEF PubStarted
    <3>3. CASE Build
      <4>1. pub.stage = "build"
        BY <3>3 DEF Build
      <4>2. \/ pub' = [pub EXCEPT !.stage = "settle"]
            \/ pub' = [pub EXCEPT !.stage = "settle", !.error = TRUE]
        BY <3>3 DEF Build
      <4>3. /\ pub'.stage = "settle" /\ pub'.op = pub.op /\ (pub'.container <=> pub.container)
            /\ pub'.previous = pub.previous /\ (pub'.starting <=> pub.starting)
            /\ (pub'.reconcile <=> pub.reconcile)
        BY <1>1, <4>2 DEF PublishingTypeOK
      <4>4. ~pub'.reconcile /\ ops'[pub'.op].state = "building" /\ ~pub'.starting
        BY <1>2, <2>1, <3>2, <4>1, <4>3 DEF PubStarted
      <4>5. PubStarted'
        BY <4>3, <4>4 DEF PubStarted
      <4>6. PubCharged'
        BY <4>3 DEF PubCharged
      <4> QED
        BY <4>3, <4>4, <4>5, <4>6 DEF PubOwes, All, PubGoes
    <3>4. CASE Prepare
      <4>1. pub.stage = "prepare"
        BY <3>4 DEF Prepare
      <4>2. \/ pub' = [pub EXCEPT !.stage = "launch", !.secret = apps[Target].secret]
            \/ \E reconcile \in BOOLEAN : Throw(reconcile)
        BY <3>4 DEF Prepare
      <4>3. CASE pub' = [pub EXCEPT !.stage = "launch", !.secret = apps[Target].secret]
        <5>1. /\ pub'.stage = "launch" /\ pub'.op = pub.op /\ (pub'.container <=> pub.container)
              /\ pub'.previous = pub.previous /\ (pub'.starting <=> pub.starting)
              /\ (pub'.reconcile <=> pub.reconcile)
          BY <1>1, <4>3 DEF PublishingTypeOK
        <5>2. ~pub'.reconcile /\ ops'[pub'.op] = ops[pub.op]
          BY <2>1, <3>2, <4>1, <5>1
        <5>3. ops[pub.op].state = "starting" /\ pub.starting
          BY <1>2, <4>1 DEF PubStarted
        <5>4. ops[pub.op].charge # Unsettled
          BY <1>2, <3>2, <4>1 DEF PubCharged
        <5>5. PubStarted'
          BY <5>1, <5>2, <5>3 DEF PubStarted
        <5>6. PubCharged'
          BY <5>1, <5>2, <5>4 DEF PubCharged
        <5> QED
          BY <5>1, <5>2, <5>5, <5>6 DEF PubOwes, All, PubGoes
      <4>4. ASSUME NEW reconcile \in BOOLEAN, Throw(reconcile) PROVE PubOwes
        BY <1>6, <2>1, <4>1, <4>4
      <4> QED
        BY <4>2, <4>3, <4>4
    <3>5. CASE Launch
      <4>1. pub.stage = "launch"
        BY <3>5 DEF Launch
      <4>2. \/ \E reconcile \in BOOLEAN : Throw(reconcile)
            \/ \E port \in Ports : pub' = [pub EXCEPT !.stage = "ready", !.port = port]
        <5>1. LaunchAllowed(Target, pub.container) =>
                NewContainer(Target, pub.op, pub.secret, pub.container, TRUE).port \in Ports
          <6>1. pub.container \in BOOLEAN
            BY <1>1 DEF PublishingTypeOK
          <6> QED
            BY <1>2, <6>1, SlotLeft DEF IInv, HostsInv, NewContainer
        <5> QED
          BY <3>5, <5>1 DEF Launch
      <4>3. ASSUME NEW port \in Ports, pub' = [pub EXCEPT !.stage = "ready", !.port = port] PROVE PubOwes
        <5>1. /\ pub'.stage = "ready" /\ pub'.port # NoPort /\ pub'.op = pub.op
              /\ (pub'.container <=> pub.container)
              /\ pub'.previous = pub.previous /\ (pub'.starting <=> pub.starting)
              /\ (pub'.reconcile <=> pub.reconcile)
          BY <1>1, <4>3 DEF PublishingTypeOK, Ports, NoPort
        <5>2. ~pub'.reconcile /\ ops'[pub'.op] = ops[pub.op]
          BY <2>1, <3>2, <4>1, <5>1
        <5>3. ops[pub.op].state = "starting" /\ pub.starting
          BY <1>2, <4>1 DEF PubStarted
        <5>4. ops[pub.op].charge # Unsettled
          BY <1>2, <3>2, <4>1 DEF PubCharged
        <5>5. PubStarted'
          BY <5>1, <5>2, <5>3 DEF PubStarted
        <5>6. PubCharged'
          BY <5>1, <5>2, <5>4 DEF PubCharged
        <5> QED
          BY <5>1, <5>2, <5>5, <5>6 DEF PubOwes, All, PubGoes
      <4>4. ASSUME NEW reconcile \in BOOLEAN, Throw(reconcile) PROVE PubOwes
        BY <1>6, <2>1, <4>1, <4>4
      <4> QED
        BY <4>2, <4>3, <4>4
    <3>6. CASE Ready
      BY <1>6, <2>1, <3>1, <3>6 DEF Ready
    <3>7. CASE Promote
      BY <1>6, <2>1, <3>1, <3>7 DEF Promote
    <3>8. CASE Discard
      BY <1>6, <2>1, <3>1, <3>8 DEF Discard
    <3>9. CASE Undo
      BY <1>6, <2>1, <3>1, <3>9 DEF Undo
    <3>10. CASE Forget
      BY <1>6, <2>1, <3>1, <3>10 DEF Forget
    <3> QED
      BY <1>7, <3>3, <3>4, <3>5, <3>6, <3>7, <3>8, <3>9, <3>10
  <2> QED
    BY <1>5, <2>1, <2>2
<1>8. pub.stage # "record" => ~pub.reconcile
  BY <1>2 DEF PubStarted
<1>9. CASE Settle
  <2>1. /\ pub.stage = "settle" /\ ops[pub.op].state = "building" /\ ~pub.starting
        /\ UNCHANGED <<apps, exclusive, shared>>
    <3>1. pub.stage = "settle" /\ UNCHANGED <<apps, exclusive, shared>>
      BY <1>9 DEF Settle
    <3> QED
      BY <1>2, <3>1 DEF PubStarted
  <2>2. ASSUME NEW seconds \in Charges,
               ops' = [ops EXCEPT ![pub.op].charge = IF @ = Unsettled THEN seconds ELSE @],
               pub' = [pub EXCEPT !.stage = IF pub.error THEN "undo" ELSE "admit"]
        PROVE  WInv'
    <3>1. /\ ops'[pub.op].app = ops[pub.op].app /\ ops'[pub.op].kind = ops[pub.op].kind
          /\ ops'[pub.op].state = ops[pub.op].state /\ ops'[pub.op].charge # Unsettled
          /\ \A o \in Ops : o # pub.op => ops'[o] = ops[o]
      BY <1>1, <1>2, <2>2 DEF DbTypeOK, OpRow, Charges, Unsettled
    <3>2. pub'.op = pub.op /\ pub'.stage \in {"undo", "admit"} /\ (pub'.reconcile <=> pub.reconcile)
          /\ pub'.previous = pub.previous /\ (pub'.container <=> pub.container)
          /\ (pub'.starting <=> pub.starting)
      BY <1>1, <2>2 DEF PublishingTypeOK
    <3>3. PubStarted' /\ PubCharged'
      BY <1>8, <2>1, <3>1, <3>2 DEF PubStarted, PubCharged
    <3>4. PubGoes(All) /\ pub'.stage # "promote"
      BY <1>8, <2>1, <3>2 DEF PubGoes, All
    <3> QED
      BY <1>1, <2>1, <3>1, <3>3, <3>4, OperationGoesOn DEF RowFits, All
  <2>3. ASSUME Throw(TRUE), UNCHANGED ops
        PROVE  WInv'
    <3>1. /\ PubGoes({"undo", "record"}) /\ (pub'.starting <=> pub.starting)
          /\ pub'.reconcile /\ pub'.stage = "record"
      BY <1>3, <2>3
    <3>2. PubStarted' /\ PubCharged'
      BY <2>1, <2>3, <3>1 DEF PubStarted, PubCharged, PubGoes
    <3>3. PubOwes
      BY <3>1, <3>2 DEF PubOwes, PubGoes, All
    <3> QED
      BY <1>5, <2>1, <2>3, <3>3
  <2> QED
    BY <1>9, <2>2, <2>3 DEF Settle
<1>10. CASE Admit
  <2>1. /\ pub.stage = "admit" /\ ops[pub.op].state = "building" /\ ~pub.starting
        /\ ops[pub.op].charge # Unsettled /\ UNCHANGED <<apps, exclusive, shared>>
    <3>1. pub.stage = "admit" /\ UNCHANGED <<apps, exclusive, shared>>
      BY <1>10 DEF Admit
    <3> QED
      BY <1>2, <1>8, <3>1 DEF PubStarted, PubCharged
  <2>2. ASSUME ops' = [ops EXCEPT ![pub.op].state = "starting"],
               pub' = [pub EXCEPT !.stage = "prepare", !.starting = TRUE]
        PROVE  WInv'
    <3>1. /\ ops'[pub.op].app = ops[pub.op].app /\ ops'[pub.op].kind = ops[pub.op].kind
          /\ ops'[pub.op].state = "starting" /\ ops'[pub.op].charge = ops[pub.op].charge
          /\ \A o \in Ops : o # pub.op => ops'[o] = ops[o]
      BY <1>1, <1>2, <2>2 DEF DbTypeOK, OpRow
    <3>2. pub'.op = pub.op /\ pub'.stage = "prepare" /\ (pub'.reconcile <=> pub.reconcile)
          /\ pub'.previous = pub.previous /\ (pub'.container <=> pub.container) /\ pub'.starting
      BY <1>1, <2>2 DEF PublishingTypeOK
    <3>3. PubStarted' /\ PubCharged'
      BY <1>8, <2>1, <3>1, <3>2 DEF PubStarted, PubCharged
    <3>4. PubGoes(All) /\ pub'.stage # "promote"
      BY <1>8, <2>1, <3>2 DEF PubGoes, All
    <3> QED
      BY <1>1, <2>1, <3>1, <3>3, <3>4, OperationGoesOn DEF RowFits, All
  <2>3. ASSUME Throw(FALSE), UNCHANGED ops
        PROVE  WInv'
    <3>1. /\ PubGoes({"undo", "record"}) /\ (pub'.starting <=> pub.starting)
          /\ ~pub'.reconcile /\ pub'.stage = "undo"
      <4>1. (pub'.stage = "record" <=> FALSE) /\ (pub'.reconcile <=> FALSE)
            /\ PubGoes({"undo", "record"}) /\ (pub'.starting <=> pub.starting)
        BY <1>3, <2>3
      <4> QED
        BY <4>1 DEF PubGoes
    <3>2. PubStarted' /\ PubCharged'
      BY <2>1, <2>3, <3>1 DEF PubStarted, PubCharged, PubGoes
    <3>3. PubOwes
      BY <3>1, <3>2 DEF PubOwes, PubGoes, All
    <3> QED
      BY <1>5, <2>1, <2>3, <3>3
  <2> QED
    BY <1>10, <2>2, <2>3 DEF Admit
<1>11. CASE Switch /\ ~apps[Target].authorized
  <2>1. pub.stage = "switch" /\ Throw(FALSE) /\ UNCHANGED <<apps, ops, exclusive, shared>>
    BY <1>11 DEF Switch
  <2>2. PubOwes
    BY <1>6, <2>1
  <2> QED
    BY <1>5, <2>1, <2>2
<1>12. CASE Promoted
  <2>1. pub.stage = "promoted" /\ UNCHANGED <<ops, exclusive, shared>>
    BY <1>12 DEF Promoted
  <2>2. ops[pub.op].state = "cleaning" /\ apps[Target].runtime = "running" /\ pub.starting /\ ~pub.reconcile
    BY <1>2, <1>8, <2>1 DEF PubStarted, PubKnows
  <2>3. apps[Target].container
    BY <1>2, <2>2 DEF WInv, RouteRows
  <2>4. apps' = [apps EXCEPT ![Target].container = TRUE] /\ apps'[Target].container = apps[Target].container
    <3>1. apps' = [apps EXCEPT ![Target].container = TRUE]
      BY <1>12 DEF Promoted
    <3>2. apps[Target].container = TRUE
      BY <1>1, <1>2, <2>3 DEF DbTypeOK, AppRow
    <3> QED
      BY <1>1, <1>2, <3>1, <3>2 DEF DbTypeOK, AppRow
  <2>5. pub'.op = pub.op /\ pub'.stage = "discard" /\ (pub'.reconcile <=> pub.reconcile)
        /\ pub'.previous = pub.previous /\ (pub'.container <=> pub.container)
        /\ (pub'.starting <=> pub.starting)
    BY <1>1, <1>12 DEF Promoted, PublishingTypeOK
  <2>6. ops[pub.op].charge # Unsettled
    BY <1>2, <2>1, <2>2 DEF PubCharged
  <2>7. PubStarted' /\ PubCharged'
    BY <2>1, <2>2, <2>5, <2>6 DEF PubStarted, PubCharged
  <2>8. PubOwes
    BY <2>2, <2>5, <2>7 DEF PubOwes, PubGoes, All
  <2> QED
    BY <1>5, <2>1, <2>4, <2>8
<1> QED
  <2>1. UNCHANGED dbVars \/ Settle \/ Admit \/ Promoted \/ (Switch /\ ~apps[Target].authorized)
    BY DEF Build, Prepare, Launch, Ready, Promote, Discard, Undo, Forget
  <2> QED
    BY <1>7, <1>9, <1>10, <1>11, <1>12, <2>1


\* Steps in which operations advance without a change of app rows or locks.
LEMMA OperationsMoved ==
  ASSUME IInv, WInv, UNCHANGED <<apps, exclusive, shared, lcVars>>,
         \A o \in Ops : /\ ops'[o].app = ops[o].app /\ ops'[o].kind = ops[o].kind
                        /\ ops[o].state = "none" => ops'[o] = ops[o]
                        /\ ops'[o].state = "none" => ops[o].state = "none"
                        /\ Unfinished(o)' => Unfinished(o)
  PROVE  FreshRows' /\ RouteRows' /\ Apart' /\ Locked' /\ LcHolds'
<1>1. FreshRows' /\ RouteRows'
  BY DEF WInv, FreshRows, RouteRows
<1>2. Apart'
  BY DEF WInv, Apart, Deployment
<1>3. Locked' /\ LcHolds'
  BY DEF WInv, Locked, LcHolds, LcActing, LcWorking, lcVars
<1> QED
  BY <1>1, <1>2, <1>3

\* The worker without an operation.
LEMMA IdlePublisher ==
  ASSUME pub' = PubIdle \/ pub' = [PubIdle EXCEPT !.stage = "down"]
  PROVE  PubHolds'
BY DEF PubHolds, PubWorking, PubIdle

\* Claim: the row of the app is as the worker copies it.
LEMMA ClaimHolds ==
  ASSUME IInv, WInv, Claim, UNCHANGED <<publisherCrashes, requests, lcVars>>
  PROVE  WInv'
<1>1. DbTypeOK /\ pub.stage = "idle" /\ pub.op = NoOp
  BY DEF IInv, DbInv, WInv, PubHolds, PubWorking, Claim, At
<1>2. PICK o \in Ops :
        /\ ops[o].state = "accepted" /\ ops[o].kind = "deploy"
        /\ ops' = [ops EXCEPT ![o].state = "building"]
        /\ pub' = [PubIdle EXCEPT !.stage = "build", !.op = o,
                                  !.container = apps[ops[o].app].container,
                                  !.previous = apps[ops[o].app].active]
  BY DEF Claim, Accepted
<1>3. UNCHANGED <<apps, exclusive, shared>>
  BY DEF Claim
<1>4. ops[o].app \in Apps /\ Deployment(ops[o].app, o)
  BY <1>2 DEF IInv, DbInv, Deployment, Unfinished
<1>5. /\ ops'[o].app = ops[o].app /\ ops'[o].kind = ops[o].kind /\ ops'[o].state = "building"
      /\ ops'[o].charge = ops[o].charge
      /\ \A p \in Ops : p # o => ops'[p] = ops[p]
  BY <1>1, <1>2 DEF DbTypeOK, OpRow
<1>6. /\ pub'.stage = "build" /\ pub'.op = o /\ ~pub'.reconcile /\ ~pub'.starting
      /\ (pub'.container <=> apps[ops[o].app].container)
      /\ pub'.previous = apps[ops[o].app].active
  BY <1>2 DEF PubIdle
<1>7. FreshRows' /\ RouteRows' /\ Apart' /\ Locked' /\ LcHolds'
  BY <1>2, <1>3, <1>5, OperationsMoved DEF Unfinished
<1>8. SelectedRows'
  <2>1. \A a \in Apps : apps[a].active \in Ops \cup {NoOp}
    BY <1>1 DEF DbTypeOK, AppRow
  <2> QED
    BY <1>2, <1>3, <1>5, <2>1 DEF WInv, SelectedRows
<1>9. Charged' /\ InterruptedNeedsOperator'
  <2>1. Charged'
    BY <1>5 DEF WInv, Charged, Unfinished
  <2>2. InterruptedNeedsOperator'
    BY <1>1, <1>5, <1>6 DEF WInv, InterruptedNeedsOperator, Ops, NoOp
  <2> QED
    BY <2>1, <2>2
<1>10. PubHolds'
  <2>1. apps[ops[o].app].runtime = "running" <=> apps[ops[o].app].container
    BY <1>4 DEF WInv, RouteRows, Apart
  <2>2. PubStarted' /\ PubPort'
    BY <1>5, <1>6 DEF PubStarted, PubPort, Building, Starting, Switched, Undoing
  <2>3. PubKnows' /\ PubCharged'
    BY <1>3, <1>5, <1>6, <2>1 DEF PubKnows, PubCharged, Target
  <2>4. PubWorking'
    BY <1>6 DEF PubWorking
  <2> QED
    BY <2>2, <2>3, <2>4 DEF PubHolds
<1> QED
  BY <1>7, <1>8, <1>9, <1>10 DEF WInv

\* Switch: the release that was built becomes the one that runs.
LEMMA SwitchHolds ==
  ASSUME IInv, WInv, Switch, apps[Target].authorized,
         UNCHANGED <<publisherCrashes, requests, lcVars>>
  PROVE  WInv'
<1>1. /\ pub.stage = "switch" /\ apps' = SwitchedRow
      /\ ops' = [ops EXCEPT ![pub.op].state = "cleaning"]
      /\ pub' = [pub EXCEPT !.stage = "promote"]
      /\ UNCHANGED <<exclusive, shared>>
  BY DEF Switch, At
<1>2. PubWorking /\ PublishingTypeOK /\ DbTypeOK
  BY <1>1 DEF PubWorking, IInv, PubInv, DbInv
<1>3. /\ pub.op \in Ops /\ Target \in Apps /\ Deployment(Target, pub.op)
      /\ apps[Target].exists
  BY <1>2 DEF IInv, PubInv, DbInv, Deployment, Target, Unfinished
<1>4. /\ ops[pub.op].state = "starting" /\ pub.starting /\ ~pub.reconcile
      /\ ops[pub.op].charge # Unsettled /\ pub.port # NoPort
  BY <1>1, <1>2 DEF WInv, PubHolds, PubStarted, PubCharged, PubPort, Starting
<1>5. /\ ops'[pub.op].app = ops[pub.op].app /\ ops'[pub.op].kind = ops[pub.op].kind
      /\ ops'[pub.op].state = "cleaning" /\ ops'[pub.op].charge = ops[pub.op].charge
      /\ \A o \in Ops : o # pub.op => ops'[o] = ops[o]
  BY <1>1, <1>2, <1>3 DEF DbTypeOK, OpRow
<1>6. /\ pub'.stage = "promote" /\ pub'.op = pub.op /\ pub'.port = pub.port
      /\ (pub'.reconcile <=> pub.reconcile) /\ (pub'.starting <=> pub.starting)
  BY <1>1, <1>2 DEF PublishingTypeOK
<1>7. /\ apps'[Target].active = pub.op /\ apps'[Target].target = pub.port
      /\ apps'[Target].container /\ apps'[Target].runtime = "running"
      /\ apps'[Target].exists
      /\ \A a \in Apps : a # Target => apps'[a] = apps[a]
  BY <1>1, <1>2, <1>3 DEF SwitchedRow, DbTypeOK, AppRow
<1>8. FreshRows' /\ RouteRows'
  <2>1. FreshRows'
    <3>1. \A a \in Apps : ~apps'[a].exists => apps'[a] = apps[a] /\ ~apps[a].exists
      BY <1>7
    <3>2. \A o \in Ops : ops'[o].state = "none" => ops'[o] = ops[o] /\ ops[o].state = "none"
      BY <1>5
    <3> QED
      BY <3>1, <3>2 DEF WInv, FreshRows
  <2>2. RouteRows'
    <3> SUFFICES ASSUME NEW a \in Apps
                 PROVE  /\ apps'[a].runtime = "running" => apps'[a].target # NoPort /\ apps'[a].container
                        /\ apps'[a].target # NoPort \/ apps'[a].container =>
                             apps'[a].runtime \in Busy \cup {"running"}
      BY DEF RouteRows
    <3>1. CASE a = Target
      BY <1>4, <1>7, <3>1
    <3>2. CASE a # Target
      BY <1>7, <3>2 DEF WInv, RouteRows
    <3> QED
      BY <3>1, <3>2
  <2> QED
    BY <2>1, <2>2
<1>9. SelectedRows'
  <2>1. \A a \in Apps : apps[a].active \in Ops \cup {NoOp}
    BY <1>2 DEF DbTypeOK, AppRow
  <2>2. \A a \in Apps : apps[a].active # NoOp => apps[a].active # pub.op
    BY <1>4 DEF WInv, SelectedRows
  <2>3. ASSUME NEW a \in Apps, apps'[a].active # NoOp
        PROVE  LET o == apps'[a].active
               IN ops'[o].app = a /\ ops'[o].kind = "deploy" /\ ops'[o].state \in {"cleaning", "succeeded"}
    <3>1. CASE a = Target
      BY <1>3, <1>5, <1>7, <3>1 DEF Deployment
    <3>2. CASE a # Target
      BY <1>5, <1>7, <2>1, <2>2, <2>3, <3>2 DEF WInv, SelectedRows
    <3> QED
      BY <3>1, <3>2
  <2> QED
    BY <2>3 DEF SelectedRows
<1>10. Apart'
  <2>1. \A a \in Apps, o \in Ops : Deployment(a, o)' => Deployment(a, o)
    BY <1>3, <1>5 DEF Deployment, Unfinished
  <2> QED
    BY <1>7, <2>1 DEF WInv, Apart, Busy
<1>11. Locked' /\ LcHolds'
  <2>1. LcActing => lc.app \in Apps \ {Target}
    BY <1>2, HandsApart, HandIsFree
  <2>2. LcActing' = LcActing /\ lc' = lc
    BY DEF LcActing, LcWorking, lcVars
  <2>3. Locked'
    BY <1>1, <2>2 DEF WInv, Locked, LcWorking
  <2> QED
    BY <1>7, <2>1, <2>2, <2>3 DEF WInv, LcHolds
<1>12. Charged' /\ InterruptedNeedsOperator'
  BY <1>1, <1>4, <1>5, <1>6 DEF WInv, Charged, InterruptedNeedsOperator, Unfinished
<1>13. PubHolds'
  <2>1. PubStarted' /\ PubPort'
    BY <1>4, <1>5, <1>6 DEF PubStarted, PubPort, Building, Starting, Switched, Undoing
  <2>2. Target' = Target
    BY <1>5, <1>6 DEF Target
  <2>3. PubKnows' /\ PubCharged'
    BY <1>4, <1>5, <1>6, <1>7, <2>2 DEF PubKnows, PubCharged
  <2>4. PubWorking'
    BY <1>6 DEF PubWorking
  <2> QED
    BY <2>1, <2>3, <2>4 DEF PubHolds
<1> QED
  BY <1>8, <1>9, <1>10, <1>11, <1>12, <1>13 DEF WInv

\* Succeed, Record: the operation ends, or keeps what its release needs.
LEMMA EndingHolds ==
  ASSUME IInv, WInv, Succeed \/ Record, UNCHANGED <<publisherCrashes, requests, lcVars>>
  PROVE  WInv'
<1>1. /\ pub.stage \in {"succeed", "record"} /\ pub' = PubIdle
      /\ UNCHANGED <<apps, exclusive, shared>>
  BY DEF Succeed, Record, At
<1>2. PubWorking /\ PublishingTypeOK /\ DbTypeOK
  BY <1>1 DEF PubWorking, IInv, PubInv, DbInv
<1>3. pub.op \in Ops /\ Unfinished(pub.op) /\ ops[pub.op] \in OpRow
  BY <1>2 DEF IInv, PubInv, DbTypeOK
<1>4. /\ ops[pub.op].state \in {"building", "starting", "cleaning"}
      /\ ops[pub.op].state = "cleaning" => pub.stage = "succeed" \/ pub.reconcile
      /\ ops[pub.op].state # "building" => pub.starting
      /\ pub.stage = "succeed" => ops[pub.op].state = "cleaning" /\ ~pub.reconcile
      /\ pub.reconcile \/ ops[pub.op].charge # Unsettled
  BY <1>1, <1>2 DEF WInv, PubHolds, PubStarted, PubCharged, Switched, Undoing
<1>5. /\ ops'[pub.op].app = ops[pub.op].app /\ ops'[pub.op].kind = ops[pub.op].kind
      /\ ops'[pub.op].charge = ops[pub.op].charge
      /\ ops'[pub.op].state \in {"building", "cleaning", "succeeded", "failed"}
      /\ ops[pub.op].state = "cleaning" => ops'[pub.op].state \in {"cleaning", "succeeded"}
      /\ ops'[pub.op].state \in {"building", "cleaning"} => ops'[pub.op].reconcile
      /\ pub.reconcile <=> ops'[pub.op].state \in {"building", "cleaning"}
      /\ \A o \in Ops : o # pub.op => ops'[o] = ops[o]
  <2>1. CASE Succeed
    <3>1. ops' = [ops EXCEPT ![pub.op].state = "succeeded"]
      BY <2>1 DEF Succeed
    <3>2. ~pub.reconcile
      BY <1>4, <2>1 DEF Succeed, At
    <3> QED
      BY <1>2, <1>3, <3>1, <3>2 DEF DbTypeOK, OpRow
  <2>2. CASE Record
    <3>1. pub.stage = "record" /\ ops' = Recorded
      BY <2>2 DEF Record, At
    <3>2. /\ ops'[pub.op].app = ops[pub.op].app /\ ops'[pub.op].kind = ops[pub.op].kind
          /\ ops'[pub.op].charge = ops[pub.op].charge /\ (ops'[pub.op].reconcile <=> pub.reconcile)
          /\ ops'[pub.op].state = IF ~pub.reconcile THEN "failed"
                                  ELSE IF pub.starting THEN "cleaning" ELSE "building"
          /\ \A o \in Ops : o # pub.op => ops'[o] = ops[o]
      BY <1>2, <1>3, <3>1 DEF Recorded, DbTypeOK, OpRow, PublishingTypeOK
    <3> QED
      BY <1>4, <3>1, <3>2
  <2> QED
    BY <2>1, <2>2
<1>6. FreshRows' /\ RouteRows' /\ Apart' /\ Locked' /\ LcHolds'
  BY <1>1, <1>3, <1>4, <1>5, OperationsMoved DEF Unfinished
<1>7. SelectedRows'
  <2>1. \A a \in Apps : apps[a].active \in Ops \cup {NoOp}
    BY <1>2 DEF DbTypeOK, AppRow
  <2> QED
    BY <1>1, <1>3, <1>5, <2>1 DEF WInv, SelectedRows, Unfinished
<1>8. Charged'
  BY <1>4, <1>5 DEF WInv, Charged, Unfinished
<1>9. InterruptedNeedsOperator'
  BY <1>1, <1>5 DEF WInv, InterruptedNeedsOperator
<1>10. PubHolds'
  BY <1>1, IdlePublisher
<1> QED
  BY <1>6, <1>7, <1>8, <1>9, <1>10 DEF WInv

\* PublisherCrashes, PublisherRecovers: what was under way is marked.
LEMMA PublisherLossHolds ==
  ASSUME IInv, WInv, PublisherCrashes \/ PublisherRecovers, UNCHANGED <<requests, lcVars>>
  PROVE  WInv'
<1>1. UNCHANGED <<apps, exclusive, shared>>
  BY DEF PublisherCrashes, PublisherRecovers, dbVars
<1>2. DbTypeOK
  BY DEF IInv, DbInv
<1>3. /\ \A o \in Ops : /\ ops'[o].app = ops[o].app /\ ops'[o].kind = ops[o].kind
                        /\ ops'[o].state = ops[o].state /\ ops'[o].charge = ops[o].charge
                        /\ ops[o].state = "none" => ops'[o] = ops[o]
      /\ PublisherRecovers => InterruptedNeedsOperator'
  <2>1. CASE PublisherCrashes
    <3>1. ops' = ops /\ pub.stage # "down"
      BY <2>1 DEF PublisherCrashes, dbVars
    <3>2. ~PublisherRecovers
      BY <3>1 DEF PublisherRecovers
    <3> QED
      BY <3>1, <3>2
  <2>2. CASE PublisherRecovers
    <3>1. ops' = Interrupted
      BY <2>2 DEF PublisherRecovers
    <3>2. \A o \in Ops : /\ ops'[o].app = ops[o].app /\ ops'[o].kind = ops[o].kind
                         /\ ops'[o].state = ops[o].state /\ ops'[o].charge = ops[o].charge
                         /\ ops[o].state = "none" => ops'[o] = ops[o]
      BY <1>2, <3>1 DEF Interrupted, DbTypeOK, OpRow
    <3>3. InterruptedNeedsOperator'
      BY <1>2, <3>1 DEF Interrupted, DbTypeOK, OpRow, InterruptedNeedsOperator
    <3> QED
      BY <3>2, <3>3
  <2> QED
    BY <2>1, <2>2
<1>4. FreshRows' /\ RouteRows' /\ Apart' /\ Locked' /\ LcHolds'
  BY <1>1, <1>3, OperationsMoved DEF Unfinished
<1>5. SelectedRows' /\ Charged'
  <2>1. \A a \in Apps : apps[a].active \in Ops \cup {NoOp}
    BY <1>2 DEF DbTypeOK, AppRow
  <2> QED
    BY <1>1, <1>3, <2>1 DEF WInv, SelectedRows, Charged, Unfinished
<1>6. PubHolds' /\ InterruptedNeedsOperator'
  <2>1. CASE PublisherRecovers
    BY <1>3, <2>1, IdlePublisher DEF PublisherRecovers
  <2>2. CASE PublisherCrashes
    <3>1. pub' = [PubIdle EXCEPT !.stage = "down"]
      BY <2>2 DEF PublisherCrashes
    <3>2. pub'.stage = "down"
      BY <3>1 DEF PubIdle
    <3> QED
      BY <3>1, <3>2, IdlePublisher DEF InterruptedNeedsOperator
  <2> QED
    BY <2>1, <2>2
<1> QED
  BY <1>4, <1>5, <1>6 DEF WInv

\* No step of the publishing worker breaks the invariant.
LEMMA PublisherHolds ==
  ASSUME IInv, WInv, IInv', Publisher
  PROVE  WInv'
<1>1. CASE PublisherCrashes
  BY <1>1, PublisherLossHolds DEF Publisher
<1>2. CASE PublisherWork /\ UNCHANGED publisherCrashes
  <2>1. UNCHANGED <<publisherCrashes, requests, lcVars>>
    BY <1>2 DEF Publisher
  <2>2. CASE Claim
    BY <2>1, <2>2, ClaimHolds
  <2>3. CASE Switch /\ apps[Target].authorized
    BY <2>1, <2>3, SwitchHolds
  <2>4. CASE Succeed \/ Record
    BY <2>1, <2>4, EndingHolds
  <2>5. CASE PublisherRecovers
    BY <2>1, <2>5, PublisherLossHolds
  <2> QED
    BY <1>2, <2>1, <2>2, <2>3, <2>4, <2>5, WorkGoesOn DEF PublisherWork
<1> QED
  BY <1>1, <1>2 DEF Publisher, PublisherStep

-----------------------------------------------------------------------------

\* What a step of the lifecycle worker that keeps the operations owes the invariant.
LEMMA LifecycleMoved ==
  ASSUME IInv, WInv, RowsMove, UNCHANGED <<ops, pub>>, RouteRows', Locked', LcHolds'
  PROVE  WInv'
BY RowsMoved DEF WInv

\* Scan, ScanEnds, TryLock, Skip, Stop, WakeApp, ReadyApp, UndoApp, Expire and
\* LifecycleCrashes write no row of an app.
LEMMA NoRowHolds ==
  ASSUME IInv, WInv, UNCHANGED pubVars,
         \/ Scan \/ ScanEnds \/ Skip \/ Stop \/ WakeApp \/ ReadyApp \/ UndoApp \/ Expire
         \/ LifecycleCrashes \/ \E a \in Apps : TryLock(a)
  PROVE  WInv'
<1> USE DEF LcAt, LcGoto
<1>1. UNCHANGED <<apps, ops, shared, pub>>
  BY DEF Scan, ScanEnds, Skip, Stop, WakeApp, ReadyApp, UndoApp, Expire, LifecycleCrashes,
         TryLock, dbVars, pubVars
<1>2. RowsMove /\ RouteRows'
  BY <1>1 DEF RowsMove, WInv, RouteRows
<1>3. LifecycleTypeOK /\ Locked /\ LcHolds /\ HostsInv /\ (LcWorking => lc.app \in Apps)
  BY DEF IInv, LcInv, WInv
<1>4. Locked' /\ LcHolds'
  <2>1. CASE Scan \/ ScanEnds \/ Skip \/ LifecycleCrashes
    <3>1. lc'.stage \in {"scan", "idle", "down"} /\ exclusive' \in {exclusive, NoApp}
      <4>1. CASE Scan
        <5>1. exclusive' = exclusive /\ \E rows : lc' = [LcIdle EXCEPT !.stage = "scan", !.todo = rows]
          BY <4>1 DEF Scan, dbVars
        <5> QED
          BY SMTT(60), <5>1 DEF LcIdle
      <4>2. CASE ScanEnds
        BY <4>2 DEF ScanEnds, LcIdle, dbVars
      <4>3. CASE Skip
        BY <4>3 DEF Skip, LcIdle
      <4>4. CASE LifecycleCrashes
        BY <4>4 DEF LifecycleCrashes, LcIdle
      <4> QED
        BY <2>1, <4>1, <4>2, <4>3, <4>4
    <3> QED
      BY <1>1, <1>3, <3>1 DEF Locked, LcHolds, LcActing, LcWorking
  <2>2. ASSUME NEW a \in Apps, TryLock(a) PROVE Locked' /\ LcHolds'
    <3>1. \/ ~SharedLock(a) /\ exclusive' = a /\ lc' = [lc EXCEPT !.stage = "begin", !.app = a]
          \/ exclusive' = exclusive /\ lc' = [lc EXCEPT !.todo = @ \ {a}]
      BY <2>2 DEF TryLock, TakeLock
    <3>2. lc.stage = "scan"
      BY <2>2 DEF TryLock
    <3>3. CASE ~SharedLock(a) /\ exclusive' = a /\ lc' = [lc EXCEPT !.stage = "begin", !.app = a]
      <4>1. lc'.stage = "begin" /\ lc'.app = a
        BY <1>3, <3>3 DEF LifecycleTypeOK
      <4> QED
        BY <1>1, <3>3, <4>1 DEF Locked, LcHolds, LcActing, LcWorking, SharedLock
    <3>4. CASE exclusive' = exclusive /\ lc' = [lc EXCEPT !.todo = @ \ {a}]
      <4>1. lc'.stage = "scan"
        BY <1>3, <3>2, <3>4 DEF LifecycleTypeOK
      <4> QED
        BY <1>1, <1>3, <3>4, <4>1 DEF Locked, LcHolds, LcActing, LcWorking
    <3> QED
      BY <3>1, <3>3, <3>4
  <2>3. ASSUME exclusive' = exclusive, lc'.app = lc.app, LcWorking, lc.stage \notin {"begin", "finish"},
               lc'.stage \in {"stop", "retire", "ready", "stopped", "undo", "commit", "expire", "result"},
               lc'.stage \in {"ready", "commit"} => lc'.port # NoPort
        PROVE  Locked' /\ LcHolds'
    BY <1>1, <1>3, <2>3 DEF Locked, LcHolds, LcActing, LcWorking
  <2>4. CASE Stop
    <3>1. /\ lc.stage = "stop" /\ exclusive' = exclusive
          /\ \/ lc' = [lc EXCEPT !.stage = IF lc.op # NoOp THEN "retire" ELSE "stopped"]
             \/ lc' = [lc EXCEPT !.stage = "undo"]
      BY <2>4 DEF Stop, StopOutcome, dbVars
    <3>2. lc'.app = lc.app /\ lc'.stage \in {"retire", "stopped", "undo"}
      BY <1>3, <3>1 DEF LifecycleTypeOK
    <3> QED
      BY <2>3, <3>1, <3>2 DEF LcWorking
  <2>5. CASE WakeApp
    <3>1. lc.stage = "wake" /\ exclusive' = exclusive /\ lc.app \in Apps
      BY <1>3, <2>5 DEF WakeApp, dbVars, LcWorking
    <3>2. LaunchAllowed(lc.app, FALSE) =>
            NewContainer(lc.app, lc.active, WakeSecret, FALSE, TRUE).port \in Ports
      BY <1>3, <3>1, SlotLeft DEF HostsInv, NewContainer
    <3>3. \/ lc' = [lc EXCEPT !.stage = "undo"]
          \/ \E port \in Ports : lc' = [lc EXCEPT !.stage = "ready", !.port = port]
      BY <2>5, <3>2 DEF WakeApp
    <3>4. /\ lc'.app = lc.app /\ lc'.stage \in {"undo", "ready"}
          /\ lc'.stage = "ready" => lc'.port # NoPort
      <4>1. NoPort \notin Ports
        BY DEF Ports, NoPort
      <4>2. CASE lc' = [lc EXCEPT !.stage = "undo"]
        BY <1>3, <4>2 DEF LifecycleTypeOK
      <4>3. ASSUME NEW port \in Ports, lc' = [lc EXCEPT !.stage = "ready", !.port = port]
            PROVE  lc'.app = lc.app /\ lc'.stage = "ready" /\ lc'.port = port
        BY <1>3, <4>3 DEF LifecycleTypeOK
      <4> QED
        BY <3>3, <4>1, <4>2, <4>3
    <3> QED
      BY <2>3, <3>1, <3>4 DEF LcWorking
  <2>6. CASE ReadyApp
    <3>1. /\ lc.stage = "ready" /\ exclusive' = exclusive
          /\ \/ lc' = [lc EXCEPT !.stage = "commit"]
             \/ lc' = [lc EXCEPT !.stage = "undo"]
      BY <2>6 DEF ReadyApp, dbVars
    <3>2. lc'.app = lc.app /\ lc'.stage \in {"commit", "undo"} /\ lc'.port = lc.port
      BY <1>3, <3>1 DEF LifecycleTypeOK
    <3>3. lc.port # NoPort
      BY <1>3, <3>1 DEF LcHolds
    <3> QED
      BY <2>3, <3>1, <3>2, <3>3 DEF LcWorking
  <2>7. CASE UndoApp
    <3>1. /\ lc.stage = "undo" /\ exclusive' = exclusive
          /\ \/ lc' = [lc EXCEPT !.stage = IF lc.op # NoOp THEN "expire" ELSE "result",
                        !.result = IF lc.queued \/ lc.op # NoOp THEN "failed" ELSE "stopped"]
             \/ lc' = [lc EXCEPT !.stage = "result", !.result = UndoFailed]
      BY <2>7 DEF UndoApp, StopOutcome, dbVars
    <3>2. lc'.app = lc.app /\ lc'.stage \in {"expire", "result"}
      BY <1>3, <3>1 DEF LifecycleTypeOK
    <3> QED
      BY <2>3, <3>1, <3>2 DEF LcWorking
  <2>8. CASE Expire
    <3>1. lc.stage = "expire" /\ exclusive' = exclusive /\ lc' = [lc EXCEPT !.stage = "result"]
      BY <2>8 DEF Expire
    <3>2. lc'.app = lc.app /\ lc'.stage = "result"
      BY <1>3, <3>1 DEF LifecycleTypeOK
    <3> QED
      BY <2>3, <3>1, <3>2 DEF LcWorking
  <2> QED
    BY <2>1, <2>2, <2>4, <2>5, <2>6, <2>7, <2>8
<1> QED
  BY <1>1, <1>2, <1>4, LifecycleMoved

\* Begin, Commit, Stopped and Result write the row of the app in hand.
LEMMA RowInHandHolds ==
  ASSUME IInv, WInv, UNCHANGED pubVars, Begin \/ Commit \/ Stopped \/ Result
  PROVE  WInv'
<1> USE DEF LcAt, LcGoto
<1>1. UNCHANGED <<ops, shared, pub>>
  BY DEF Begin, Commit, Stopped, Result, pubVars
<1>2. LifecycleTypeOK /\ DbTypeOK /\ Locked /\ LcHolds /\ LcWorking /\ lc.app \in Apps
  <2>1. LcWorking
    BY DEF LcWorking, Begin, Commit, Stopped, Result
  <2> QED
    BY <2>1 DEF IInv, DbInv, LcInv, WInv
<1>3. ASSUME \A a \in Apps : a # lc.app => apps'[a] = apps[a],
             apps'[lc.app].exists <=> apps[lc.app].exists, apps'[lc.app].active = apps[lc.app].active,
             apps[lc.app].exists,
             \/ UNCHANGED apps
             \/ \A o \in Ops : ~Deployment(lc.app, o),
             apps'[lc.app].runtime = "running" => apps'[lc.app].target # NoPort /\ apps'[lc.app].container,
             apps'[lc.app].target # NoPort \/ apps'[lc.app].container =>
               apps'[lc.app].runtime \in Busy \cup {"running"},
             exclusive' \in {exclusive, NoApp}, ~LcWorking' \/ (lc'.app = lc.app /\ exclusive' = exclusive),
             lc'.stage \notin {"ready", "commit"},
             LcActing' => lc'.stage = "finish" \/ apps'[lc.app].runtime \in Busy
      PROVE  WInv'
  <2>1. RouteRows'
    BY <1>2, <1>3 DEF WInv, RouteRows
  <2>2. RowsMove
    BY ZenonT(60), <1>2, <1>3 DEF RowsMove, DbTypeOK, AppRow
  <2>3. Locked'
    BY <1>1, <1>2, <1>3 DEF Locked
  <2>4. LcHolds'
    BY <1>1, <1>2, <1>3 DEF LcHolds, LcActing
  <2> QED
    BY <1>1, <2>1, <2>2, <2>3, <2>4, LifecycleMoved
<1>4. CASE Begin
  <2> DEFINE state == apps[lc.app].runtime
             next == IF state = "queued" THEN "starting"
                     ELSE IF state = "running" THEN "stopping" ELSE state
  <2>1. /\ HasWork(lc.app) /\ exclusive' = exclusive
        /\ apps' = [apps EXCEPT ![lc.app].runtime = next]
        /\ \E op, active, queued :
             lc' = [lc EXCEPT !.op = op, !.active = active, !.queued = queued,
                              !.stage = IF op # NoOp \/ state # "queued" THEN "stop" ELSE "wake"]
    BY <1>4 DEF Begin
  <2>2. lc'.app = lc.app /\ lc'.stage \in {"stop", "wake"}
    BY <1>2, <2>1 DEF LifecycleTypeOK
  <2>3. /\ state \in {"queued", "stopping", "cleaning", "running"}
        /\ state = "running" => ~Pending(lc.app)
    BY <2>1 DEF HasWork, IdleStoppable
  <2>4. apps[lc.app].exists
    BY <1>2, <2>3 DEF WInv, FreshRows
  <2>5. \A o \in Ops : ~Deployment(lc.app, o)
    BY <1>2, <2>3 DEF WInv, Apart, Busy, Deployment, Pending
  <2>6. next \in Busy /\ next # "running"
    BY <2>3 DEF Busy
  <2> HIDE DEF state, next
  <2>7. /\ apps'[lc.app].exists = apps[lc.app].exists /\ apps'[lc.app].active = apps[lc.app].active
        /\ apps'[lc.app].runtime = next
        /\ \A a \in Apps : a # lc.app => apps'[a] = apps[a]
    BY <1>2, <2>1 DEF DbTypeOK, AppRow
  <2> QED
    BY <1>3, <2>1, <2>2, <2>4, <2>5, <2>6, <2>7
<1>5. CASE Commit
  <2>1. LcActing /\ lc.stage = "commit"
    BY <1>5 DEF Commit, LcActing, LcWorking
  <2>2. /\ apps[lc.app].runtime \in Busy /\ lc.port # NoPort
        /\ \A o \in Ops : ~Deployment(lc.app, o)
    BY <1>2, <2>1, HandIsFree DEF LcHolds
  <2>3. apps[lc.app].exists
    BY <1>2, <2>2 DEF WInv, FreshRows, Busy
  <2>4. CASE apps[lc.app].authorized
    <3>1. apps' = [apps EXCEPT ![lc.app].runtime = "running", ![lc.app].target = lc.port,
                               ![lc.app].container = TRUE, ![lc.app].idle = FALSE]
      BY <1>5, <2>4 DEF Commit
    <3>2. /\ apps'[lc.app].exists = apps[lc.app].exists /\ apps'[lc.app].active = apps[lc.app].active
          /\ apps'[lc.app].runtime = "running" /\ apps'[lc.app].target = lc.port /\ apps'[lc.app].container
          /\ \A a \in Apps : a # lc.app => apps'[a] = apps[a]
      BY <1>2, <3>1 DEF DbTypeOK, AppRow
    <3>3. \/ lc' = [lc EXCEPT !.stage = "finish"] /\ exclusive' = exclusive
          \/ lc' = LcIdle /\ exclusive' = NoApp
      BY <1>5, <2>4 DEF Commit, LcDone
    <3>4. /\ exclusive' \in {exclusive, NoApp} /\ lc'.stage \in {"idle", "finish"}
          /\ lc'.stage = "finish" => lc'.app = lc.app /\ exclusive' = exclusive
      BY <1>2, <3>3 DEF LifecycleTypeOK, LcIdle
    <3> QED
      BY <1>3, <2>2, <2>3, <3>2, <3>4 DEF LcActing, LcWorking
  <2>5. CASE ~apps[lc.app].authorized
    <3>1. lc' = [lc EXCEPT !.stage = "undo"] /\ UNCHANGED <<apps, exclusive>>
      BY <1>5, <2>5 DEF Commit
    <3>2. lc'.stage = "undo" /\ lc'.app = lc.app
      BY <1>2, <3>1 DEF LifecycleTypeOK
    <3>3. RouteRows
      BY DEF WInv
    <3> QED
      BY <1>2, <1>3, <2>2, <2>3, <3>1, <3>2, <3>3 DEF RouteRows
  <2> QED
    BY <2>4, <2>5
<1>6. CASE Stopped \/ Result
  <2>1. LcActing /\ lc.stage \in {"stopped", "result"}
    BY <1>6 DEF Stopped, Result, LcActing, LcWorking
  <2>2. apps[lc.app].runtime \in Busy /\ \A o \in Ops : ~Deployment(lc.app, o)
    BY <1>2, <2>1, HandIsFree DEF LcHolds
  <2>3. apps[lc.app].exists
    BY <1>2, <2>2 DEF WInv, FreshRows, Busy
  <2>4. \E result \in {"stopped", "failed", "blocked"} : apps' = WithRuntime(result)
    BY <1>2, <1>6 DEF Stopped, Result, LifecycleTypeOK
  <2>5. /\ apps'[lc.app].exists = apps[lc.app].exists /\ apps'[lc.app].active = apps[lc.app].active
        /\ apps'[lc.app].runtime # "running" /\ apps'[lc.app].target = NoPort /\ ~apps'[lc.app].container
        /\ \A a \in Apps : a # lc.app => apps'[a] = apps[a]
    BY <1>2, <2>4 DEF WithRuntime, DbTypeOK, AppRow
  <2>6. \/ lc' = [lc EXCEPT !.stage = "finish"] /\ exclusive' = exclusive
        \/ lc' = LcIdle /\ exclusive' = NoApp
    BY <1>6 DEF Stopped, Result, LcDone
  <2>7. /\ exclusive' \in {exclusive, NoApp} /\ lc'.stage \in {"idle", "finish"}
        /\ lc'.stage = "finish" => lc'.app = lc.app /\ exclusive' = exclusive
    BY <1>2, <2>6 DEF LifecycleTypeOK, LcIdle
  <2> QED
    BY <1>3, <2>2, <2>3, <2>5, <2>7 DEF LcActing, LcWorking
<1> QED
  BY <1>4, <1>5, <1>6

\* RetireSecrets and FinishSecret advance the secret change in hand.
LEMMA SecretInHandHolds ==
  ASSUME IInv, WInv, UNCHANGED pubVars, RetireSecrets \/ FinishSecret
  PROVE  WInv'
<1> USE DEF LcAt
<1>1. UNCHANGED <<apps, shared, pub>> /\ lc.stage \in {"retire", "finish"}
  BY DEF RetireSecrets, FinishSecret, pubVars
<1>2. /\ LifecycleTypeOK /\ DbTypeOK /\ Locked /\ LcHolds /\ LcWorking /\ lc.app \in Apps
      /\ lc.op \in Ops /\ SecretChange(lc.app, lc.op)
  BY <1>1 DEF IInv, DbInv, LcInv, WInv, LcWorking, LifecycleTypeOK
<1>3. /\ ops'[lc.op].app = ops[lc.op].app /\ ops'[lc.op].kind = ops[lc.op].kind
      /\ ops'[lc.op].state # "none"
      /\ \A o \in Ops : o # lc.op => ops'[o] = ops[o]
  <2>1. \E state \in {"starting", "cleaning", "succeeded", "failed"} :
          ops' = [ops EXCEPT ![lc.op].state = state]
    BY DEF RetireSecrets, FinishSecret
  <2> QED
    BY <1>2, <2>1 DEF DbTypeOK, OpRow
<1>4. \A o \in Ops : ops[o].kind = "deploy" \/ ops'[o].kind = "deploy" => ops'[o] = ops[o] /\ o # lc.op
  BY <1>2, <1>3 DEF SecretChange
<1>5. FreshRows' /\ RouteRows'
  BY <1>1, <1>2, <1>3 DEF WInv, FreshRows, RouteRows
<1>6. SelectedRows'
  <2>1. \A a \in Apps : apps[a].active \in Ops \cup {NoOp}
    BY <1>2 DEF DbTypeOK, AppRow
  <2> QED
    BY <1>1, <1>4, <2>1 DEF WInv, SelectedRows
<1>7. Apart' /\ Charged'
  BY <1>1, <1>4 DEF WInv, Apart, Charged, Deployment, Unfinished
<1>8. InterruptedNeedsOperator'
  BY <1>1, <1>4 DEF WInv, InterruptedNeedsOperator
<1>9. PubHolds'
  <2>1. PubWorking => ops'[pub.op] = ops[pub.op]
    BY <1>4 DEF IInv, PubInv
  <2> QED
    BY <1>1, <2>1 DEF WInv, PubHolds, PubWorking, PubStarted, PubKnows, PubCharged, PubPort, Target
<1>10. Locked' /\ LcHolds'
  <2>1. CASE RetireSecrets
    <3>1. /\ lc' = [lc EXCEPT !.stage = "wake", !.queued = TRUE] /\ exclusive' = exclusive
          /\ lc.stage = "retire"
      BY <2>1 DEF RetireSecrets
    <3>2. lc'.stage = "wake" /\ lc'.app = lc.app
      BY <1>2, <3>1 DEF LifecycleTypeOK
    <3> QED
      BY <1>1, <1>2, <3>1, <3>2 DEF Locked, LcHolds, LcActing, LcWorking
  <2>2. CASE FinishSecret
    <3>1. lc'.stage = "idle" /\ exclusive' = NoApp
      BY <2>2 DEF FinishSecret, LcDone, LcIdle
    <3> QED
      BY <3>1 DEF Locked, LcHolds, LcActing, LcWorking
  <2> QED
    BY <2>1, <2>2
<1> QED
  BY <1>5, <1>6, <1>7, <1>8, <1>9, <1>10 DEF WInv

\* The two transactions of recover take no app on which a deployment is open.
LEMMA RecoveryHolds ==
  ASSUME IInv, WInv, UNCHANGED pubVars, LifecycleRecovery
  PROVE  WInv'
<1>1. /\ UNCHANGED <<ops, shared, pub, exclusive>> /\ lc'.stage \in {"recovering", "idle"}
      /\ LifecycleTypeOK /\ DbTypeOK
  BY DEF LifecycleRecovery, RecoverSecretChanges, RecoverStarts, LcAt, LcGoto, LcIdle, pubVars,
         IInv, LcInv, LifecycleTypeOK, DbInv
<1>2. ASSUME NEW a \in Apps
      PROVE  \/ apps'[a] = apps[a]
             \/ /\ apps[a].exists
                /\ \A o \in Ops : ~Deployment(a, o)
                /\ \E state \in {"stopping", "cleaning"} : apps'[a] = [apps[a] EXCEPT !.runtime = state]
  <2>1. CASE RecoverSecretChanges
    <3>1. apps'[a] = Resumed(a)
      BY <2>1 DEF RecoverSecretChanges
    <3>2. CASE \E o \in Ops : SecretChange(a, o)
      <4>1. PICK o \in Ops : SecretChange(a, o)
        BY <3>2
      <4>2. apps[a].exists /\ \A p \in Ops : ~Deployment(a, p)
        BY <4>1 DEF IInv, DbInv, OneOperationPerApp, SecretChange, Deployment, Unfinished
      <4> QED
        BY <3>1, <3>2, <4>2 DEF Resumed
    <3>3. CASE ~\E o \in Ops : SecretChange(a, o)
      BY <3>1, <3>3 DEF Resumed
    <3> QED
      BY <3>2, <3>3
  <2>2. CASE RecoverStarts
    <3>1. apps'[a] = Recovered(apps[a])
      BY <2>2 DEF RecoverStarts
    <3>2. CASE apps[a].runtime \in {"starting", "blocked"}
      <4>1. apps[a].exists /\ \A o \in Ops : ~Deployment(a, o)
        BY <3>2 DEF WInv, FreshRows, Apart, Busy
      <4> QED
        BY <3>1, <3>2, <4>1 DEF Recovered
    <3>3. CASE apps[a].runtime \notin {"starting", "blocked"}
      BY <3>1, <3>3 DEF Recovered
    <3> QED
      BY <3>2, <3>3
  <2> QED
    BY <2>1, <2>2 DEF LifecycleRecovery
<1>3. ASSUME NEW a \in Apps
      PROVE  /\ apps'[a].exists = apps[a].exists /\ apps'[a].active = apps[a].active
             /\ apps'[a].target = apps[a].target /\ (apps'[a].container <=> apps[a].container)
             /\ \/ apps'[a] = apps[a]
                \/ apps[a].exists /\ apps'[a].runtime \in Busy /\ apps'[a].runtime # "running"
                   /\ \A o \in Ops : ~Deployment(a, o)
  <2>1. apps[a] \in AppRow
    BY <1>1 DEF DbTypeOK
  <2>2. CASE apps'[a] = apps[a]
    BY <2>2
  <2>3. ASSUME NEW state \in {"stopping", "cleaning"}, apps'[a] = [apps[a] EXCEPT !.runtime = state]
        PROVE  /\ apps'[a].exists = apps[a].exists /\ apps'[a].active = apps[a].active
               /\ apps'[a].target = apps[a].target /\ (apps'[a].container <=> apps[a].container)
               /\ apps'[a].runtime \in Busy /\ apps'[a].runtime # "running"
    BY <2>1, <2>3 DEF AppRow, Busy
  <2> QED
    BY <1>2, <2>2, <2>3
<1>4. RowsMove
  BY <1>3 DEF RowsMove
<1>5. RouteRows'
  BY <1>3 DEF WInv, RouteRows
<1>6. Locked' /\ LcHolds'
  BY <1>1 DEF WInv, Locked, LcHolds, LcActing, LcWorking
<1> QED
  BY <1>1, <1>4, <1>5, <1>6, LifecycleMoved

\* No step of the lifecycle worker breaks the invariant.
LEMMA LifecycleHolds ==
  ASSUME IInv, WInv, Lifecycle
  PROVE  WInv'
<1>1. UNCHANGED pubVars
  BY DEF Lifecycle
<1> QED
  BY <1>1, NoRowHolds, RowInHandHolds, SecretInHandHolds, RecoveryHolds
  DEF Lifecycle, LifecycleStep, LifecycleWork

-----------------------------------------------------------------------------

\* No admission breaks the invariant: neither a deployment nor a secret change is
\* admitted on an app that either worker has.
LEMMA AdmissionHolds ==
  ASSUME IInv, WInv, Admission
  PROVE  WInv'
<1>1. UNCHANGED <<exclusive, shared, pub, lc>> /\ DbTypeOK
  BY DEF Admission, Deploy, ChangeSecret, pubVars, lcVars, IInv, DbInv
<1>2. PICK a \in Apps, o \in Ops, kind \in {"deploy", "secret-change"} :
        /\ ops[o].state = "none" /\ ops' = [ops EXCEPT ![o] = NewOp(a, kind)]
        /\ apps[a].exists => NoOperation(a)
        /\ kind = "deploy" => apps' = [apps EXCEPT ![a].exists = TRUE]
        /\ kind = "secret-change" => apps[a].exists /\ \E value : apps' = Saved(a, value)
  <2>1. PICK a \in Apps : Deploy(a) \/ \E action \in {"set", "remove"} : ChangeSecret(a, action)
    BY DEF Admission
  <2>2. CASE Deploy(a)
    BY <2>2 DEF Deploy, Fresh
  <2>3. ASSUME NEW action, ChangeSecret(a, action)
        PROVE  \E o \in Ops :
                 /\ ops[o].state = "none" /\ ops' = [ops EXCEPT ![o] = NewOp(a, "secret-change")]
                 /\ apps[a].exists /\ NoOperation(a) /\ \E value : apps' = Saved(a, value)
    BY <2>3 DEF ChangeSecret, Fresh
  <2> QED
    BY <2>1, <2>2, <2>3
<1>3. /\ ops'[o].app = a /\ ops'[o].kind = kind /\ ops'[o].state = "accepted"
      /\ kind = "deploy" => ops'[o].charge = Unsettled
      /\ \A p \in Ops : p # o => ops'[p] = ops[p]
  BY <1>1, <1>2 DEF DbTypeOK, NewOp
<1>4. /\ apps'[a].exists /\ apps'[a].active = apps[a].active
      /\ (apps'[a].container <=> apps[a].container)
      /\ kind = "deploy" => /\ apps'[a].runtime = apps[a].runtime /\ apps'[a].target = apps[a].target
      /\ kind = "secret-change" => apps'[a].runtime = "stopping"
      /\ \A b \in Apps : b # a => apps'[b] = apps[b]
  <2>1. CASE kind = "deploy"
    BY <1>1, <1>2, <2>1 DEF DbTypeOK, AppRow
  <2>2. CASE kind = "secret-change"
    BY <1>1, <1>2, <2>2 DEF DbTypeOK, AppRow, Saved
  <2> QED
    BY <2>1, <2>2
<1>5. apps[a].runtime \notin Busy /\ \A p \in Ops : ~(ops[p].app = a /\ Unfinished(p))
  <2>1. CASE apps[a].exists
    BY <1>2, <2>1 DEF NoOperation, Pending
  <2>2. CASE ~apps[a].exists
    BY <2>2 DEF WInv, FreshRows, Busy, IInv, DbInv, Unfinished
  <2> QED
    BY <2>1, <2>2
<1>6. FreshRows'
  <2>1. \A b \in Apps : ~apps'[b].exists => apps'[b] = apps[b] /\ ~apps[b].exists
    BY <1>4
  <2>2. \A p \in Ops : ops'[p].state = "none" => ops'[p] = ops[p] /\ ops[p].state = "none"
    BY <1>3
  <2> QED
    BY <2>1, <2>2 DEF WInv, FreshRows
<1>7. RouteRows'
  <2> SUFFICES ASSUME NEW b \in Apps
               PROVE  /\ apps'[b].runtime = "running" => apps'[b].target # NoPort /\ apps'[b].container
                      /\ apps'[b].target # NoPort \/ apps'[b].container =>
                           apps'[b].runtime \in Busy \cup {"running"}
    BY DEF RouteRows
  <2>1. CASE b # a
    BY <1>4, <2>1 DEF WInv, RouteRows
  <2>2. CASE b = a /\ kind = "deploy"
    BY <1>4, <2>2 DEF WInv, RouteRows
  <2>3. CASE b = a /\ kind = "secret-change"
    BY <1>4, <2>3 DEF Busy
  <2> QED
    BY <2>1, <2>2, <2>3
<1>8. SelectedRows'
  <2>1. \A b \in Apps : apps[b].active \in Ops \cup {NoOp} /\ apps'[b].active = apps[b].active
    BY <1>1, <1>4 DEF DbTypeOK, AppRow
  <2> QED
    BY <1>2, <1>3, <2>1 DEF WInv, SelectedRows
<1>9. Apart'
  <2> SUFFICES ASSUME NEW b \in Apps, NEW p \in Ops, Deployment(b, p)'
               PROVE  apps'[b].runtime \notin Busy
    BY DEF Apart
  <2>1. CASE p = o
    BY <1>3, <1>4, <1>5, <2>1 DEF Deployment
  <2>2. CASE p # o
    <3>1. Deployment(b, p)
      BY <1>3, <2>2 DEF Deployment, Unfinished
    <3>2. b # a
      BY <1>5, <3>1 DEF Deployment
    <3> QED
      BY <1>4, <3>1, <3>2 DEF WInv, Apart
  <2> QED
    BY <2>1, <2>2
<1>10. Locked' /\ LcHolds'
  <2>1. LcActing => lc.app # a
    <3> SUFFICES ASSUME LcActing, lc.app = a PROVE FALSE
      OBVIOUS
    <3>1. lc.stage = "finish"
      BY <1>5 DEF WInv, LcHolds
    <3>2. SecretChange(lc.app, lc.op) /\ lc.op \in Ops
      BY <3>1 DEF LcActing, IInv, LcInv, LifecycleTypeOK
    <3> QED
      BY <1>5, <3>2 DEF SecretChange
  <2>2. LcActing => lc.app \in Apps
    BY DEF LcActing, IInv, LcInv
  <2>3. Locked'
    BY <1>1 DEF WInv, Locked, LcWorking
  <2>4. LcHolds'
    BY <1>1, <1>4, <2>1, <2>2 DEF WInv, LcHolds, LcActing, LcWorking
  <2> QED
    BY <2>3, <2>4
<1>11. Charged' /\ InterruptedNeedsOperator'
  <2>1. Charged'
    BY <1>3 DEF WInv, Charged, Unfinished
  <2>2. InterruptedNeedsOperator'
    BY <1>1, <1>3 DEF WInv, InterruptedNeedsOperator
  <2> QED
    BY <2>1, <2>2
<1>12. PubHolds'
  <2>1. CASE PubWorking
    <3>1. pub.op \in Ops /\ Target \in Apps /\ Deployment(Target, pub.op)
      BY <2>1 DEF IInv, PubInv, DbInv, Deployment, Target, Unfinished
    <3>2. pub.op # o /\ Target # a
      BY <1>2, <1>5, <3>1 DEF Deployment, Unfinished
    <3>3. ops'[pub.op] = ops[pub.op] /\ Target' = Target /\ apps'[Target] = apps[Target]
      BY <1>1, <1>3, <1>4, <3>1, <3>2 DEF Target
    <3> QED
      BY <1>1, <2>1, <3>3 DEF WInv, PubHolds, PubWorking, PubStarted, PubKnows, PubCharged, PubPort
  <2>2. CASE ~PubWorking
    BY <1>1, <2>2 DEF WInv, PubHolds, PubWorking
  <2> QED
    BY <2>1, <2>2
<1> QED
  BY <1>6, <1>7, <1>8, <1>9, <1>10, <1>11, <1>12 DEF WInv

\* Rows change at most in authorized and idle, or from a stop to the queue: the
\* workers' part stands.
LEMMA OthersMoved ==
  ASSUME IInv, WInv, UNCHANGED <<ops, pub, lc, exclusive>>,
         \A r \in Requests : shared'[r] \in {shared[r], NoApp} \/ shared'[r] # exclusive,
         \A a \in Apps :
           /\ apps'[a].exists = apps[a].exists /\ apps'[a].active = apps[a].active
           /\ apps'[a].target = apps[a].target /\ (apps'[a].container <=> apps[a].container)
           /\ apps'[a].secret = apps[a].secret
           /\ \/ apps'[a].runtime = apps[a].runtime
              \/ apps[a].exists /\ apps'[a].runtime = "queued" /\ ~Pending(a)
                 /\ apps[a].runtime \notin Busy
  PROVE  WInv'
<1>1. \A a \in Apps : Pending(a) \/ \A o \in Ops : ~Deployment(a, o)
  BY DEF Pending, Deployment
<1>2. FreshRows' /\ SelectedRows' /\ Charged' /\ InterruptedNeedsOperator'
  BY DEF WInv, FreshRows, SelectedRows, Charged, InterruptedNeedsOperator, Unfinished
<1>3. RouteRows'
  BY DEF WInv, RouteRows, Busy
<1>4. Apart'
  BY <1>1 DEF WInv, Apart, Deployment, Unfinished
<1>5. Locked'
  BY DEF WInv, Locked, LcWorking
<1>6. LcHolds'
  <2>1. LcActing => lc.app \in Apps
    BY DEF IInv, LcInv, LcActing
  <2> QED
    BY <2>1 DEF WInv, LcHolds, LcActing, LcWorking, Busy
<1>7. PubHolds'
  <2>1. CASE PubWorking
    <3>1. Target \in Apps /\ Target' = Target /\ Pending(Target)
      BY <2>1 DEF IInv, PubInv, DbInv, Target, Unfinished, Pending
    <3>2. apps'[Target].runtime = apps[Target].runtime
      BY <3>1
    <3> QED
      BY <2>1, <3>1, <3>2 DEF WInv, PubHolds, PubWorking, PubStarted, PubKnows, PubCharged, PubPort
  <2>2. CASE ~PubWorking
    BY <2>2 DEF WInv, PubHolds, PubWorking
  <2> QED
    BY <2>1, <2>2
<1> QED
  BY <1>2, <1>3, <1>4, <1>5, <1>6, <1>7 DEF WInv

\* No request breaks the invariant: a lock that is shared is not the worker's.
LEMMA IngressHolds ==
  ASSUME IInv, WInv, Ingress
  PROVE  WInv'
<1>1. UNCHANGED <<ops, exclusive, pub, lc>> /\ DbTypeOK
  BY DEF Ingress, GatewayStep, Enter, Route, Wake, Refuse, Connect, Unavailable, Finish,
         ServiceRestarts, Leave, dbVars, pubVars, lcVars, IInv, DbInv
<1>2. \A r \in Requests : shared'[r] \in {shared[r], NoApp} \/ shared'[r] # exclusive
  <2>1. CASE ServiceRestarts
    BY <2>1 DEF ServiceRestarts
  <2>2. ASSUME NEW q \in Requests, NEW a \in Apps, Enter(q, a)
        PROVE  \A r \in Requests : shared'[r] \in {shared[r], NoApp} \/ shared'[r] # exclusive
    BY <1>1, <2>2 DEF Enter, DbTypeOK
  <2>3. ASSUME NEW q \in Requests, Leave(q)
        PROVE  \A r \in Requests : shared'[r] \in {shared[r], NoApp} \/ shared'[r] # exclusive
    BY <1>1, <2>3 DEF Leave, DbTypeOK
  <2>4. CASE shared' = shared
    BY <2>4
  <2> QED
    BY <2>1, <2>2, <2>3, <2>4
    DEF Ingress, GatewayStep, Route, Connect, Wake, Refuse, Unavailable, Finish, dbVars
<1>3. ASSUME NEW a \in Apps
      PROVE  /\ apps'[a].exists = apps[a].exists /\ apps'[a].active = apps[a].active
             /\ apps'[a].target = apps[a].target /\ (apps'[a].container <=> apps[a].container)
             /\ apps'[a].secret = apps[a].secret
             /\ \/ apps'[a].runtime = apps[a].runtime
                \/ apps[a].exists /\ apps'[a].runtime = "queued" /\ ~Pending(a)
                   /\ apps[a].runtime \notin Busy
  <2>1. CASE apps'[a] = apps[a]
    BY <2>1
  <2>2. CASE apps'[a] # apps[a]
    <3>1. apps' # apps
      BY <2>2
    <3>2. PICK r \in Requests : Wake(r) \/ Finish(r)
      BY <3>1 DEF Ingress, GatewayStep, ServiceRestarts, Enter, Route, Refuse, Connect, Unavailable, dbVars
    <3>3. shared[r] \in Apps /\ apps \in [Apps -> AppRow]
      BY <1>1, <3>2 DEF Wake, Finish, IInv, GwInv, DbTypeOK
    <3>4. CASE Wake(r)
      <4>1. /\ apps' = [apps EXCEPT ![shared[r]].runtime = "queued"]
            /\ apps[shared[r]].runtime \in {"stopped", "failed"} /\ ~Pending(shared[r])
        BY <3>4 DEF Wake, Wakeable
      <4>2. a = shared[r]
        BY <2>2, <3>3, <4>1
      <4>3. apps'[a] = [apps[a] EXCEPT !.runtime = "queued"]
        BY <3>3, <4>1, <4>2
      <4>4. apps[a].exists /\ apps[a].runtime \notin Busy /\ ~Pending(a)
        BY <4>1, <4>2 DEF WInv, FreshRows, Busy
      <4> QED
        BY <3>3, <4>3, <4>4 DEF AppRow
    <3>5. CASE Finish(r)
      <4>1. apps' = [apps EXCEPT ![shared[r]].idle = FALSE]
        BY <3>5 DEF Finish
      <4>2. a = shared[r]
        BY <2>2, <3>3, <4>1
      <4>3. apps'[a] = [apps[a] EXCEPT !.idle = FALSE]
        BY <3>3, <4>1, <4>2
      <4> QED
        BY <3>3, <4>3 DEF AppRow
    <3> QED
      BY <3>2, <3>4, <3>5
  <2> QED
    BY <2>1, <2>2
<1> QED
  BY <1>1, <1>2, <1>3, OthersMoved

\* Nothing in the environment breaks the invariant.
LEMMA EnvironmentHolds ==
  ASSUME IInv, WInv, Environment
  PROVE  WInv'
<1>1. UNCHANGED <<ops, exclusive, shared, pub, lc>> /\ apps \in [Apps -> AppRow]
  BY DEF Environment, LoseAuthority, IdleElapses, ExpireRetired, AppExits, FinishOrphan, dbVars,
         pubVars, lcVars, IInv, DbInv, DbTypeOK
<1>2. \/ apps' = apps
      \/ \E a \in Apps : \/ apps' = [apps EXCEPT ![a].authorized = FALSE]
                         \/ apps' = [apps EXCEPT ![a].idle = TRUE]
  BY DEF Environment, LoseAuthority, IdleElapses, ExpireRetired, AppExits, FinishOrphan, dbVars
<1>3. ASSUME NEW a \in Apps
      PROVE  /\ apps'[a].exists = apps[a].exists /\ apps'[a].active = apps[a].active
             /\ apps'[a].target = apps[a].target /\ (apps'[a].container <=> apps[a].container)
             /\ apps'[a].secret = apps[a].secret /\ apps'[a].runtime = apps[a].runtime
  BY <1>1, <1>2 DEF AppRow
<1> QED
  BY <1>1, <1>3, OthersMoved

-----------------------------------------------------------------------------

\* Every step of the platform keeps the invariant.
LEMMA NextWorkers == IInv /\ WInv /\ IInv' /\ [Next]_vars => WInv'
<1> SUFFICES ASSUME IInv, WInv, IInv', [Next]_vars PROVE WInv'
  OBVIOUS
<1>1. CASE UNCHANGED vars
  <2>1. UNCHANGED <<apps, ops, shared, exclusive, pub, lc>>
    BY <1>1 DEF vars, dbVars, pubVars, lcVars
  <2> QED
    BY <2>1, OthersMoved
<1> QED
  BY <1>1, AdmissionHolds, IngressHolds, PublisherHolds, LifecycleHolds, EnvironmentHolds DEF Next

\* What the workers rely on holds in every state the platform reaches.
THEOREM WorkersInvariant == Spec => []WInv
BY WorkersInitially, NextWorkers, Invariant, PTL DEF Spec

\* "Deployment and lifecycle operations on the same app cannot overlap": while the
\* lifecycle worker acts on an app, the publishing worker's app is another.
THEOREM WorkersApart == Spec => []NoOverlap
<1>1. IInv /\ WInv => NoOverlap
  <2> SUFFICES ASSUME IInv, WInv, pub.op # NoOp,
                      lc.stage \notin {"down", "recovering", "idle", "scan", "begin"}
               PROVE  Target # lc.app
    BY DEF NoOverlap
  <2>1. PubWorking
    BY DEF WInv, PubHolds
  <2>2. LcActing
    BY DEF LcActing, LcWorking
  <2> QED
    BY <2>1, <2>2, HandsApart
<1> QED
  BY <1>1, Invariant, WorkersInvariant, PTL

\* worker.py's recover marks every deployment that was under way, and no other
\* step leaves one without a process and without a mark.
THEOREM InterruptionsMarked == Spec => []InterruptedNeedsOperator
<1>1. WInv => InterruptedNeedsOperator
  BY DEF WInv
<1> QED
  BY <1>1, WorkersInvariant, PTL

-----------------------------------------------------------------------------

\* A step gives at most one app a reservation, and only one that it may have.
ReservesOne ==
  \/ \A b \in Apps : Reserved(b)' => Reserved(b)
  \/ \E a \in Apps : CanReserve(a) /\ \A b \in Apps : Reserved(b)' => Reserved(b) \/ b = a

\* Steps of the publishing worker: only Admit takes a reservation.
LEMMA PublisherReserves ==
  ASSUME IInv, WInv, Publisher
  PROVE  ReservesOne
<1> USE DEF At
<1>1. DbTypeOK /\ PublishingTypeOK
  BY DEF IInv, DbInv, PubInv
<1>2. ASSUME NEW o \in Ops, apps' = apps,
             \A p \in Ops : ops'[p].app = ops[p].app /\ (p # o => ops'[p].state = ops[p].state),
             ops'[o].state \in {"starting", "cleaning"} =>
               ops[o].state \in {"starting", "cleaning"} \/ CanReserve(ops[o].app)
      PROVE  ReservesOne
  <2>1. CASE ops'[o].state \in {"starting", "cleaning"} => ops[o].state \in {"starting", "cleaning"}
    BY <1>2, <2>1 DEF ReservesOne, Reserved
  <2>2. CASE CanReserve(ops[o].app) /\ ops[o].app \in Apps
    BY <1>2, <2>2 DEF ReservesOne, Reserved
  <2>3. CASE ops[o].app \notin Apps
    BY <1>2, <2>3 DEF ReservesOne, Reserved
  <2> QED
    BY <1>2, <2>1, <2>2, <2>3
<1>3. CASE UNCHANGED <<apps, ops>>
  BY <1>3 DEF ReservesOne, Reserved
<1>4. CASE Claim
  <2>1. PICK o \in Ops : ops' = [ops EXCEPT ![o].state = "building"] /\ apps' = apps
    BY <1>4 DEF Claim
  <2>2. /\ \A p \in Ops : ops'[p].app = ops[p].app /\ (p # o => ops'[p].state = ops[p].state)
        /\ ops'[o].state = "building"
    BY <1>1, <2>1 DEF DbTypeOK, OpRow
  <2> QED
    BY <1>2, <2>1, <2>2
<1>5. PubWorking => pub.op \in Ops /\ Target \in Apps
  BY DEF IInv, PubInv, DbInv, Target, Unfinished
<1>6. CASE Settle
  <2>1. apps' = apps /\ \E charge : ops' \in {ops, [ops EXCEPT ![pub.op].charge = charge]}
    BY <1>6 DEF Settle
  <2>2. \A o \in Ops : ops'[o].app = ops[o].app /\ ops'[o].state = ops[o].state
    BY <1>1, <2>1 DEF DbTypeOK, OpRow
  <2>3. pub.op \in Ops
    BY <1>5, <1>6 DEF Settle, PubWorking
  <2> QED
    BY <1>2, <2>1, <2>2, <2>3
<1>7. CASE Admit
  <2>1. /\ apps' = apps /\ pub.op \in Ops
        /\ \/ CanReserve(Target) /\ ops' = [ops EXCEPT ![pub.op].state = "starting"]
           \/ ops' = ops
    BY <1>5, <1>7 DEF Admit, PubWorking
  <2>2. CASE ops' = ops
    BY <1>3, <2>1, <2>2
  <2>3. CASE CanReserve(Target) /\ ops' = [ops EXCEPT ![pub.op].state = "starting"]
    <3>1. \A p \in Ops : ops'[p].app = ops[p].app /\ (p # pub.op => ops'[p].state = ops[p].state)
      BY <1>1, <2>3 DEF DbTypeOK, OpRow
    <3> QED
      BY <1>2, <2>1, <2>3, <3>1 DEF Target
  <2> QED
    BY <2>1, <2>2, <2>3
<1>8. CASE Switch /\ apps[Target].authorized
  <2>1. /\ pub.stage = "switch" /\ apps' = SwitchedRow
        /\ ops' = [ops EXCEPT ![pub.op].state = "cleaning"]
    BY <1>8 DEF Switch
  <2>2. pub.op \in Ops /\ Target \in Apps /\ ops[pub.op].state = "starting"
    BY <1>5, <2>1 DEF PubWorking, WInv, PubHolds, PubStarted, Starting
  <2>3. Reserved(Target)
    BY <2>2 DEF Reserved, Target
  <2>4. /\ \A a \in Apps : a # Target => apps'[a] = apps[a]
        /\ \A p \in Ops : ops'[p].app = ops[p].app /\ (p # pub.op => ops'[p].state = ops[p].state)
    BY <1>1, <2>1 DEF SwitchedRow, DbTypeOK, OpRow
  <2> QED
    BY <2>2, <2>3, <2>4 DEF ReservesOne, Reserved, Target
<1>9. CASE Promoted
  <2>1. apps' = [apps EXCEPT ![Target].container = TRUE] /\ ops' = ops
    BY <1>9 DEF Promoted
  <2>2. \A a \in Apps : apps'[a].target = apps[a].target /\ apps'[a].runtime = apps[a].runtime
    BY <1>1, <2>1 DEF DbTypeOK, AppRow
  <2> QED
    BY <2>1, <2>2 DEF ReservesOne, Reserved
<1>10. CASE Succeed \/ Record
  <2>1. /\ pub.stage \in {"succeed", "record"} /\ apps' = apps
        /\ \/ ops' = [ops EXCEPT ![pub.op].state = "succeeded"]
           \/ pub.stage = "record" /\ ops' = Recorded
    BY <1>10 DEF Succeed, Record
  <2>2. /\ pub.op \in Ops
        /\ pub.stage = "record" /\ pub.starting => ops[pub.op].state \in {"starting", "cleaning"}
    BY <1>5, <2>1 DEF PubWorking, WInv, PubHolds, PubStarted, Undoing
  <2>3. /\ \A p \in Ops : ops'[p].app = ops[p].app /\ (p # pub.op => ops'[p].state = ops[p].state)
        /\ ops'[pub.op].state \in {"starting", "cleaning"} => pub.stage = "record" /\ pub.starting
    <3>1. CASE ops' = [ops EXCEPT ![pub.op].state = "succeeded"]
      BY <1>1, <2>2, <3>1 DEF DbTypeOK, OpRow
    <3>2. CASE pub.stage = "record" /\ ops' = Recorded
      BY <1>1, <2>2, <3>2 DEF DbTypeOK, OpRow, Recorded
    <3> QED
      BY <2>1, <3>1, <3>2
  <2> QED
    BY <1>2, <2>1, <2>2, <2>3
<1>11. CASE PublisherRecovers
  <2>1. ops' = Interrupted /\ apps' = apps
    BY <1>11 DEF PublisherRecovers
  <2>2. \A p \in Ops : ops'[p].app = ops[p].app /\ ops'[p].state = ops[p].state
    BY <1>1, <2>1 DEF Interrupted, DbTypeOK, OpRow
  <2> QED
    BY <2>1, <2>2 DEF ReservesOne, Reserved
<1> QED
  <2>1. \/ UNCHANGED <<apps, ops>>
        \/ Claim \/ Settle \/ Admit \/ (Switch /\ apps[Target].authorized) \/ Promoted
        \/ Succeed \/ Record \/ PublisherRecovers
    BY DEF Publisher, PublisherStep, PublisherWork, PublisherCrashes, Build, Prepare, Launch, Ready,
           Switch, Promote, Discard, Undo, Forget, dbVars
  <2> QED
    BY <1>3, <1>4, <1>6, <1>7, <1>8, <1>9, <1>10, <1>11, <2>1

\* The lifecycle worker takes no reservation, except while it recovers.
LEMMA LifecycleReserves ==
  ASSUME IInv, WInv, Lifecycle, lc.stage # "down"
  PROVE  \A a \in Apps : Reserved(a)' => Reserved(a)
<1> USE DEF LcAt
<1>1. DbTypeOK /\ LifecycleTypeOK /\ (LcWorking => lc.app \in Apps)
  BY DEF IInv, DbInv, LcInv
<1>2. CASE UNCHANGED <<apps, ops>>
  BY <1>2 DEF Reserved
<1>3. ASSUME UNCHANGED ops, LcWorking, Reserved(lc.app),
             \A a \in Apps : a # lc.app => apps'[a] = apps[a]
      PROVE  \A a \in Apps : Reserved(a)' => Reserved(a)
  BY <1>3 DEF Reserved
<1>4. CASE Begin
  <2>1. /\ ops' = ops /\ LcWorking /\ HasWork(lc.app)
        /\ \A a \in Apps : a # lc.app => apps'[a] = apps[a]
    BY <1>1, <1>4 DEF Begin, LcWorking, DbTypeOK
  <2>2. Reserved(lc.app)
    BY <1>1, <2>1 DEF HasWork, IdleStoppable, Reserved, Busy, WInv, RouteRows
  <2> QED
    BY <1>3, <2>1, <2>2
<1>5. CASE Commit \/ Stopped \/ Result
  <2>1. LcActing /\ lc.stage \in {"commit", "stopped", "result"} /\ ops' = ops
    BY <1>5 DEF Commit, Stopped, Result, LcActing, LcWorking
  <2>2. Reserved(lc.app)
    BY <2>1 DEF WInv, LcHolds, Reserved
  <2>3. \A a \in Apps : a # lc.app => apps'[a] = apps[a]
    BY <1>1, <1>5 DEF Commit, Stopped, Result, WithRuntime, DbTypeOK
  <2> QED
    BY <1>3, <2>1, <2>2, <2>3 DEF LcActing
<1>6. CASE RetireSecrets \/ FinishSecret
  <2>1. /\ lc.stage \in {"retire", "finish"} /\ apps' = apps
        /\ \E state : ops' = [ops EXCEPT ![lc.op].state = state] /\
             (state \in {"starting", "cleaning"} => lc.stage = "retire" \/ apps[lc.app].runtime = "blocked")
    BY <1>6 DEF RetireSecrets, FinishSecret
  <2>2. LcActing /\ lc.op \in Ops /\ ops[lc.op].app = lc.app
    BY <2>1 DEF LcActing, LcWorking, IInv, LcInv, LifecycleTypeOK, SecretChange
  <2>3. ops'[lc.op].state \in {"starting", "cleaning"} => Reserved(lc.app)
    BY <1>1, <2>1, <2>2 DEF WInv, LcHolds, Reserved, DbTypeOK, OpRow, Busy
  <2>4. \A o \in Ops : ops'[o].app = ops[o].app /\ (o # lc.op => ops'[o] = ops[o])
    BY <1>1, <2>1 DEF DbTypeOK, OpRow
  <2> QED
    BY <2>1, <2>2, <2>3, <2>4 DEF Reserved
<1>7. CASE RecoverStarts
  <2>1. ops' = ops /\ \A a \in Apps : apps'[a] = Recovered(apps[a]) /\ apps[a] \in AppRow
    BY <1>1, <1>7 DEF RecoverStarts, DbTypeOK
  <2>2. \A a \in Apps : /\ apps'[a].target = apps[a].target
                        /\ apps'[a].runtime \in Busy => apps[a].runtime \in Busy
    BY <2>1 DEF Recovered, AppRow, Busy
  <2> QED
    BY <2>1, <2>2 DEF Reserved
<1> QED
  <2>1. \/ UNCHANGED <<apps, ops>>
        \/ Begin \/ Commit \/ Stopped \/ Result \/ RetireSecrets \/ FinishSecret \/ RecoverStarts
    BY DEF Lifecycle, LifecycleStep, LifecycleWork, LifecycleRecovery, RecoverSecretChanges, Scan,
           ScanEnds, TryLock, Skip, Stop, WakeApp, ReadyApp, UndoApp, Expire, LifecycleCrashes, dbVars
  <2> QED
    BY <1>2, <1>4, <1>5, <1>6, <1>7, <2>1

\* Of the others only a secret change and a wake-up take a reservation.
LEMMA OthersReserve ==
  ASSUME IInv, WInv, Admission \/ Ingress \/ Environment
  PROVE  ReservesOne
<1>1. DbTypeOK
  BY DEF IInv, DbInv
<1>2. ASSUME \A a \in Apps : apps'[a].target = apps[a].target /\ apps'[a].runtime = apps[a].runtime,
             UNCHANGED ops
      PROVE  ReservesOne
  BY <1>2 DEF ReservesOne, Reserved
<1>3. ASSUME NEW a \in Apps, Deploy(a) PROVE ReservesOne
  <2>1. PICK o \in Ops : ops' = [ops EXCEPT ![o] = NewOp(a, "deploy")]
    BY <1>3 DEF Deploy
  <2>2. apps' = [apps EXCEPT ![a].exists = TRUE]
    BY <1>3 DEF Deploy
  <2>3. /\ \A b \in Apps : apps'[b].target = apps[b].target /\ apps'[b].runtime = apps[b].runtime
        /\ \A p \in Ops : ops'[p] = ops[p] \/ ops'[p].state = "accepted"
    BY <1>1, <2>1, <2>2 DEF DbTypeOK, AppRow, NewOp
  <2> QED
    BY <2>3 DEF ReservesOne, Reserved
<1>4. ASSUME NEW a \in Apps, NEW action, ChangeSecret(a, action) PROVE ReservesOne
  <2>1. PICK o \in Ops : /\ ops' = [ops EXCEPT ![o] = NewOp(a, "secret-change")]
                         /\ \E value : apps' = Saved(a, value)
    BY <1>4 DEF ChangeSecret
  <2>2. CanReserve(a)
    BY <1>4 DEF ChangeSecret
  <2>3. /\ \A b \in Apps : b # a => apps'[b] = apps[b]
        /\ \A p \in Ops : ops'[p] = ops[p] \/ ops'[p].state = "accepted"
    BY <1>1, <2>1 DEF DbTypeOK, Saved, NewOp
  <2> QED
    BY <2>2, <2>3 DEF ReservesOne, Reserved
<1>5. CASE Ingress
  <2>1. /\ ops' = ops
        /\ apps' = apps \/ \E r \in Requests : Wake(r) \/ Finish(r)
    BY <1>5 DEF Ingress, GatewayStep, Enter, Route, Wake, Refuse, Connect, Unavailable, Finish,
                ServiceRestarts, Leave, dbVars
  <2>2. CASE apps' = apps
    BY <1>2, <2>1, <2>2
  <2>3. ASSUME NEW r \in Requests, Wake(r) PROVE ReservesOne
    <3>1. /\ apps' = [apps EXCEPT ![shared[r]].runtime = "queued"]
          /\ shared[r] \in Apps /\ CanReserve(shared[r])
      BY <2>3 DEF Wake, Wakeable, IInv, GwInv
    <3>2. \A b \in Apps : b # shared[r] => apps'[b] = apps[b]
      BY <1>1, <3>1 DEF DbTypeOK
    <3> QED
      BY <2>1, <3>1, <3>2 DEF ReservesOne, Reserved
  <2>4. ASSUME NEW r \in Requests, Finish(r) PROVE ReservesOne
    <3>1. apps' = [apps EXCEPT ![shared[r]].idle = FALSE]
      BY <2>4 DEF Finish
    <3>2. \A b \in Apps : apps'[b].target = apps[b].target /\ apps'[b].runtime = apps[b].runtime
      BY <1>1, <3>1 DEF DbTypeOK, AppRow
    <3> QED
      BY <1>2, <2>1, <3>2
  <2> QED
    BY SMTT(60), <2>1, <2>2, <2>3, <2>4
<1>6. CASE Environment
  <2>1. /\ ops' = ops
        /\ \/ apps' = apps
           \/ \E a \in Apps : \/ apps' = [apps EXCEPT ![a].authorized = FALSE]
                              \/ apps' = [apps EXCEPT ![a].idle = TRUE]
    BY <1>6 DEF Environment, LoseAuthority, IdleElapses, ExpireRetired, AppExits, FinishOrphan, dbVars
  <2>2. \A b \in Apps : apps'[b].target = apps[b].target /\ apps'[b].runtime = apps[b].runtime
    BY <1>1, <2>1 DEF DbTypeOK, AppRow
  <2> QED
    BY <1>2, <2>1, <2>2
<1> QED
  BY <1>3, <1>4, <1>5, <1>6 DEF Admission

\* Publications, wake-ups and secret changes take a reservation only while a slot
\* is free, one at a time; only recover gives one back without asking.
THEOREM SlotsAdmitted == Spec => AdmissionWithinSlots
<1>1. ASSUME ReservesOne
      PROVE  ReservedApps' \ ReservedApps # {} =>
               Cardinality(ReservedApps) < ActiveLimit /\ Cardinality(ReservedApps' \ ReservedApps) = 1
  <2> SUFFICES ASSUME ReservedApps' \ ReservedApps # {}
               PROVE  /\ Cardinality(ReservedApps) < ActiveLimit
                      /\ Cardinality(ReservedApps' \ ReservedApps) = 1
    OBVIOUS
  <2>1. PICK a \in Apps : CanReserve(a) /\ \A b \in Apps : Reserved(b)' => Reserved(b) \/ b = a
    BY <1>1 DEF ReservesOne, ReservedApps
  <2>2. ReservedApps' \ ReservedApps = {a} /\ ~Reserved(a)
    BY <2>1 DEF ReservedApps
  <2>3. Cardinality({a}) = 1
    BY FS_Singleton
  <2> QED
    BY <2>1, <2>2, <2>3 DEF CanReserve
<1>2. IInv /\ WInv /\ [Next]_vars =>
        [lc.stage # "down" /\ ReservedApps' \ ReservedApps # {} =>
           Cardinality(ReservedApps) < ActiveLimit
           /\ Cardinality(ReservedApps' \ ReservedApps) = 1]_vars
  <2> SUFFICES ASSUME IInv, WInv, Next, lc.stage # "down"
               PROVE  ReservesOne
    BY <1>1
  <2>1. CASE Lifecycle
    BY <2>1, LifecycleReserves DEF ReservesOne
  <2> QED
    BY <2>1, PublisherReserves, OthersReserve DEF Next
<1> QED
  BY <1>2, Invariant, WorkersInvariant, PTL DEF Spec, AdmissionWithinSlots

\* Until the lifecycle worker's process is lost it never recovers, and the apps
\* with a reservation are at most ActiveLimit.
SlotsCounted ==
  lifecycleCrashes = 0 =>
    /\ lc.stage \notin {"down", "recovering"}
    /\ IsFiniteSet(ReservedApps) /\ SlotBound

\* The lifecycle worker comes to its recovery only by a crash.
LEMMA RecoveryNeedsCrash ==
  ASSUME LifecycleTypeOK, [Next]_vars, lc.stage \notin {"down", "recovering"}, lifecycleCrashes' = 0
  PROVE  lifecycleCrashes = 0 /\ lc'.stage \notin {"down", "recovering"}
<1> USE DEF LcAt, LcGoto
<1>1. CASE lc' = lc /\ lifecycleCrashes' = lifecycleCrashes
  BY <1>1
<1>2. CASE LifecycleStep
  <2>1. ~LifecycleCrashes /\ lifecycleCrashes' = lifecycleCrashes
    BY <1>2 DEF LifecycleStep, LifecycleCrashes, LifecycleTypeOK
  <2>2. CASE LifecycleRecovery
    BY <2>2 DEF LifecycleRecovery, RecoverSecretChanges, RecoverStarts
  <2>3. CASE Scan \/ ScanEnds \/ Skip
    <3>1. lc' = LcIdle \/ \E todo : lc' = [LcIdle EXCEPT !.stage = "scan", !.todo = todo]
      BY <2>3 DEF Scan, ScanEnds, Skip
    <3>2. LcIdle.stage = "idle"
      BY DEF LcIdle
    <3>3. ASSUME NEW todo, lc' = [LcIdle EXCEPT !.stage = "scan", !.todo = todo]
          PROVE  lc'.stage = "scan"
      BY <3>3 DEF LcIdle
    <3> QED
      BY <2>1, <3>1, <3>2, <3>3
  <2>4. ASSUME NEW a \in Apps, TryLock(a)
        PROVE  lc'.stage \in {"scan", "begin"}
    <3>1. \/ lc' = [lc EXCEPT !.stage = "begin", !.app = a]
          \/ lc.stage = "scan" /\ lc' = [lc EXCEPT !.todo = @ \ {a}]
      BY <2>4 DEF TryLock, TakeLock
    <3> QED
      BY <3>1 DEF LifecycleTypeOK
  <2>5. CASE Begin
    <3>1. PICK state, op :
            lc' = [lc EXCEPT !.op = op, !.active = apps[lc.app].active, !.queued = (state = "queued"),
                             !.stage = IF op # NoOp \/ state # "queued" THEN "stop" ELSE "wake"]
      BY <2>5 DEF Begin
    <3>2. lc'.stage \in {"stop", "wake"}
      BY <3>1 DEF LifecycleTypeOK
    <3> QED
      BY <2>1, <3>2
  <2>6. CASE Stop \/ UndoApp
    <3>1. lc'.stage \in {"retire", "stopped", "undo", "expire", "result"}
      BY <2>6 DEF Stop, UndoApp, StopOutcome, LifecycleTypeOK
    <3> QED
      BY <2>1, <3>1
  <2>7. CASE WakeApp
    <3>1. LcGoto("undo") \/ \E port : lc' = [lc EXCEPT !.stage = "ready", !.port = port]
      BY <2>7 DEF WakeApp
    <3>2. lc'.stage \in {"undo", "ready"}
      BY <3>1 DEF LifecycleTypeOK
    <3> QED
      BY <2>1, <3>2
  <2>8. CASE RetireSecrets \/ ReadyApp \/ Expire
    BY <2>1, <2>8 DEF RetireSecrets, ReadyApp, Expire, LifecycleTypeOK
  <2>9. CASE Commit \/ Stopped \/ Result \/ FinishSecret
    <3>1. lc' = LcIdle \/ LcGoto("finish") \/ LcGoto("undo")
      BY <2>9 DEF Commit, Stopped, Result, FinishSecret, LcDone
    <3>2. lc'.stage \in {"idle", "finish", "undo"}
      BY <3>1 DEF LcIdle, LifecycleTypeOK
    <3> QED
      BY <2>1, <3>2
  <2> QED
    BY <1>2, <2>1, <2>2, <2>3, <2>4, <2>5, <2>6, <2>7, <2>8, <2>9 DEF LifecycleStep, LifecycleWork
<1> QED
  BY <1>1, <1>2 DEF Next, Admission, Ingress, Publisher, Lifecycle, Environment, lcVars, vars

\* The slots suffice for as long as no loss of the lifecycle worker gives an
\* interrupted secret change its slot back without asking.
THEOREM SlotsBounded == Spec => [](lifecycleCrashes = 0 => SlotBound)
<1>1. Init => SlotsCounted
  <2> SUFFICES ASSUME Init PROVE SlotsCounted
    OBVIOUS
  <2>1. ReservedApps = {}
    BY DEF Init, DbInit, ReservedApps, Reserved, Busy, NoPort
  <2> QED
    BY <2>1, FS_EmptySet, ConstantsAssumption DEF SlotsCounted, SlotBound, Init, LifecycleInit, LcIdle
<1>2. IInv /\ WInv /\ SlotsCounted /\ [Next]_vars => SlotsCounted'
  <2> SUFFICES ASSUME IInv, WInv, SlotsCounted, [Next]_vars, lifecycleCrashes' = 0
               PROVE  /\ lc'.stage \notin {"down", "recovering"}
                      /\ IsFiniteSet(ReservedApps') /\ Cardinality(ReservedApps') <= ActiveLimit
    BY DEF SlotsCounted, SlotBound
  <2>1. lifecycleCrashes = 0
    BY DEF IInv, LcInv, LifecycleTypeOK, Next, Admission, Ingress, Publisher, Lifecycle,
           Environment, LifecycleStep, LifecycleCrashes, lcVars, vars
  <2>2. /\ lc.stage \notin {"down", "recovering"} /\ lc'.stage \notin {"down", "recovering"}
        /\ IsFiniteSet(ReservedApps) /\ Cardinality(ReservedApps) <= ActiveLimit
    BY <2>1, RecoveryNeedsCrash DEF SlotsCounted, SlotBound, IInv, LcInv
  <2>3. ReservesOne
    <3>1. CASE UNCHANGED vars
      BY <3>1 DEF vars, dbVars, ReservesOne, Reserved
    <3> QED
      BY <2>2, <3>1, LifecycleReserves, PublisherReserves, OthersReserve DEF ReservesOne, Next
  <2>4. CASE ReservedApps' \subseteq ReservedApps
    BY <2>2, <2>4, FS_Subset, FS_CardinalityType, ConstantsAssumption
  <2>5. ASSUME NEW a \in Apps, CanReserve(a), ReservedApps' \subseteq ReservedApps \cup {a}
        PROVE  IsFiniteSet(ReservedApps') /\ Cardinality(ReservedApps') <= ActiveLimit
    <3>1. Cardinality(ReservedApps) \in Nat
      BY <2>2, FS_CardinalityType
    <3>2. /\ IsFiniteSet(ReservedApps \cup {a})
          /\ Cardinality(ReservedApps \cup {a}) =
               IF a \in ReservedApps THEN Cardinality(ReservedApps) ELSE Cardinality(ReservedApps) + 1
      BY <2>2, FS_AddElement
    <3>3. Cardinality(ReservedApps \cup {a}) <= ActiveLimit
      <4>1. CASE a \in ReservedApps
        BY <2>2, <3>2, <4>1
      <4>2. CASE a \notin ReservedApps
        <5>1. Cardinality(ReservedApps) < ActiveLimit
          BY <2>5, <4>2 DEF CanReserve, ReservedApps
        <5> QED
          BY <3>1, <3>2, <4>2, <5>1, ConstantsAssumption
      <4> QED
        BY <4>1, <4>2
    <3>4. IsFiniteSet(ReservedApps') /\ Cardinality(ReservedApps') <= Cardinality(ReservedApps \cup {a})
      BY <2>5, <3>2, FS_Subset
    <3>5. Cardinality(ReservedApps') \in Nat /\ Cardinality(ReservedApps \cup {a}) \in Nat
      BY <3>2, <3>4, FS_CardinalityType
    <3> QED
      BY <3>3, <3>4, <3>5, ConstantsAssumption
  <2>6. ReservedApps' \subseteq ReservedApps
        \/ \E a \in Apps : CanReserve(a) /\ ReservedApps' \subseteq ReservedApps \cup {a}
    BY <2>3 DEF ReservesOne, ReservedApps
  <2> QED
    BY <2>2, <2>4, <2>5, <2>6
<1>3. SlotsCounted => (lifecycleCrashes = 0 => SlotBound)
  BY DEF SlotsCounted
<1> QED
  BY <1>1, <1>2, <1>3, Invariant, WorkersInvariant, PTL DEF Spec

\* lifecycle.py's process holds the app's lock whenever it stops the app, and the
\* gateway's requests hold it for as long as they last.
THEOREM RequestsProtected == Spec => InFlightProtected
<1>1. ASSUME IInv, WInv, Next, NEW a \in Apps, lc'.app = a, lc # lc', (Own(a) \ Own(a)') # {}
      PROVE  ~SharedLock(a)
  <2>1. Lifecycle
    BY <1>1 DEF Next, Admission, Ingress, Publisher, Environment, lcVars
  <2>2. Stop \/ UndoApp
    <3>1. ~(containers \subseteq containers')
      BY <1>1 DEF Own
    <3> QED
      BY <2>1, <3>1 DEF Lifecycle, LifecycleStep, LifecycleWork, LifecycleRecovery,
         RecoverSecretChanges, RecoverStarts, Scan, ScanEnds, TryLock, Begin, Skip, RetireSecrets,
         WakeApp, LaunchLeftovers, LoseLaunch, ReadyApp, Commit, Stopped, Expire, Result,
         FinishSecret, LifecycleCrashes, hostVars
  <2>3. LcWorking /\ lc'.app = lc.app
    <3>1. LcWorking /\ LifecycleTypeOK
      BY <1>1, <2>2 DEF Stop, UndoApp, LcAt, LcWorking, IInv, LcInv
    <3>2. \E stage, result : lc' \in {[lc EXCEPT !.stage = stage],
                                       [lc EXCEPT !.stage = stage, !.result = result]}
      BY <2>2 DEF Stop, UndoApp, StopOutcome, LcGoto
    <3> QED
      BY <3>1, <3>2 DEF LifecycleTypeOK
  <2>4. exclusive = a /\ a # NoApp
    BY <1>1, <2>3, ConstantsAssumption DEF WInv, Locked
  <2> QED
    BY <1>1, <2>4 DEF WInv, Locked, SharedLock
<1>2. IInv /\ WInv /\ [Next]_vars =>
        [\A a \in Apps : lc'.app = a /\ lc # lc' /\ (Own(a) \ Own(a)') # {} => ~SharedLock(a)]_vars
  BY <1>1
<1> QED
  BY <1>2, Invariant, WorkersInvariant, PTL DEF Spec, InFlightProtected

-----------------------------------------------------------------------------

\* How the database's row reads as the abstract operation.
LEMMA Statuses ==
  ASSUME NEW o \in Ops
  PROVE  /\ ~Unfinished(o) => OpStatus(o) = ops[o].state
         /\ Unfinished(o) => OpStatus(o) = IF apps[ops[o].app].active = o THEN "selected" ELSE "open"
         /\ ~Unfinished(o)' => OpStatus(o)' = ops'[o].state
         /\ Unfinished(o)' => OpStatus(o)' = IF apps'[ops'[o].app].active = o THEN "selected" ELSE "open"
BY DEF OpStatus, Unfinished

\* The release is selected, and so the operation, from the switch to the end.
LEMMA SelectedStatus ==
  ASSUME IInv, WInv, NEW o \in Ops, Unfinished(o)
  PROVE  /\ OpStatus(o) \in {"open", "selected"}
         /\ OpStatus(o) = "selected" <=> apps[ops[o].app].active = o
         /\ OpStatus(o) = "selected" => ops[o].kind = "deploy" /\ ops[o].state = "cleaning"
<1>1. /\ OpStatus(o) \in {"open", "selected"}
      /\ OpStatus(o) = "selected" <=> apps[ops[o].app].active = o
  BY Statuses
<1>2. ops[o].app \in Apps /\ o # NoOp
  BY DEF IInv, DbInv, Unfinished, Ops, NoOp
<1>3. apps[ops[o].app].active = o => ops[o].kind = "deploy" /\ ops[o].state = "cleaning"
  BY <1>2 DEF WInv, SelectedRows, Unfinished
<1> QED
  BY <1>1, <1>3

\* A step that the abstract operations do not see.
Unseen ==
  /\ \A a \in Apps : apps'[a].active = apps[a].active
  /\ \A o \in Ops : /\ ops'[o].app = ops[o].app
                     /\ (Unfinished(o)' <=> Unfinished(o))
                     /\ (~Unfinished(o) => ops'[o].state = ops[o].state)

\* It stutters, ...
LEMMA UnseenStutters ==
  ASSUME IInv, Unseen
  PROVE  UNCHANGED Promise!vars
<1>1. ASSUME NEW o \in Ops PROVE OpStatus(o)' = OpStatus(o)
  <2>1. Unfinished(o) => ops[o].app \in Apps
    BY DEF IInv, DbInv, Unfinished
  <2> QED
    BY <2>1, Statuses DEF Unseen
<1> QED
  BY <1>1 DEF Unseen, Promise!vars

\* ... and the end of one operation is a step of the promise.
LEMMA EndSeen ==
  ASSUME IInv, WInv, NEW o \in Ops, Unfinished(o), ops'[o].state \in {"succeeded", "failed"},
         ops'[o].state = "failed" => ops[o].state # "cleaning" \/ ops[o].kind # "deploy",
         \A p \in Ops : ops'[p].app = ops[p].app /\ (p # o => ops'[p] = ops[p]),
         apps' = apps
  PROVE  Promise!Next
<1>1. OpStatus(o)' = ops'[o].state
  BY Statuses DEF Unfinished
<1>2. OpStatus(o) \in {"open", "selected"} /\ (ops'[o].state = "failed" => OpStatus(o) = "open")
  BY SelectedStatus
<1>3. ASSUME NEW p \in Ops, p # o PROVE OpStatus(p)' = OpStatus(p)
  BY <1>3, Statuses DEF Unfinished
<1>4. [p \in Ops |-> OpStatus(p)]' = [[p \in Ops |-> OpStatus(p)] EXCEPT ![o] = ops'[o].state]
  BY <1>1, <1>3
<1>5. /\ [a \in Apps |-> apps[a].active]' = [a \in Apps |-> apps[a].active]
      /\ [p \in Ops |-> ops[p].app]' = [p \in Ops |-> ops[p].app]
  OBVIOUS
<1>6. CASE ops'[o].state = "succeeded"
  BY <1>2, <1>4, <1>5, <1>6 DEF Promise!Next, Promise!Succeed
<1>7. CASE ops'[o].state = "failed"
  BY <1>2, <1>4, <1>5, <1>7 DEF Promise!Next, Promise!Fail
<1> QED
  BY <1>6, <1>7

\* A step of the publishing worker is one of the promise, or not seen.
LEMMA PublisherPromises ==
  ASSUME IInv, WInv, Publisher
  PROVE  Promise!Next \/ UNCHANGED Promise!vars
<1> USE DEF At
<1>1. DbTypeOK /\ PublishingTypeOK
  BY DEF IInv, DbInv, PubInv
<1>2. PubWorking => /\ pub.op \in Ops /\ Target \in Apps /\ Unfinished(pub.op)
                    /\ ops[pub.op].kind = "deploy"
  BY DEF IInv, PubInv, DbInv, Target, Unfinished
<1>3. ASSUME \A a \in Apps : apps'[a].active = apps[a].active,
             \A o \in Ops : /\ ops'[o].app = ops[o].app
                            /\ ops'[o].state = ops[o].state \/ (Unfinished(o) /\ Unfinished(o)')
      PROVE  UNCHANGED Promise!vars
  BY <1>3, UnseenStutters DEF Unseen, Unfinished
<1>4. CASE UNCHANGED <<apps, ops>>
  BY <1>3, <1>4
<1>5. CASE Claim
  <2>1. PICK o \in Ops : /\ ops[o].state = "accepted" /\ apps' = apps
                         /\ ops' = [ops EXCEPT ![o].state = "building"]
    BY <1>5 DEF Claim, Accepted
  <2>2. \A p \in Ops : ops'[p].app = ops[p].app /\ (p # o => ops'[p].state = ops[p].state)
    BY <1>1, <2>1 DEF DbTypeOK, OpRow
  <2>3. ops'[o].state = "building"
    BY <1>1, <2>1 DEF DbTypeOK, OpRow
  <2> QED
    BY <1>3, <2>1, <2>2, <2>3 DEF Unfinished
<1>6. CASE Settle
  <2>1. apps' = apps /\ \E charge : ops' \in {ops, [ops EXCEPT ![pub.op].charge = charge]}
    BY <1>6 DEF Settle
  <2>2. \A o \in Ops : ops'[o].app = ops[o].app /\ ops'[o].state = ops[o].state
    BY <1>1, <2>1 DEF DbTypeOK, OpRow
  <2> QED
    BY <1>3, <2>1, <2>2
<1>7. CASE Admit
  <2>1. /\ apps' = apps /\ pub.op \in Ops /\ Unfinished(pub.op)
        /\ ops' \in {ops, [ops EXCEPT ![pub.op].state = "starting"]}
    BY <1>2, <1>7 DEF Admit, PubWorking
  <2>2. \A o \in Ops : /\ ops'[o].app = ops[o].app
                       /\ ops'[o].state = ops[o].state \/ (o = pub.op /\ ops'[o].state = "starting")
    BY <1>1, <2>1 DEF DbTypeOK, OpRow
  <2> QED
    BY <1>3, <2>1, <2>2 DEF Unfinished
<1>8. CASE Switch /\ apps[Target].authorized
  <2>1. /\ pub.stage = "switch" /\ apps' = SwitchedRow
        /\ ops' = [ops EXCEPT ![pub.op].state = "cleaning"]
    BY <1>8 DEF Switch
  <2>2. /\ pub.op \in Ops /\ Target \in Apps /\ ops[pub.op].state = "starting"
        /\ Unfinished(pub.op) /\ ops[pub.op].kind = "deploy"
    BY <1>2, <2>1 DEF PubWorking, WInv, PubHolds, PubStarted, Starting
  <2>3. /\ \A a \in Apps : apps'[a].active = IF a = Target THEN pub.op ELSE apps[a].active
        /\ \A p \in Ops : ops'[p].app = ops[p].app /\ (p # pub.op => ops'[p] = ops[p])
        /\ ops'[pub.op].state = "cleaning"
    BY <1>1, <2>1, <2>2 DEF SwitchedRow, DbTypeOK, OpRow, AppRow
  <2>4. PICK o \in Ops : o = pub.op
    BY <2>2
  <2>5. OpStatus(o) = "open" /\ OpStatus(o)' = "selected"
    <3>1. OpStatus(o) = "open"
      BY <2>2, <2>4, SelectedStatus
    <3>2. Unfinished(o)' /\ apps'[ops'[o].app].active = o
      BY <2>2, <2>3, <2>4 DEF Unfinished, Target
    <3> QED
      BY <3>1, <3>2, Statuses
  <2>6. ASSUME NEW p \in Ops, p # o PROVE OpStatus(p)' = OpStatus(p)
    <3>1. Unfinished(p) => ops[p].app \in Apps /\ ops[p].app # Target
      BY <2>2, <2>4, <2>6 DEF IInv, DbInv, OneOperationPerApp, Unfinished, Target
    <3>2. ops'[p] = ops[p]
      BY <2>3, <2>4, <2>6
    <3>3. Unfinished(p)' <=> Unfinished(p)
      BY <3>2 DEF Unfinished
    <3> QED
      BY <2>3, <3>1, <3>2, <3>3, Statuses
  <2>7. /\ [p \in Ops |-> OpStatus(p)]' = [[p \in Ops |-> OpStatus(p)] EXCEPT ![o] = "selected"]
        /\ [a \in Apps |-> apps[a].active]' = [[a \in Apps |-> apps[a].active] EXCEPT ![Target] = o]
        /\ [p \in Ops |-> ops[p].app]' = [p \in Ops |-> ops[p].app]
    BY <2>3, <2>4, <2>5, <2>6
  <2>8. Promise!Select(o)
    BY <2>2, <2>4, <2>5, <2>7 DEF Promise!Select, Target
  <2> QED
    BY <2>8 DEF Promise!Next
<1>9. CASE Promoted
  <2>1. apps' = [apps EXCEPT ![Target].container = TRUE] /\ ops' = ops
    BY <1>9 DEF Promoted
  <2>2. \A a \in Apps : apps'[a].active = apps[a].active
    BY <1>1, <2>1 DEF DbTypeOK, AppRow
  <2> QED
    BY <1>3, <2>1, <2>2
<1>10. CASE Succeed
  <2>1. apps' = apps /\ ops' = [ops EXCEPT ![pub.op].state = "succeeded"] /\ PubWorking
    BY <1>10 DEF Succeed, PubWorking
  <2>2. /\ \A p \in Ops : ops'[p].app = ops[p].app /\ (p # pub.op => ops'[p] = ops[p])
        /\ ops'[pub.op].state = "succeeded"
    BY <1>1, <1>2, <2>1 DEF DbTypeOK, OpRow
  <2> QED
    BY <1>2, <2>1, <2>2, EndSeen
<1>11. CASE Record
  <2>1. apps' = apps /\ ops' = Recorded /\ PubWorking /\ pub.stage = "record"
    BY <1>11 DEF Record, PubWorking
  <2>2. /\ \A p \in Ops : ops'[p].app = ops[p].app /\ (p # pub.op => ops'[p] = ops[p])
        /\ ops'[pub.op].state = IF ~pub.reconcile THEN "failed"
                                ELSE IF pub.starting THEN "cleaning" ELSE "building"
    BY <1>1, <1>2, <2>1 DEF Recorded, DbTypeOK, OpRow
  <2>3. CASE pub.reconcile
    BY <1>2, <1>3, <2>1, <2>2, <2>3 DEF Unfinished
  <2>4. CASE ~pub.reconcile
    <3>1. ops[pub.op].state # "cleaning"
      BY <2>1, <2>4 DEF WInv, PubHolds, PubStarted, Undoing
    <3> QED
      BY <1>2, <2>1, <2>2, <2>4, <3>1, EndSeen
  <2> QED
    BY <2>3, <2>4
<1>12. CASE PublisherRecovers
  <2>1. ops' = Interrupted /\ apps' = apps
    BY <1>12 DEF PublisherRecovers
  <2>2. \A p \in Ops : ops'[p].app = ops[p].app /\ ops'[p].state = ops[p].state
    BY <1>1, <2>1 DEF Interrupted, DbTypeOK, OpRow
  <2> QED
    BY <1>3, <2>1, <2>2
<1> QED
  <2>1. \/ UNCHANGED <<apps, ops>>
        \/ Claim \/ Settle \/ Admit \/ (Switch /\ apps[Target].authorized) \/ Promoted
        \/ Succeed \/ Record \/ PublisherRecovers
    BY DEF Publisher, PublisherStep, PublisherWork, PublisherCrashes, Build, Prepare, Launch, Ready,
           Switch, Promote, Discard, Undo, Forget, dbVars
  <2> QED
    BY <1>4, <1>5, <1>6, <1>7, <1>8, <1>9, <1>10, <1>11, <1>12, <2>1

\* No step of the lifecycle worker selects a release.
LEMMA LifecycleSelects ==
  ASSUME IInv, Lifecycle, NEW a \in Apps
  PROVE  apps'[a].active = apps[a].active
<1> USE DEF LcAt
<1>1. DbTypeOK
  BY DEF IInv, DbInv
<1>2. \/ apps'[a] = apps[a]
      \/ \E runtime : apps'[a] = [apps[a] EXCEPT !.runtime = runtime]
      \/ apps'[a] = [apps[a] EXCEPT !.runtime = "running", !.target = lc.port,
                                    !.container = TRUE, !.idle = FALSE]
      \/ \E result : apps'[a] = [apps[a] EXCEPT !.runtime = result, !.target = NoPort,
                                                !.container = FALSE]
  <2>1. CASE Begin
    <3>1. PICK runtime : apps' = [apps EXCEPT ![lc.app].runtime = runtime]
      BY <2>1 DEF Begin
    <3>2. CASE a = lc.app
      BY <1>1, <3>1, <3>2 DEF DbTypeOK
    <3>3. CASE a # lc.app
      BY <1>1, <3>1, <3>3 DEF DbTypeOK
    <3> QED
      BY <3>2, <3>3
  <2>2. CASE Commit
    <3>1. \/ apps' = apps
          \/ apps' = [apps EXCEPT ![lc.app].runtime = "running", ![lc.app].target = lc.port,
                                  ![lc.app].container = TRUE, ![lc.app].idle = FALSE]
      BY SMTT(60), <2>2 DEF Commit
    <3>2. CASE a = lc.app
      BY <1>1, <3>1, <3>2 DEF DbTypeOK
    <3>3. CASE a # lc.app
      BY <1>1, <3>1, <3>3 DEF DbTypeOK
    <3> QED
      BY <3>2, <3>3
  <2>3. CASE Stopped \/ Result
    <3>1. PICK result : apps' = WithRuntime(result)
      BY <2>3 DEF Stopped, Result
    <3>2. CASE a = lc.app
      BY <1>1, <3>1, <3>2 DEF DbTypeOK, WithRuntime
    <3>3. CASE a # lc.app
      BY <1>1, <3>1, <3>3 DEF DbTypeOK, WithRuntime
    <3> QED
      BY <3>2, <3>3
  <2>4. CASE RecoverSecretChanges
    BY <2>4 DEF RecoverSecretChanges, Resumed
  <2>5. CASE RecoverStarts
    BY <2>5 DEF RecoverStarts, Recovered
  <2>6. CASE UNCHANGED apps
    BY <2>6
  <2> QED
    BY <2>1, <2>2, <2>3, <2>4, <2>5, <2>6
    DEF Lifecycle, LifecycleStep, LifecycleWork, LifecycleRecovery, LifecycleCrashes, Scan, ScanEnds,
        TryLock, Skip, Stop, RetireSecrets, WakeApp, ReadyApp, UndoApp, Expire, FinishSecret, dbVars
<1>3. apps[a] \in AppRow
  BY <1>1 DEF DbTypeOK
<1> QED
  BY ZenonT(60), <1>2, <1>3 DEF AppRow

\* A step of the lifecycle worker is the end of a secret change, or not seen.
LEMMA LifecyclePromises ==
  ASSUME IInv, WInv, Lifecycle
  PROVE  Promise!Next \/ UNCHANGED Promise!vars
<1> USE DEF LcAt
<1>1. DbTypeOK
  BY DEF IInv, DbInv
<1>2. \A a \in Apps : apps'[a].active = apps[a].active
  BY LifecycleSelects
<1>3. CASE UNCHANGED ops
  BY <1>2, <1>3, UnseenStutters DEF Unseen, Unfinished
<1>4. CASE RetireSecrets \/ FinishSecret
  <2>1. /\ UNCHANGED apps /\ lc.op \in Ops /\ Unfinished(lc.op)
        /\ ops[lc.op].kind = "secret-change"
    BY <1>4 DEF RetireSecrets, FinishSecret, IInv, LcInv, LcWorking, LifecycleTypeOK, SecretChange
  <2>2. PICK state \in {"starting", "cleaning", "succeeded", "failed"} :
          ops' = [ops EXCEPT ![lc.op].state = state]
    BY <1>4 DEF RetireSecrets, FinishSecret
  <2>3. /\ \A p \in Ops : ops'[p].app = ops[p].app /\ (p # lc.op => ops'[p] = ops[p])
        /\ ops'[lc.op].state = state
    BY <1>1, <2>1, <2>2 DEF DbTypeOK, OpRow
  <2>4. CASE state \in {"succeeded", "failed"}
    BY <2>1, <2>3, <2>4, EndSeen
  <2>5. CASE state \in {"starting", "cleaning"}
    <3>1. \A p \in Ops : /\ (Unfinished(p)' <=> Unfinished(p))
                         /\ (~Unfinished(p) => ops'[p].state = ops[p].state)
      BY <2>1, <2>3, <2>5 DEF Unfinished
    <3> QED
      BY <1>2, <2>3, <3>1, UnseenStutters DEF Unseen
  <2> QED
    BY <2>4, <2>5
<1> QED
  BY <1>3, <1>4
  DEF Lifecycle, LifecycleStep, LifecycleWork, LifecycleRecovery, LifecycleCrashes, Scan, ScanEnds,
      TryLock, Begin, Skip, Stop, WakeApp, ReadyApp, Commit, Stopped, UndoApp, Expire, Result,
      RecoverSecretChanges, RecoverStarts, dbVars

\* An admission adds one row to the operations, of an app without another
\* operation, and selects nothing.
LEMMA AdmissionAdds ==
  ASSUME IInv, Admission
  PROVE  \E a \in Apps, o \in Ops :
           /\ ops[o].state = "none" /\ ops'[o].app = a /\ ops'[o].state = "accepted"
           /\ \A p \in Ops : p # o => ops'[p] = ops[p]
           /\ apps[a].exists => NoOperation(a)
           /\ \A b \in Apps : apps'[b].active = apps[b].active
<1>1. DbTypeOK
  BY DEF IInv, DbInv
<1>2. PICK a \in Apps, o \in Ops, kind \in {"deploy", "secret-change"} :
        /\ ops[o].state = "none" /\ ops' = [ops EXCEPT ![o] = NewOp(a, kind)]
        /\ apps[a].exists => NoOperation(a)
        /\ \/ apps' = [apps EXCEPT ![a].exists = TRUE]
           \/ \E value : apps' = Saved(a, value)
  <2>1. PICK a \in Apps : Deploy(a) \/ \E action \in {"set", "remove"} : ChangeSecret(a, action)
    BY DEF Admission
  <2>2. CASE Deploy(a)
    BY <2>2 DEF Deploy, Fresh
  <2>3. ASSUME NEW action, ChangeSecret(a, action)
        PROVE  \E o \in Ops :
                 /\ ops[o].state = "none" /\ ops' = [ops EXCEPT ![o] = NewOp(a, "secret-change")]
                 /\ NoOperation(a) /\ \E value : apps' = Saved(a, value)
    BY <2>3 DEF ChangeSecret, Fresh
  <2> QED
    BY <2>1, <2>2, <2>3
<1>3. /\ ops'[o].app = a /\ ops'[o].state = "accepted"
      /\ \A p \in Ops : p # o => ops'[p] = ops[p]
  BY <1>1, <1>2 DEF DbTypeOK, NewOp
<1>4. \A b \in Apps : apps'[b].active = apps[b].active
  <2>1. CASE apps' = [apps EXCEPT ![a].exists = TRUE]
    BY <1>1, <2>1 DEF DbTypeOK, AppRow
  <2>2. ASSUME NEW value, apps' = Saved(a, value)
        PROVE  \A b \in Apps : apps'[b].active = apps[b].active
    BY <1>1, <2>2 DEF DbTypeOK, AppRow, Saved
  <2> QED
    BY <1>2, <2>1, <2>2
<1> QED
  BY <1>2, <1>3, <1>4

\* An admission is the promise's.
LEMMA AdmissionPromises ==
  ASSUME IInv, WInv, Admission
  PROVE  Promise!Next
<1>1. PICK a \in Apps, o \in Ops :
        /\ ops[o].state = "none" /\ ops'[o].app = a /\ ops'[o].state = "accepted"
        /\ \A p \in Ops : p # o => ops'[p] = ops[p]
        /\ apps[a].exists => NoOperation(a)
        /\ \A b \in Apps : apps'[b].active = apps[b].active
  BY AdmissionAdds
<1>2. ASSUME NEW p \in Ops, ops[p].app = a PROVE ops[p].state \in {"succeeded", "failed"}
  <2>1. ops[p].state # "none"
    BY <1>2, ConstantsAssumption DEF WInv, FreshRows
  <2>2. ~Unfinished(p)
    BY <1>1, <1>2 DEF NoOperation, Pending, IInv, DbInv, Unfinished
  <2> QED
    BY <2>1, <2>2 DEF Unfinished
<1>3. OpStatus(o) = "none" /\ \A p \in Ops : ops[p].app = a => OpStatus(p) \in {"succeeded", "failed"}
  <2>1. OpStatus(o) = "none"
    BY <1>1, Statuses DEF Unfinished
  <2>2. ASSUME NEW p \in Ops, ops[p].app = a PROVE OpStatus(p) \in {"succeeded", "failed"}
    BY <1>2, <2>2, Statuses DEF Unfinished
  <2> QED
    BY <2>1, <2>2
<1>4. OpStatus(o)' = "open"
  <2>1. Unfinished(o)' /\ apps'[ops'[o].app].active = apps[a].active
    BY <1>1 DEF Unfinished
  <2>2. apps[a].active # o
    BY <1>1 DEF WInv, SelectedRows, Ops, NoOp
  <2> QED
    BY <2>1, <2>2, Statuses
<1>5. ASSUME NEW p \in Ops, p # o PROVE OpStatus(p)' = OpStatus(p)
  <2>1. ops'[p] = ops[p] /\ (Unfinished(p)' <=> Unfinished(p))
    BY <1>1, <1>5 DEF Unfinished
  <2>2. Unfinished(p) => ops[p].app \in Apps
    BY DEF IInv, DbInv, Unfinished
  <2> QED
    BY <1>1, <2>1, <2>2, Statuses
<1>6. /\ [p \in Ops |-> OpStatus(p)]' = [[p \in Ops |-> OpStatus(p)] EXCEPT ![o] = "open"]
      /\ [p \in Ops |-> ops[p].app]' = [[p \in Ops |-> ops[p].app] EXCEPT ![o] = a]
      /\ [b \in Apps |-> apps[b].active]' = [b \in Apps |-> apps[b].active]
  BY <1>1, <1>4, <1>5
<1>7. Promise!Accept(o, a)
  BY <1>3, <1>6 DEF Promise!Accept
<1> QED
  BY <1>7 DEF Promise!Next

\* Requests, time and the environment write no operation and select nothing.
LEMMA OthersSelect ==
  ASSUME IInv, Ingress \/ Environment
  PROVE  UNCHANGED ops /\ \A a \in Apps : apps'[a].active = apps[a].active
<1>1. DbTypeOK
  BY DEF IInv, DbInv
<1>2. UNCHANGED ops
  BY DEF Ingress, GatewayStep, Enter, Route, Wake, Refuse, Connect, Unavailable, Finish, ServiceRestarts,
         Leave, Environment, LoseAuthority, IdleElapses, ExpireRetired, AppExits, FinishOrphan, dbVars
<1>3. \/ apps' = apps
      \/ \E a : \/ apps' = [apps EXCEPT ![a].authorized = FALSE]
                \/ apps' = [apps EXCEPT ![a].idle = TRUE]
                \/ apps' = [apps EXCEPT ![a].idle = FALSE]
                \/ apps' = [apps EXCEPT ![a].runtime = "queued"]
  BY DEF Ingress, GatewayStep, Enter, Route, Wake, Refuse, Connect, Unavailable, Finish, ServiceRestarts,
         Leave, Environment, LoseAuthority, IdleElapses, ExpireRetired, AppExits, FinishOrphan, dbVars
<1>4. ASSUME NEW a \in Apps PROVE apps'[a].active = apps[a].active
  BY <1>1, <1>3 DEF DbTypeOK, AppRow
<1> QED
  BY <1>2, <1>4

\* So they are not seen.
LEMMA OthersUnseen ==
  ASSUME IInv, Ingress \/ Environment
  PROVE  UNCHANGED Promise!vars
BY OthersSelect, UnseenStutters DEF Unseen, Unfinished

\* The platform keeps the promise of module Publication: an operation ends once,
\* only a deployment selects a release, one whose release is selected does not
\* fail, and one that fails leaves the selected release alone.
THEOREM PromiseKept == Spec => KeepsPromise
<1>1. Init => Promise!Init
  <2> SUFFICES ASSUME Init PROVE Promise!Init
    OBVIOUS
  <2>1. \A o \in Ops : ~Unfinished(o) /\ ops[o].state = "none" /\ ops[o].app = NoApp
    BY DEF Init, DbInit, Unfinished
  <2>2. \A o \in Ops : OpStatus(o) = "none"
    BY <2>1, Statuses
  <2>3. \A a \in Apps : apps[a].active = NoOp
    BY DEF Init, DbInit
  <2> QED
    BY <2>1, <2>2, <2>3 DEF Promise!Init
<1>2. IInv /\ WInv /\ [Next]_vars => [Promise!Next]_Promise!vars
  <2> SUFFICES ASSUME IInv, WInv, [Next]_vars
               PROVE  Promise!Next \/ UNCHANGED Promise!vars
    OBVIOUS
  <2>1. CASE UNCHANGED vars
    <3>1. UNCHANGED <<apps, ops>>
      BY <2>1 DEF vars, dbVars
    <3> QED
      BY <3>1, UnseenStutters DEF Unseen, Unfinished
  <2> QED
    BY <2>1, PublisherPromises, LifecyclePromises, AdmissionPromises, OthersUnseen DEF Next
<1> QED
  BY <1>1, <1>2, Invariant, WorkersInvariant, PTL DEF Spec, KeepsPromise, Promise!Spec

-----------------------------------------------------------------------------

\* What operation o counts for in the month's allowance.
Spent(o) == IF ops[o].charge = Unsettled THEN BuildSeconds ELSE ops[o].charge

\* There are finitely many operations.
LEMMA FiniteOps == IsFiniteSet(Ops)
  BY FS_Interval, ConstantsAssumption DEF Ops

\* n is the sum of d's values on S.
IsTotal(n, d, S) == \E g : IsSum(g, d, S) /\ n = g[S]

\* The element that MapThenSumSet takes out of a set first.
FirstOf == [s \in SUBSET Ops |-> CHOOSE x \in s : TRUE]

LEMMA FirstOfChooses == Chooses(FirstOf, Ops)
  BY DEF FirstOf, Chooses

\* UsedSeconds is the sum that MapThenSumSet's definition computes.
LEMMA UsedIsTotal ==
  ASSUME DbTypeOK, NEW d, d = [o \in Ops |-> Spent(o)]
  PROVE  d \in [Ops -> Nat] /\ IsTotal(UsedSeconds, d, Ops)
<1> DEFINE step(g) == [s \in SUBSET Ops |->
             IF s = {} THEN 0 ELSE LET x == CHOOSE x \in s : TRUE IN Spent(x) + g[s \ {x}]]
           iter == CHOOSE g : g = step(g)
<1>1. \A o \in Ops : Spent(o) \in Nat
  BY ConstantsAssumption DEF DbTypeOK, OpRow, Spent, Unsettled
<1>2. d \in [Ops -> Nat] /\ d \in [Ops -> Int]
  BY <1>1
<1>3. UsedSeconds = iter[Ops]
  BY DEF UsedSeconds, MapThenSumSet, MapThenFoldSet, Spent
<1>4. ASSUME NEW g PROVE step(g) = Unfold(d, FirstOf, Ops, g)
  <2>1. ASSUME NEW s \in SUBSET Ops, s # {}
        PROVE  /\ Spent(CHOOSE x \in s : TRUE) = d[FirstOf[s]]
               /\ FirstOf[s] = CHOOSE x \in s : TRUE
    BY <2>1 DEF FirstOf
  <2>2. ASSUME NEW s \in SUBSET Ops
        PROVE  step(g)[s] = Unfold(d, FirstOf, Ops, g)[s]
    <3>1. CASE s = {}
      BY <3>1 DEF Unfold
    <3>2. CASE s # {}
      <4>1. step(g)[s] = Spent(CHOOSE x \in s : TRUE) + g[s \ {CHOOSE x \in s : TRUE}]
        BY <3>2
      <4>2. Unfold(d, FirstOf, Ops, g)[s] = d[FirstOf[s]] + g[s \ {FirstOf[s]}]
        BY <3>2 DEF Unfold
      <4> QED
        BY <2>1, <3>2, <4>1, <4>2
    <3> QED
      BY <3>1, <3>2
  <2> QED
    BY <2>2 DEF Unfold
<1>5. PICK g : g = Unfold(d, FirstOf, Ops, g)
  BY <1>2, FiniteOps, FirstOfChooses, UnfoldExists
<1>6. g = step(g)
  BY <1>4, <1>5
<1>7. iter = step(iter)
  BY <1>6
<1>8. iter = Unfold(d, FirstOf, Ops, iter)
  BY <1>4, <1>7
<1>9. IsSum(iter, d, Ops)
  <2>1. PICK f : f = iter
    OBVIOUS
  <2>2. f = Unfold(d, FirstOf, Ops, f)
    BY <1>8, <2>1
  <2>3. IsSum(f, d, Ops)
    BY <1>2, <2>2, FiniteOps, FirstOfChooses, UnfoldSums
  <2> QED
    BY <2>1, <2>3
<1> QED
  BY <1>2, <1>3, <1>9 DEF IsTotal

\* The same of the next state.
LEMMA NextUsedIsTotal ==
  ASSUME DbTypeOK', NEW d, d = [o \in Ops |-> Spent(o)']
  PROVE  d \in [Ops -> Nat] /\ IsTotal(UsedSeconds', d, Ops)
<1> DEFINE step(g) == [s \in SUBSET Ops |->
             IF s = {} THEN 0 ELSE LET x == CHOOSE x \in s : TRUE IN Spent(x)' + g[s \ {x}]]
           iter == CHOOSE g : g = step(g)
<1>1. \A o \in Ops : Spent(o)' \in Nat
  BY ConstantsAssumption DEF DbTypeOK, OpRow, Spent, Unsettled
<1>2. d \in [Ops -> Nat] /\ d \in [Ops -> Int]
  BY <1>1
<1>3. UsedSeconds' = iter[Ops]
  BY DEF UsedSeconds, MapThenSumSet, MapThenFoldSet, Spent
<1>4. ASSUME NEW g PROVE step(g) = Unfold(d, FirstOf, Ops, g)
  <2>1. ASSUME NEW s \in SUBSET Ops, s # {}
        PROVE  /\ Spent(CHOOSE x \in s : TRUE)' = d[FirstOf[s]]
               /\ FirstOf[s] = CHOOSE x \in s : TRUE
    BY <2>1 DEF FirstOf
  <2>2. ASSUME NEW s \in SUBSET Ops
        PROVE  step(g)[s] = Unfold(d, FirstOf, Ops, g)[s]
    <3>1. CASE s = {}
      BY <3>1 DEF Unfold
    <3>2. CASE s # {}
      <4>1. step(g)[s] = Spent(CHOOSE x \in s : TRUE)' + g[s \ {CHOOSE x \in s : TRUE}]
        BY <3>2
      <4>2. Unfold(d, FirstOf, Ops, g)[s] = d[FirstOf[s]] + g[s \ {FirstOf[s]}]
        BY <3>2 DEF Unfold
      <4> QED
        BY <2>1, <3>2, <4>1, <4>2
    <3> QED
      BY <3>1, <3>2
  <2> QED
    BY <2>2 DEF Unfold
<1>5. PICK g : g = Unfold(d, FirstOf, Ops, g)
  BY <1>2, FiniteOps, FirstOfChooses, UnfoldExists
<1>6. g = step(g)
  BY <1>4, <1>5
<1>7. iter = step(iter)
  BY <1>6
<1>8. iter = Unfold(d, FirstOf, Ops, iter)
  BY <1>4, <1>7
<1>9. IsSum(iter, d, Ops)
  <2>1. PICK f : f = iter
    OBVIOUS
  <2>2. f = Unfold(d, FirstOf, Ops, f)
    BY <1>8, <2>1
  <2>3. IsSum(f, d, Ops)
    BY <1>2, <2>2, FiniteOps, FirstOfChooses, UnfoldSums
  <2> QED
    BY <2>1, <2>3
<1> QED
  BY <1>2, <1>3, <1>9 DEF IsTotal

\* A step changes the count of one operation at most: admission reserves a whole
\* build, and a build is settled within its reservation.
ChargesOne ==
  \/ \A o \in Ops : Spent(o)' = Spent(o)
  \/ \E p \in Ops : /\ \A o \in Ops : o # p => Spent(o)' = Spent(o)
                    /\ \/ CanReserveBuild /\ Spent(p) = 0 /\ Spent(p)' = BuildSeconds
                       \/ Spent(p)' <= Spent(p)

\* Of admission, only Deploy reserves.
LEMMA AdmissionCharges ==
  ASSUME IInv, WInv, Admission
  PROVE  ChargesOne
<1>1. DbTypeOK
  BY DEF IInv, DbInv
<1>2. ASSUME NEW a \in Apps, NEW kind \in {"deploy", "secret-change"}, NEW o \in Ops, Fresh(o),
             ops' = [ops EXCEPT ![o] = NewOp(a, kind)], kind = "deploy" => CanReserveBuild
      PROVE  ChargesOne
  <2>1. /\ \A p \in Ops : p # o => Spent(p)' = Spent(p)
        /\ ops'[o].charge = IF kind = "deploy" THEN Unsettled ELSE 0
    BY <1>1, <1>2 DEF DbTypeOK, NewOp, Spent
  <2>2. ops[o].charge = 0
    BY <1>2 DEF Fresh, WInv, FreshRows
  <2>3. CASE kind = "deploy"
    BY <1>2, <2>1, <2>2, <2>3 DEF ChargesOne, Spent, Unsettled
  <2>4. CASE kind # "deploy"
    <3>1. Spent(o)' = Spent(o)
      BY <2>1, <2>2, <2>4 DEF Spent, Unsettled
    <3> QED
      BY <2>1, <3>1 DEF ChargesOne
  <2> QED
    BY <2>3, <2>4
<1>3. PICK a \in Apps : Deploy(a) \/ \E action \in {"set", "remove"} : ChangeSecret(a, action)
  BY DEF Admission
<1>4. CASE Deploy(a)
  BY <1>2, <1>4 DEF Deploy
<1>5. CASE \E action \in {"set", "remove"} : ChangeSecret(a, action)
  BY <1>2, <1>5 DEF ChangeSecret
<1> QED
  BY <1>3, <1>4, <1>5

\* Of the publishing worker, only Settle charges.
LEMMA PublisherCharges ==
  ASSUME IInv, WInv, Publisher
  PROVE  ChargesOne
<1> USE DEF At
<1>1. DbTypeOK
  BY DEF IInv, DbInv
<1>2. ASSUME \A o \in Ops : ops'[o].charge = ops[o].charge PROVE ChargesOne
  BY <1>2 DEF ChargesOne, Spent
<1>3. CASE Settle /\ ops' # ops
  <2>1. PICK o \in Ops : o = pub.op
    BY <1>3 DEF Settle, IInv, PubInv, PubWorking
  <2>2. PICK seconds \in Charges :
          ops' = [ops EXCEPT ![o].charge = IF @ = Unsettled THEN seconds ELSE @]
    BY <1>3, <2>1 DEF Settle
  <2>3. /\ \A p \in Ops : p # o => ops'[p] = ops[p]
        /\ ops[o].charge = Unsettled => ops'[o].charge = seconds
        /\ ops[o].charge # Unsettled => ops'[o].charge = ops[o].charge
    BY <1>1, <2>2 DEF DbTypeOK, OpRow
  <2>4. seconds \in Nat /\ seconds <= BuildSeconds /\ seconds # Unsettled
    BY ConstantsAssumption DEF Charges, Unsettled
  <2>5. ops[o].charge \in Int
    BY <1>1 DEF DbTypeOK, OpRow
  <2>6. Spent(o)' <= Spent(o)
    <3>1. CASE ops[o].charge = Unsettled
      BY <2>3, <2>4, <3>1 DEF Spent
    <3>2. CASE ops[o].charge # Unsettled
      BY <2>3, <2>5, <3>2 DEF Spent
    <3> QED
      BY <3>1, <3>2
  <2>7. \A p \in Ops : p # o => Spent(p)' = Spent(p)
    BY <2>3 DEF Spent
  <2> QED
    BY <2>6, <2>7 DEF ChargesOne
<1>4. CASE Claim \/ Admit \/ Switch \/ Succeed
  <2>1. ops' = ops \/ \E o \in Ops \cup {pub.op} : \E state : ops' = [ops EXCEPT ![o].state = state]
    BY <1>4 DEF Claim, Admit, Switch, Succeed
  <2>2. ASSUME NEW o, NEW state, ops' = [ops EXCEPT ![o].state = state] PROVE ChargesOne
    BY <1>1, <1>2, <2>2 DEF DbTypeOK, OpRow
  <2> QED
    BY SMTT(60), <1>2, <2>1, <2>2
<1>5. CASE Record
  <2>1. \E state, reconcile : ops' = [ops EXCEPT ![pub.op].state = state, ![pub.op].reconcile = reconcile]
    BY <1>5 DEF Record, Recorded
  <2>2. \A o \in Ops : ops'[o].charge = ops[o].charge
    BY <1>1, <2>1 DEF DbTypeOK, OpRow
  <2> QED
    BY <1>2, <2>2
<1>6. CASE PublisherRecovers
  <2>1. \A o \in Ops : ops'[o] \in {ops[o], [ops[o] EXCEPT !.reconcile = TRUE]} /\ ops[o] \in OpRow
    BY <1>1, <1>6 DEF PublisherRecovers, Interrupted, DbTypeOK
  <2>2. \A o \in Ops : ops'[o].charge = ops[o].charge
    BY <2>1 DEF OpRow
  <2> QED
    BY <1>2, <2>2
<1>7. CASE ops' = ops
  BY <1>2, <1>7
<1> QED
  <2>1. ops' = ops \/ Settle \/ Claim \/ Admit \/ Switch \/ Succeed \/ Record \/ PublisherRecovers
    BY DEF Publisher, PublisherStep, PublisherWork, PublisherCrashes, Build, Prepare, Launch, Ready,
           Promote, Promoted, Discard, Undo, Forget, dbVars
  <2> QED
    BY <1>3, <1>4, <1>5, <1>6, <1>7, <2>1

\* The others change no charge.
LEMMA OthersCharge ==
  ASSUME IInv, Ingress \/ Lifecycle \/ Environment \/ UNCHANGED vars
  PROVE  ChargesOne
<1>1. DbTypeOK
  BY SMTT(60) DEF IInv, DbInv
<1>2. ops' = ops \/ \E state : ops' = [ops EXCEPT ![lc.op].state = state]
  BY DEF Ingress, GatewayStep, Enter, Route, Wake, Refuse, Connect, Unavailable, Finish,
         ServiceRestarts, Leave, Lifecycle, LifecycleStep, LifecycleWork, LifecycleRecovery,
         RecoverSecretChanges, RecoverStarts, Scan, ScanEnds, TryLock, Begin, Skip, Stop,
         RetireSecrets, WakeApp, ReadyApp, Commit, Stopped, UndoApp, Expire, Result, FinishSecret,
         LifecycleCrashes, Environment, LoseAuthority, IdleElapses, ExpireRetired, AppExits,
         FinishOrphan, dbVars, vars
<1>3. \A o \in Ops : ops'[o].charge = ops[o].charge
  <2>1. ASSUME NEW o, NEW state, ops' = [ops EXCEPT ![o].state = state]
        PROVE  \A p \in Ops : ops'[p].charge = ops[p].charge
    BY <1>1, <2>1 DEF DbTypeOK, OpRow
  <2> QED
    BY <1>2, <2>1
<1> QED
  BY <1>3 DEF ChargesOne, Spent

\* Charges and reservations are within the month's allowance.
WithinMonth == UsedSeconds <= MonthSeconds

\* The month's allowance is never exceeded, by charges and reservations together,
\* and no deployment ends without a charge (allowance.py reserve and settle).
THEOREM AllowanceKept == Spec => []BuildsAccounted
<1>1. Init => WithinMonth
  <2> SUFFICES ASSUME Init PROVE UsedSeconds <= MonthSeconds
    BY DEF WithinMonth
  <2>1. DbTypeOK
    BY InitInv DEF IInv, DbInv
  <2>2. PICK d : d = [o \in Ops |-> Spent(o)]
    OBVIOUS
  <2>3. d = [o \in Ops |-> 0]
    BY <2>2 DEF Init, DbInit, Spent, Unsettled
  <2>4. UsedSeconds = 0
    BY <2>1, <2>2, <2>3, UsedIsTotal, FiniteOps, SumOfZeros DEF IsTotal
  <2> QED
    BY <2>4, ConstantsAssumption
<1>2. IInv /\ IInv' /\ WInv /\ WithinMonth /\ [Next]_vars => WithinMonth'
  <2> SUFFICES ASSUME IInv, IInv', WInv, UsedSeconds <= MonthSeconds, [Next]_vars
               PROVE  UsedSeconds' <= MonthSeconds
    BY DEF WithinMonth
  <2>1. DbTypeOK /\ DbTypeOK'
    BY DEF IInv, DbInv
  <2>2. ChargesOne
    BY AdmissionCharges, PublisherCharges, OthersCharge DEF Next
  <2>3. PICK d, e : d = [o \in Ops |-> Spent(o)] /\ e = [o \in Ops |-> Spent(o)']
    OBVIOUS
  <2>4. /\ d \in [Ops -> Nat] /\ IsTotal(UsedSeconds, d, Ops)
        /\ e \in [Ops -> Nat] /\ IsTotal(UsedSeconds', e, Ops)
    BY <2>1, <2>3, UsedIsTotal, NextUsedIsTotal
  <2>5. ASSUME NEW p \in Ops, \A o \in Ops : o # p => Spent(o)' = Spent(o)
        PROVE  /\ UsedSeconds \in Int /\ Spent(p) \in Nat /\ Spent(p)' \in Nat
               /\ UsedSeconds' = UsedSeconds + Spent(p)' - Spent(p)
    <3>1. /\ d \in [Ops -> Int] /\ e \in [Ops -> Int] /\ \A o \in Ops : o # p => e[o] = d[o]
          /\ e[p] = Spent(p)' /\ d[p] = Spent(p) /\ e[p] \in Nat /\ d[p] \in Nat
      BY <2>3, <2>4, <2>5
    <3>2. UsedSeconds \in Int /\ UsedSeconds' = UsedSeconds + e[p] - d[p]
      <4>1. PICK g, h : /\ IsSum(g, d, Ops) /\ UsedSeconds = g[Ops]
                        /\ IsSum(h, e, Ops) /\ UsedSeconds' = h[Ops]
        BY <2>4 DEF IsTotal
      <4>2. g[Ops] \in Int /\ h[Ops] = g[Ops] + e[p] - d[p]
        BY <3>1, <4>1, FiniteOps, SumChanges
      <4> QED
        BY <4>1, <4>2
    <3> QED
      BY <3>1, <3>2
  <2>6. CASE \A o \in Ops : Spent(o)' = Spent(o)
    <3>1. CASE Ops = {}
      <4>1. d = [o \in Ops |-> 0] /\ e = [o \in Ops |-> 0]
        BY <2>3, <3>1
      <4>2. UsedSeconds' = 0
        BY <2>4, <4>1, FiniteOps, SumOfZeros DEF IsTotal
      <4> QED
        BY <4>2, ConstantsAssumption
    <3>2. ASSUME NEW p \in Ops PROVE UsedSeconds' <= MonthSeconds
      BY <2>5, <2>6
    <3> QED
      BY <3>1, <3>2
  <2>7. ASSUME NEW p \in Ops, \A o \in Ops : o # p => Spent(o)' = Spent(o),
               \/ CanReserveBuild /\ Spent(p) = 0 /\ Spent(p)' = BuildSeconds
               \/ Spent(p)' <= Spent(p)
        PROVE  UsedSeconds' <= MonthSeconds
    BY <2>5, <2>7, ConstantsAssumption DEF CanReserveBuild
  <2> QED
    BY <2>2, <2>6, <2>7 DEF ChargesOne
<1>3. WInv /\ WithinMonth => BuildsAccounted
  BY DEF WInv, Charged, WithinMonth, BuildsAccounted
<1> QED
  BY <1>1, <1>2, <1>3, Invariant, WorkersInvariant, PTL DEF Spec

=============================================================================
