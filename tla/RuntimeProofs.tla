----------------------------- MODULE RuntimeProofs -----------------------------
(***************************************************************************)
(* What the workers leave on the runtime host and in the registry, for     *)
(* every instance of Platform: a container behind each route, the saved    *)
(* secrets in it, a reservation for it, no container where the workers'    *)
(* records say that there is none; and, between deployments, exactly the   *)
(* release that an app's row selects, on the host and in the registry.     *)
(***************************************************************************)
EXTENDS WorkersProofs

\* The stages after the candidate has the active container's name.
Done == {"promoted", "discard", "succeed"}

\* Container c is the one that app a's row would describe, but for its role.
Serves(c, a, port, release) ==
  c.app = a /\ c.port = port /\ c.release = release /\ c.secret = apps[a].secret

\* A deployment selected its release and has not promoted its container.
Switching(a) ==
  \E o \in Ops : /\ ops[o].app = a /\ ops[o].kind = "deploy" /\ ops[o].state = "cleaning"
                 /\ ~(pub.op = o /\ pub.stage \in Done)

\* A running app has its container, an active one once it is promoted.
ServedAt(a) ==
  apps[a].runtime = "running" =>
    \E c \in containers : /\ Serves(c, a, apps[a].target, apps[a].active)
                          /\ c.role = "active" \/ Switching(a)

\* A value of a's secret is the saved one, or it is held for redaction.
Kept(value, a) ==
  value # NoOp => ops[value].app = a /\ (value = apps[a].secret \/ retired[value] = "held")

\* So are the saved secret of a and those in its containers and launches.
KeptAt(a) ==
  /\ Kept(apps[a].secret, a)
  /\ \A c \in containers \cup orphan : c.app = a => Kept(c.secret, a)

\* As long as no launch outlived its caller, a's containers have its reservation.
ReservedAt(a) ==
  orphans = 0 => \A c \in containers : c.app = a => Reserved(a)

\* What an app's row and the runtime host say of each other.
AppInv(a) == ServedAt(a) /\ KeptAt(a) /\ ReservedAt(a)

\* The new container of the publishing worker is the one it will select.
PubServes ==
  /\ pub.stage \in {"ready", "switch", "promote"} =>
       \E c \in containers : Serves(c, Target, pub.port, pub.op) /\ c.role = UndoneRole
  /\ pub.stage = "launch" => pub.secret = apps[Target].secret

\* The first deployment of an app, and that of a stopped one, has no container
\* beside its own, and none at all before the launch and after the clean-up.
PubClean ==
  orphans = 0 /\ PubWorking /\ ~pub.container =>
    /\ (\/ pub.stage \in {"build", "settle", "admit", "prepare", "launch", "forget"}
        \/ pub.stage = "record" /\ ~pub.reconcile)
         => \A c \in containers : c.app # Target
    /\ pub.stage \in {"ready", "switch", "undo"} =>
         \A c \in containers : c.app = Target => c.role = "active"

\* The lifecycle worker starts the selected release, and its container stands.
LcServes ==
  /\ LcActing => lc.active = apps[lc.app].active
  /\ lc.stage \in {"ready", "commit"} =>
       \E c \in containers : Serves(c, lc.app, lc.port, lc.active) /\ c.role = "active"

\* The lifecycle worker's last stop of its app was confirmed.
Confirmed ==
  \/ lc.stage \in {"retire", "expire", "stopped"}
  \/ lc.stage = "result" /\ lc.result # "blocked"
  \/ lc.stage = "finish" /\ apps[lc.app].runtime \notin {"running", "blocked"}

\* After a confirmed stop nothing of the app is left on the host.
LcClean == Confirmed => \A c \in containers \cup orphan : c.app # lc.app

\* A launch that outlives its caller has been counted.
NoOrphan == orphans = 0 => orphan = {}

\* The invariant of the runtime host.
RInv ==
  /\ \A a \in Apps : AppInv(a)
  /\ PubServes /\ PubClean /\ LcServes /\ LcClean /\ NoOrphan

-----------------------------------------------------------------------------

\* The platform starts in the invariant.
LEMMA RuntimeInitially == Init => RInv
<1> SUFFICES ASSUME Init PROVE RInv
  OBVIOUS
<1> USE DEF Init, DbInit, HostsInit, PublishingInit, LifecycleInit
<1>1. ASSUME NEW a \in Apps PROVE AppInv(a)
  BY <1>1 DEF AppInv, ServedAt, KeptAt, Kept, ReservedAt
<1>2. PubServes /\ PubClean
  BY DEF PubServes, PubClean, PubWorking, PubIdle
<1>3. LcServes /\ LcClean /\ NoOrphan
  BY DEF LcServes, LcActing, LcWorking, LcClean, NoOrphan, LcIdle
<1> QED
  BY <1>1, <1>2, <1>3 DEF RInv

-----------------------------------------------------------------------------

\* Two containers that differ in nothing but whether they run.
Alike(c, d) ==
  /\ c.app = d.app /\ c.role = d.role /\ c.port = d.port
  /\ c.release = d.release /\ c.secret = d.secret

\* A step leaves a's containers where they are, and starts no launch for it.
HostStill(a) ==
  /\ \A c \in containers : c.app = a => \E d \in containers' : Alike(c, d)
  /\ \A d \in containers' : d.app = a => \E c \in containers : Alike(d, c)
  /\ \A n \in orphan' : n.app = a => n \in orphan

\* A step leaves a's row as it is, or the app with an operation; no operation on
\* it gives back a reservation, and none of its held secrets expires.
RowStill(a) ==
  /\ apps'[a].secret = apps[a].secret
  /\ \/ apps'[a].runtime \in Busy
     \/ /\ apps'[a].runtime = apps[a].runtime /\ apps'[a].target = apps[a].target
        /\ apps'[a].active = apps[a].active
  /\ \A o \in Ops : ops[o].app = a =>
       /\ ops'[o].app = a /\ ops'[o].kind = ops[o].kind
       /\ ops[o].state \in {"starting", "cleaning"} => ops'[o].state \in {"starting", "cleaning"}
       /\ ops[o].kind = "deploy" /\ ops[o].state = "cleaning" => ops'[o].state = "cleaning"
       /\ retired[o] = "held" => retired'[o] = "held"
  /\ pub'.stage \in Done /\ ops'[pub'.op].app = a => pub.stage \in Done /\ pub'.op = pub.op

\* What an app's containers and row say of each other stands over such a step.
LEMMA AppStands ==
  ASSUME IInv, RInv, NEW a \in Apps, HostStill(a), RowStill(a), orphans' = 0 => orphans = 0
  PROVE  AppInv(a)'
<1>1. /\ AppInv(a) /\ apps[a] \in AppRow /\ containers \subseteq Container
      /\ orphan \subseteq [app: Apps, release: Ops, secret: Ops \cup {NoOp}, candidate: BOOLEAN]
  BY DEF RInv, IInv, DbInv, DbTypeOK, HostsInv, HostsTypeOK
<1>2. Switching(a) => Switching(a)'
  BY DEF Switching, RowStill
<1>3. ServedAt(a)'
  <2> SUFFICES ASSUME apps'[a].runtime = "running"
               PROVE  \E d \in containers' : /\ Serves(d, a, apps[a].target, apps[a].active)'
                                             /\ d.role = "active" \/ Switching(a)'
    BY DEF ServedAt
  <2>1. /\ apps[a].runtime = "running" /\ apps'[a].target = apps[a].target
        /\ apps'[a].active = apps[a].active /\ apps'[a].secret = apps[a].secret
    BY DEF RowStill, Busy
  <2>2. PICK c \in containers : /\ Serves(c, a, apps[a].target, apps[a].active)
                                /\ c.role = "active" \/ Switching(a)
    BY <1>1, <2>1 DEF AppInv, ServedAt
  <2>3. PICK d \in containers' : Alike(c, d)
    BY <2>2 DEF HostStill, Serves
  <2> QED
    BY <1>2, <2>1, <2>2, <2>3 DEF Serves, Alike
<1>4. ASSUME NEW value \in Ops \cup {NoOp}, Kept(value, a) PROVE Kept(value, a)'
  BY <1>4 DEF Kept, RowStill
<1>5. KeptAt(a)'
  <2>1. Kept(apps[a].secret, a)'
    BY <1>1, <1>4 DEF AppInv, KeptAt, AppRow, RowStill, Kept
  <2>2. ASSUME NEW d \in containers', d.app = a PROVE Kept(d.secret, a)'
    <3>1. PICK c \in containers : Alike(d, c)
      BY <2>2 DEF HostStill
    <3> QED
      BY <1>1, <1>4, <2>2, <3>1 DEF AppInv, KeptAt, Alike, Container, Kept
  <2>3. ASSUME NEW n \in orphan', n.app = a PROVE Kept(n.secret, a)'
    <3>1. n \in orphan
      BY <2>3 DEF HostStill
    <3> QED
      BY <1>1, <1>4, <2>3, <3>1 DEF AppInv, KeptAt, Kept
  <2> QED
    BY <2>1, <2>2, <2>3 DEF KeptAt
<1>6. ReservedAt(a)'
  <2> SUFFICES ASSUME orphans' = 0, NEW d \in containers', d.app = a PROVE Reserved(a)'
    BY DEF ReservedAt
  <2>1. PICK c \in containers : Alike(d, c)
    BY DEF HostStill
  <2>2. Reserved(a)
    BY <1>1, <2>1 DEF AppInv, ReservedAt, Alike
  <2> QED
    BY <2>2 DEF Reserved, RowStill
<1> QED
  BY <1>3, <1>5, <1>6 DEF AppInv

\* So does what the lifecycle worker knows of its app, in a step of another.
LEMMA LifecycleStands ==
  ASSUME IInv, RInv, UNCHANGED lc,
         LcActing => /\ HostStill(lc.app)
                     /\ apps'[lc.app].secret = apps[lc.app].secret
                     /\ apps'[lc.app].active = apps[lc.app].active
                     /\ lc.stage = "finish" => apps'[lc.app].runtime = apps[lc.app].runtime
  PROVE  LcServes' /\ LcClean'
<1>1. LcServes'
  <2>1. ASSUME lc.stage \in {"ready", "commit"}
        PROVE  \E d \in containers' : Serves(d, lc.app, lc.port, lc.active)' /\ d.role = "active"
    <3>1. LcActing
      BY <2>1 DEF LcActing, LcWorking
    <3>2. PICK c \in containers : Serves(c, lc.app, lc.port, lc.active) /\ c.role = "active"
      BY <2>1 DEF RInv, LcServes
    <3>3. PICK d \in containers' : Alike(c, d)
      BY <3>1, <3>2 DEF HostStill, Serves
    <3> QED
      BY <3>1, <3>2, <3>3 DEF Serves, Alike
  <2> QED
    BY <2>1 DEF RInv, LcServes, LcActing, LcWorking
<1>2. LcClean'
  <2> SUFFICES ASSUME Confirmed', NEW d \in containers' \cup orphan', d.app = lc.app PROVE FALSE
    BY DEF LcClean
  <2>1. LcActing /\ Confirmed
    BY DEF Confirmed, LcActing, LcWorking
  <2>2. \E c \in containers \cup orphan : c.app = lc.app
    BY <2>1 DEF HostStill, Alike
  <2> QED
    BY <2>1, <2>2 DEF RInv, LcClean
<1> QED
  BY <1>1, <1>2

\* And what the publishing worker knows of its operation's app.
LEMMA PublisherStands ==
  ASSUME IInv, RInv, UNCHANGED pub, orphans' = 0 => orphans = 0,
         PubWorking => /\ HostStill(Target) /\ Target' = Target
                       /\ apps'[Target].secret = apps[Target].secret
  PROVE  PubServes' /\ PubClean'
<1>1. PubServes'
  <2>1. ASSUME pub.stage \in {"ready", "switch", "promote"}
        PROVE  \E d \in containers' : Serves(d, Target, pub.port, pub.op)' /\ d.role = UndoneRole'
    <3>1. PubWorking
      BY <2>1 DEF PubWorking
    <3>2. PICK c \in containers : Serves(c, Target, pub.port, pub.op) /\ c.role = UndoneRole
      BY <2>1 DEF RInv, PubServes
    <3>3. PICK d \in containers' : Alike(c, d)
      BY <3>1, <3>2 DEF HostStill, Serves
    <3> QED
      BY <3>1, <3>2, <3>3 DEF Serves, Alike, UndoneRole
  <2> QED
    BY <2>1 DEF RInv, PubServes, PubWorking
<1>2. PubClean'
  <2> SUFFICES ASSUME orphans' = 0, PubWorking', ~pub'.container PROVE PubClean'
    BY DEF PubClean
  <2>1. PubWorking /\ orphans = 0 /\ ~pub.container
    BY DEF PubWorking
  <2>2. \A d \in containers' : d.app = Target' => \E c \in containers : c.app = Target /\ c.role = d.role
    BY <2>1 DEF HostStill, Alike
  <2> QED
    BY <2>1, <2>2 DEF RInv, PubClean
<1> QED
  BY <1>1, <1>2

-----------------------------------------------------------------------------

\* A step that leaves containers and launches alone leaves each app's.
LEMMA HostsStill ==
  ASSUME UNCHANGED <<containers, orphan>>
  PROVE  \A a : HostStill(a)
BY DEF HostStill, Alike

\* Steps of requests, of time and of the operator: rows change at most in
\* authorized and idle, or to the queue.
LEMMA RuntimeOthersMoved ==
  ASSUME IInv, WInv, RInv, UNCHANGED <<ops, pub, lc, orphans>>,
         \A a \in Apps : HostStill(a), orphan' \subseteq orphan,
         \A v \in Ops : retired[v] = "held" => retired'[v] = "held",
         \A a \in Apps :
           /\ apps'[a].active = apps[a].active /\ apps'[a].target = apps[a].target
           /\ apps'[a].secret = apps[a].secret
           /\ \/ apps'[a].runtime = apps[a].runtime
              \/ apps'[a].runtime = "queued" /\ ~Pending(a)
  PROVE  RInv'
<1>1. ASSUME NEW a \in Apps PROVE AppInv(a)'
  <2>1. RowStill(a)
    BY <1>1 DEF RowStill, Busy
  <2> QED
    BY <1>1, <2>1, AppStands
<1>2. LcServes' /\ LcClean'
  <2>1. LcActing => lc.app \in Apps
    BY DEF IInv, LcInv, LcActing
  <2>2. lc.stage = "finish" => Pending(lc.app)
    BY DEF IInv, LcInv, LcWorking, LifecycleTypeOK, SecretChange, Pending
  <2> QED
    BY <2>1, <2>2, LifecycleStands
<1>3. PubServes' /\ PubClean'
  <2>1. PubWorking => Target \in Apps /\ Target' = Target
    BY DEF IInv, PubInv, DbInv, Target, Unfinished
  <2> QED
    BY <2>1, PublisherStands
<1>4. NoOrphan'
  BY DEF RInv, NoOrphan
<1> QED
  BY <1>1, <1>2, <1>3, <1>4 DEF RInv

\* An app's process exits: its container is the same but for that.
LEMMA ExitLeavesStill ==
  ASSUME HostsTypeOK, AppExits
  PROVE  \A a : HostStill(a)
<1>1. PICK c \in containers : containers' = (containers \ {c}) \cup {[c EXCEPT !.running = FALSE]}
  BY DEF AppExits
<1>2. Alike(c, [c EXCEPT !.running = FALSE]) /\ Alike([c EXCEPT !.running = FALSE], c)
  BY <1>1 DEF Alike, HostsTypeOK, Container
<1>3. \A d : Alike(d, d)
  BY DEF Alike
<1> QED
  BY <1>1, <1>2, <1>3 DEF HostStill, Alike, AppExits

\* The new container of a launch is the one asked for.
LEMMA NewContainerIs ==
  ASSUME NEW a, NEW release, NEW secret, NEW candidate, NEW up
  PROVE  LET new == NewContainer(a, release, secret, candidate, up)
         IN /\ new.app = a /\ new.release = release /\ new.secret = secret
            /\ new.role = (IF candidate THEN "candidate" ELSE "active")
            /\ new.port = FreePort
BY DEF NewContainer

\* A launch that fails leaves at most that container.
LEMMA LeftoversGain ==
  ASSUME NEW a, NEW release, NEW secret, NEW candidate,
         containers' \in LaunchLeftovers(a, release, secret, candidate)
  PROVE  \E new : /\ containers' = containers \/ containers' = containers \cup {new}
                  /\ new.app = a /\ new.release = release /\ new.secret = secret
                  /\ new.role = (IF candidate THEN "candidate" ELSE "active")
<1>1. PICK up : \/ containers' = containers
                \/ containers' = containers \cup {NewContainer(a, release, secret, candidate, up)}
  BY DEF LaunchLeftovers
<1>2. PICK new : new = NewContainer(a, release, secret, candidate, up)
  OBVIOUS
<1> QED
  BY <1>1, <1>2, NewContainerIs

\* A launch that outlived its caller ends: its app may have a container more,
\* with a secret that is still redacted.
LEMMA OrphanRuntime ==
  ASSUME IInv, WInv, RInv, FinishOrphan, UNCHANGED <<pub, lc>>
  PROVE  RInv'
<1>1. PICK n \in orphan : containers' \in LaunchLeftovers(n.app, n.release, n.secret, n.candidate)
  BY DEF FinishOrphan
<1>2. /\ UNCHANGED <<apps, ops, retired, orphans>> /\ orphan' = {}
      /\ DbTypeOK /\ n \in [app: Apps, release: Ops, secret: Ops \cup {NoOp}, candidate: BOOLEAN]
  BY <1>1 DEF FinishOrphan, dbVars, IInv, DbInv, HostsInv, HostsTypeOK
<1>3. PICK new : /\ containers' = containers \/ containers' = containers \cup {new}
                 /\ new.app = n.app /\ new.secret = n.secret
  BY <1>1, LeftoversGain
<1>4. orphans # 0
  BY <1>1 DEF RInv, NoOrphan
<1>5. ASSUME NEW a \in Apps PROVE AppInv(a)'
  <2>1. ServedAt(a)'
    BY <1>2, <1>3 DEF RInv, AppInv, ServedAt, Serves, Switching
  <2>2. KeptAt(a)'
    BY <1>1, <1>2, <1>3 DEF RInv, AppInv, KeptAt, Kept
  <2> QED
    BY <1>2, <1>4, <2>1, <2>2 DEF AppInv, ReservedAt
<1>6. PubServes' /\ PubClean'
  BY <1>2, <1>3, <1>4 DEF RInv, PubServes, PubClean, Serves, Target, UndoneRole
<1>7. LcServes' /\ LcClean'
  BY <1>1, <1>2, <1>3 DEF RInv, LcServes, LcActing, LcWorking, LcClean, Confirmed, Serves
<1> QED
  BY <1>2, <1>4, <1>5, <1>6, <1>7 DEF RInv, NoOrphan

\* Nothing in the environment breaks the invariant.
LEMMA EnvironmentRuntime ==
  ASSUME IInv, WInv, RInv, Environment
  PROVE  RInv'
<1>1. UNCHANGED <<pub, lc>> /\ DbTypeOK /\ HostsTypeOK
  BY DEF Environment, pubVars, lcVars, IInv, DbInv, HostsInv
<1>2. CASE FinishOrphan
  BY <1>1, <1>2, OrphanRuntime
<1>3. CASE AppExits
  <2>1. UNCHANGED <<apps, ops, retired, orphan, orphans>>
    BY <1>3 DEF AppExits, dbVars
  <2> QED
    BY <1>1, <1>3, <2>1, ExitLeavesStill, RuntimeOthersMoved
<1>4. ASSUME NEW a \in Apps, LoseAuthority(a) \/ IdleElapses(a)
      PROVE  RInv'
  <2>1. UNCHANGED <<ops, retired, containers, orphan, orphans>>
    BY <1>4 DEF LoseAuthority, IdleElapses, hostVars
  <2>2. \/ apps' = [apps EXCEPT ![a].authorized = FALSE]
        \/ apps' = [apps EXCEPT ![a].idle = TRUE]
    BY <1>4 DEF LoseAuthority, IdleElapses
  <2>3. \A b \in Apps : /\ apps'[b].active = apps[b].active /\ apps'[b].target = apps[b].target
                        /\ apps'[b].secret = apps[b].secret /\ apps'[b].runtime = apps[b].runtime
    BY <1>1, <2>2 DEF DbTypeOK, AppRow
  <2> QED
    BY <1>1, <2>1, <2>3, HostsStill, RuntimeOthersMoved
<1>5. CASE ExpireRetired
  <2>1. UNCHANGED <<apps, ops, containers, orphan, orphans>>
    BY <1>5 DEF ExpireRetired, hostVars
  <2>2. PICK v \in Ops : retired[v] = "expiring" /\ retired' = [retired EXCEPT ![v] = "no"]
    BY <1>5 DEF ExpireRetired
  <2>3. \A w \in Ops : retired[w] = "held" => retired'[w] = "held"
    BY <1>1, <2>2 DEF DbTypeOK
  <2> QED
    BY <1>1, <2>1, <2>3, HostsStill, RuntimeOthersMoved
<1> QED
  BY <1>2, <1>3, <1>4, <1>5 DEF Environment

\* No request breaks the invariant.
LEMMA IngressRuntime ==
  ASSUME IInv, WInv, RInv, Ingress
  PROVE  RInv'
<1>1. UNCHANGED <<ops, retired, pub, lc, containers, orphan, orphans>> /\ DbTypeOK
  BY DEF Ingress, GatewayStep, Enter, Route, Wake, Refuse, Connect, Unavailable, Finish,
         ServiceRestarts, Leave, dbVars, hostVars, pubVars, lcVars, IInv, DbInv
<1>2. ASSUME NEW a \in Apps
      PROVE  /\ apps'[a].active = apps[a].active /\ apps'[a].target = apps[a].target
             /\ apps'[a].secret = apps[a].secret
             /\ \/ apps'[a].runtime = apps[a].runtime
                \/ apps'[a].runtime = "queued" /\ ~Pending(a)
  <2>1. CASE apps' = apps
    BY <2>1
  <2>2. ASSUME NEW r \in Requests, Wake(r)
        PROVE  /\ apps'[a].active = apps[a].active /\ apps'[a].target = apps[a].target
               /\ apps'[a].secret = apps[a].secret
               /\ \/ apps'[a].runtime = apps[a].runtime
                  \/ apps'[a].runtime = "queued" /\ ~Pending(a)
    <3>1. apps' = [apps EXCEPT ![shared[r]].runtime = "queued"] /\ ~Pending(shared[r])
      BY <2>2 DEF Wake, Wakeable
    <3>2. CASE a = shared[r]
      BY <1>1, <3>1, <3>2 DEF DbTypeOK, AppRow
    <3>3. CASE a # shared[r]
      BY <1>1, <3>1, <3>3 DEF DbTypeOK
    <3> QED
      BY <3>2, <3>3
  <2>3. ASSUME NEW r \in Requests, Finish(r)
        PROVE  /\ apps'[a].active = apps[a].active /\ apps'[a].target = apps[a].target
               /\ apps'[a].secret = apps[a].secret /\ apps'[a].runtime = apps[a].runtime
    <3>1. apps' = [apps EXCEPT ![shared[r]].idle = FALSE]
      BY <2>3 DEF Finish
    <3> QED
      BY <1>1, <3>1 DEF DbTypeOK, AppRow
  <2> QED
    BY <2>1, <2>2, <2>3
    DEF Ingress, GatewayStep, Enter, Route, Refuse, Connect, Unavailable, ServiceRestarts, dbVars
<1> QED
  BY <1>1, <1>2, HostsStill, RuntimeOthersMoved

\* A new operation leaves the apps of others alone, and a secret change holds the
\* value that it replaces.
LEMMA AdmissionRuntime ==
  ASSUME IInv, WInv, RInv, Admission
  PROVE  RInv'
<1>1. UNCHANGED <<pub, lc, containers, orphan, orphans>> /\ DbTypeOK
  BY DEF Admission, Deploy, ChangeSecret, pubVars, lcVars, hostVars, IInv, DbInv
<1>2. PICK a \in Apps, o \in Ops, kind \in {"deploy", "secret-change"} :
        /\ ops[o].state = "none" /\ ops' = [ops EXCEPT ![o] = NewOp(a, kind)]
        /\ apps[a].exists => NoOperation(a)
        /\ kind = "deploy" => apps' = [apps EXCEPT ![a].exists = TRUE] /\ retired' = retired
        /\ kind = "secret-change" => /\ retired' = Retire(a)
                                     /\ \E value \in {o, NoOp} : apps' = Saved(a, value)
  <2>1. PICK a \in Apps : Deploy(a) \/ \E action \in {"set", "remove"} : ChangeSecret(a, action)
    BY DEF Admission
  <2>2. CASE Deploy(a)
    BY <2>2 DEF Deploy, Fresh
  <2>3. ASSUME NEW action, ChangeSecret(a, action)
        PROVE  \E o \in Ops :
                 /\ ops[o].state = "none" /\ ops' = [ops EXCEPT ![o] = NewOp(a, "secret-change")]
                 /\ NoOperation(a) /\ retired' = Retire(a)
                 /\ \E value \in {o, NoOp} : apps' = Saved(a, value)
    BY <2>3 DEF ChangeSecret, Fresh
  <2> QED
    BY <2>1, <2>2, <2>3
<1>3. /\ ops'[o].app = a /\ ops'[o].kind = kind /\ ops'[o].state = "accepted"
      /\ \A p \in Ops : p # o => ops'[p] = ops[p]
      /\ ops[o].app = NoApp /\ ops[o].app \notin Apps
  BY <1>1, <1>2, ConstantsAssumption DEF DbTypeOK, NewOp, WInv, FreshRows
<1>4. /\ apps'[a].active = apps[a].active
      /\ kind = "deploy" => /\ apps'[a].runtime = apps[a].runtime /\ apps'[a].target = apps[a].target
                            /\ apps'[a].secret = apps[a].secret
      /\ kind = "secret-change" => apps'[a].runtime = "stopping" /\ apps'[a].secret \in {o, NoOp}
      /\ \A b \in Apps : b # a => apps'[b] = apps[b]
  <2>1. CASE kind = "deploy"
    BY <1>1, <1>2, <2>1 DEF DbTypeOK, AppRow
  <2>2. CASE kind = "secret-change"
    BY <1>1, <1>2, <2>2 DEF DbTypeOK, AppRow, Saved
  <2> QED
    BY <2>1, <2>2
<1>5. apps[a].runtime \notin Busy /\ \A p \in Ops : ~(ops[p].app = a /\ Unfinished(p))
  <2>1. CASE apps[a].exists
    BY <1>2, <2>1 DEF NoOperation, Pending
  <2>2. CASE ~apps[a].exists
    BY <2>2 DEF WInv, FreshRows, Busy, IInv, DbInv, Unfinished
  <2> QED
    BY <2>1, <2>2
<1>6. /\ \A v \in Ops : retired[v] = "held" => retired'[v] = "held"
      /\ kind = "secret-change" /\ apps[a].secret # NoOp => retired'[apps[a].secret] = "held"
  BY <1>1, <1>2 DEF DbTypeOK, AppRow, Retire
<1>7. \A v \in Ops \cup {NoOp}, b \in Apps : Kept(v, b) /\ v # NoOp => v # o
  BY <1>3 DEF Kept
<1>8. /\ containers \subseteq Container
      /\ orphan \subseteq [app: Apps, release: Ops, secret: Ops \cup {NoOp}, candidate: BOOLEAN]
  BY DEF IInv, HostsInv, HostsTypeOK
<1>9. ASSUME NEW b \in Apps, b # a \/ kind = "deploy" PROVE AppInv(b)'
  <2>1. RowStill(b)
    BY <1>1, <1>3, <1>4, <1>6, <1>9 DEF RowStill
  <2> QED
    BY <1>1, <1>9, <2>1, HostsStill, AppStands
<1>10. ASSUME kind = "secret-change" PROVE AppInv(a)'
  <2>1. ServedAt(a)' /\ ReservedAt(a)'
    BY <1>4, <1>10 DEF ServedAt, ReservedAt, Reserved, Busy
  <2>2. KeptAt(a)'
    <3>1. Kept(apps[a].secret, a)'
      BY <1>3, <1>4, <1>10 DEF Kept
    <3>2. ASSUME NEW v \in Ops \cup {NoOp}, Kept(v, a) PROVE Kept(v, a)'
      <4> SUFFICES ASSUME v # NoOp PROVE ops'[v].app = a /\ retired'[v] = "held"
        BY DEF Kept
      <4>1. v \in Ops /\ v # o
        BY <1>7, <3>2
      <4> QED
        BY <1>3, <1>6, <1>10, <3>2, <4>1 DEF Kept
    <3>3. \A c \in containers \cup orphan : c.secret \in Ops \cup {NoOp}
      BY <1>8 DEF Container
    <3> QED
      BY <1>1, <3>1, <3>2, <3>3 DEF RInv, AppInv, KeptAt
  <2> QED
    BY <2>1, <2>2 DEF AppInv
<1>11. \A b \in Apps : AppInv(b)'
  BY <1>9, <1>10
<1>12. LcServes' /\ LcClean'
  <2>1. LcActing => lc.app \in Apps /\ lc.app # a
    <3> SUFFICES ASSUME LcActing, lc.app = a PROVE FALSE
      BY DEF IInv, LcInv, LcActing
    <3>1. lc.stage = "finish"
      BY <1>5 DEF WInv, LcHolds
    <3>2. SecretChange(lc.app, lc.op) /\ lc.op \in Ops
      BY <3>1 DEF LcActing, IInv, LcInv, LifecycleTypeOK
    <3> QED
      BY <1>5, <3>2 DEF SecretChange
  <2> QED
    BY <1>1, <1>4, <2>1, HostsStill, LifecycleStands
<1>13. PubServes' /\ PubClean'
  <2>1. PubWorking => pub.op # o /\ Target \in Apps /\ Target # a /\ Target' = Target
    BY <1>1, <1>3, <1>5 DEF IInv, PubInv, DbInv, Target, Unfinished
  <2> QED
    BY <1>1, <1>4, <2>1, HostsStill, PublisherStands
<1>14. NoOrphan'
  BY <1>1 DEF RInv, NoOrphan
<1> QED
  BY <1>11, <1>12, <1>13, <1>14 DEF RInv

-----------------------------------------------------------------------------

\* The publishing worker goes on with its operation, and not past its launch,
\* its clean-up or its promotion, in which it changes the containers.
PubWorksOn ==
  /\ pub'.op = pub.op /\ (pub'.container <=> pub.container)
  /\ \/ pub'.stage = "record" /\ pub'.reconcile
     \/ pub'.stage = "undo" /\ pub.stage \in Building \cup Starting
     \/ pub'.stage \in {"settle", "admit", "prepare"} /\ pub.stage \in Building
     \/ pub'.stage = "launch" /\ pub.stage = "prepare" /\ pub'.secret = apps[Target].secret
     \/ pub'.stage = "switch" /\ pub.stage = "ready" /\ pub'.port = pub.port
     \/ pub'.stage = "record" /\ pub.stage = "forget"
     \/ pub'.stage \in Done /\ pub.stage \in Done

\* Such a step keeps what the worker's stage says of the containers.
LEMMA WorksOnServes ==
  ASSUME IInv, RInv, PubWorking, PubWorksOn, UNCHANGED <<containers, orphans>>,
         ops'[pub.op].app = ops[pub.op].app, apps'[Target].secret = apps[Target].secret
  PROVE  PubServes' /\ PubClean'
<1> USE DEF Building, Starting, Done
<1>1. Target' = Target /\ (UndoneRole' = UndoneRole)
  BY DEF PubWorksOn, Target, UndoneRole
<1>2. PubServes'
  BY <1>1 DEF RInv, PubServes, PubWorksOn, Serves
<1>3. PubClean'
  <2> SUFFICES ASSUME orphans' = 0, ~pub'.container PROVE PubClean'
    BY DEF PubClean
  <2>1. orphans = 0 /\ ~pub.container
    BY DEF PubWorksOn
  <2>2. CASE (pub'.stage = "record" /\ pub'.reconcile) \/ pub'.stage \in Done
    BY <2>2 DEF PubClean
  <2>3. CASE ~((pub'.stage = "record" /\ pub'.reconcile) \/ pub'.stage \in Done)
    <3>1. \/ \A c \in containers : c.app # Target
          \/ /\ pub'.stage \in {"undo", "switch"}
             /\ \A c \in containers : c.app = Target => c.role = "active"
      BY <2>1, <2>3 DEF RInv, PubClean, PubWorksOn
    <3> QED
      BY <1>1, <2>3, <3>1 DEF PubClean
  <2> QED
    BY <2>2, <2>3
<1> QED
  BY <1>2, <1>3

\* A step of the publishing worker that leaves the hosts, and what the rows of
\* apps say of them, alone.
LEMMA PublisherQuiet ==
  ASSUME IInv, WInv, RInv, PubServes', PubClean',
         UNCHANGED <<retired, containers, orphan, orphans, lc>>,
         \A a \in Apps :
           /\ apps'[a].active = apps[a].active /\ apps'[a].target = apps[a].target
           /\ apps'[a].secret = apps[a].secret /\ apps'[a].runtime = apps[a].runtime,
         \A o \in Ops :
           /\ ops'[o].app = ops[o].app /\ ops'[o].kind = ops[o].kind
           /\ ops[o].state \in {"starting", "cleaning"} => ops'[o].state \in {"starting", "cleaning"}
           /\ ops[o].kind = "deploy" /\ ops[o].state = "cleaning" => ops'[o].state = "cleaning",
         pub'.stage \in Done => pub.stage \in Done /\ pub'.op = pub.op
  PROVE  RInv'
<1>1. ASSUME NEW a \in Apps PROVE AppInv(a)'
  <2>1. RowStill(a)
    BY <1>1 DEF RowStill
  <2> QED
    BY <1>1, <2>1, HostsStill, AppStands
<1>2. LcServes' /\ LcClean'
  <2>1. LcActing => lc.app \in Apps
    BY DEF IInv, LcInv, LcActing
  <2> QED
    BY <2>1, HostsStill, LifecycleStands
<1> QED
  BY <1>1, <1>2 DEF RInv, NoOrphan

\* A step of the publishing worker that changes its own state and its
\* operation's row at most.
LEMMA PublisherGoesOn ==
  ASSUME IInv, WInv, RInv, PubWorking, PubWorksOn,
         UNCHANGED <<retired, containers, orphan, orphans, lc>>,
         \/ apps' = apps
         \/ apps' = [apps EXCEPT ![Target].container = TRUE],
         \/ ops' = ops
         \/ \E charge : ops' = [ops EXCEPT ![pub.op].charge = charge]
         \/ pub.stage \in Building /\ ops' = [ops EXCEPT ![pub.op].state = "starting"]
  PROVE  RInv'
<1>1. DbTypeOK /\ PubStarted /\ pub.op \in Ops /\ Target \in Apps
  BY DEF IInv, DbInv, PubInv, WInv, PubHolds, Target, Unfinished
<1>2. ASSUME NEW a \in Apps
      PROVE  /\ apps'[a].active = apps[a].active /\ apps'[a].target = apps[a].target
             /\ apps'[a].secret = apps[a].secret /\ apps'[a].runtime = apps[a].runtime
  BY <1>1 DEF DbTypeOK, AppRow
<1>3. ASSUME NEW o \in Ops
      PROVE  /\ ops'[o].app = ops[o].app /\ ops'[o].kind = ops[o].kind
             /\ ops'[o].state = ops[o].state \/ ops[o].state = "building"
  <2>1. CASE ops' = ops \/ \E charge : ops' = [ops EXCEPT ![pub.op].charge = charge]
    <3>1. CASE ops' = ops
      BY <3>1
    <3>2. ASSUME NEW charge, ops' = [ops EXCEPT ![pub.op].charge = charge]
          PROVE  /\ ops'[o].app = ops[o].app /\ ops'[o].kind = ops[o].kind
                 /\ ops'[o].state = ops[o].state
      BY <1>1, <3>2 DEF DbTypeOK, OpRow
    <3> QED
      BY <2>1, <3>1, <3>2
  <2>2. CASE pub.stage \in Building /\ ops' = [ops EXCEPT ![pub.op].state = "starting"]
    <3>1. ops[pub.op].state = "building"
      BY <1>1, <2>2 DEF PubStarted
    <3> QED
      BY <1>1, <2>2, <3>1 DEF DbTypeOK, OpRow
  <2> QED
    BY <2>1, <2>2
<1>4. PubServes' /\ PubClean'
  BY <1>1, <1>2, <1>3, WorksOnServes
<1>5. pub'.stage \in Done => pub.stage \in Done /\ pub'.op = pub.op
  BY DEF PubWorksOn, Done
<1> QED
  BY <1>2, <1>3, <1>4, <1>5, PublisherQuiet

\* Such are the steps of the build, of the preparation, of the readiness check,
\* of the clean-up's second part, and every exception on the way.
LEMMA PublisherWorks ==
  ASSUME IInv, WInv, RInv, UNCHANGED lc,
         \/ Build \/ Settle \/ Admit \/ Prepare \/ Ready \/ Promoted \/ Discard \/ Forget
         \/ Switch /\ ~apps[Target].authorized
  PROVE  RInv'
<1> USE DEF At, Building, Starting
<1>1. PublishingTypeOK /\ PubWorking
  BY DEF IInv, PubInv, PubWorking, Build, Settle, Admit, Prepare, Ready, Switch, Promoted, Discard,
         Forget
<1>2. ASSUME NEW reconcile \in BOOLEAN, Throw(reconcile), reconcile \/ pub.stage \in Building \cup Starting
      PROVE  PubWorksOn
  <2>1. /\ pub'.op = pub.op /\ (pub'.container <=> pub.container) /\ (pub'.reconcile <=> reconcile)
        /\ pub'.stage = IF reconcile THEN "record" ELSE "undo"
    BY <1>1, <1>2 DEF Throw, PublishingTypeOK
  <2> QED
    BY <1>2, <2>1 DEF PubWorksOn
<1>3. ASSUME NEW stage, pub' = [pub EXCEPT !.stage = stage]
      PROVE  /\ pub'.stage = stage /\ pub'.op = pub.op /\ (pub'.container <=> pub.container)
             /\ pub'.port = pub.port
  BY <1>1, <1>3 DEF PublishingTypeOK
<1>4. CASE Build
  <2>1. UNCHANGED <<apps, ops, retired, containers, orphan, orphans>> /\ pub.stage = "build"
    BY <1>4 DEF Build, dbVars
  <2>2. pub' = [pub EXCEPT !.stage = "settle"] \/ pub' = [pub EXCEPT !.stage = "settle", !.error = TRUE]
    BY <1>4 DEF Build
  <2>3. pub'.stage = "settle" /\ pub'.op = pub.op /\ (pub'.container <=> pub.container)
    BY <1>1, <2>2 DEF PublishingTypeOK
  <2> QED
    BY <1>1, <2>1, <2>3, PublisherGoesOn DEF PubWorksOn
<1>5. CASE Settle
  <2>1. UNCHANGED <<apps, retired, containers, orphan, orphans>> /\ pub.stage = "settle"
    BY <1>5 DEF Settle, hostVars
  <2>2. \/ ops' = ops
        \/ \E charge : ops' = [ops EXCEPT ![pub.op].charge = charge]
    BY <1>5 DEF Settle
  <2>3. PubWorksOn
    <3>1. CASE Throw(TRUE)
      BY <1>2, <3>1
    <3>2. CASE pub' = [pub EXCEPT !.stage = IF pub.error THEN "undo" ELSE "admit"]
      BY <1>3, <2>1, <3>2 DEF PubWorksOn
    <3> QED
      BY <1>5, <3>1, <3>2 DEF Settle
  <2> QED
    BY <1>1, <2>1, <2>2, <2>3, PublisherGoesOn
<1>6. CASE Admit
  <2>1. UNCHANGED <<apps, retired, containers, orphan, orphans>> /\ pub.stage = "admit"
    BY <1>6 DEF Admit, hostVars
  <2>2. ops' = ops \/ ops' = [ops EXCEPT ![pub.op].state = "starting"]
    BY <1>6 DEF Admit
  <2>3. PubWorksOn
    <3>1. CASE Throw(FALSE)
      BY <1>2, <2>1, <3>1
    <3>2. CASE pub' = [pub EXCEPT !.stage = "prepare", !.starting = TRUE]
      <4>1. pub'.stage = "prepare" /\ pub'.op = pub.op /\ (pub'.container <=> pub.container)
        BY <1>1, <3>2 DEF PublishingTypeOK
      <4> QED
        BY <2>1, <4>1 DEF PubWorksOn
    <3> QED
      BY <1>6, <3>1, <3>2 DEF Admit
  <2> QED
    BY <1>1, <2>1, <2>2, <2>3, PublisherGoesOn
<1>7. CASE Prepare
  <2>1. UNCHANGED <<apps, ops, retired, containers, orphan, orphans>> /\ pub.stage = "prepare"
    BY <1>7 DEF Prepare, dbVars
  <2>2. PubWorksOn
    <3>1. CASE \E reconcile \in BOOLEAN : Throw(reconcile)
      BY <1>2, <2>1, <3>1
    <3>2. CASE pub' = [pub EXCEPT !.stage = "launch", !.secret = apps[Target].secret]
      <4>1. /\ pub'.stage = "launch" /\ pub'.op = pub.op /\ (pub'.container <=> pub.container)
            /\ pub'.secret = apps[Target].secret
        BY <1>1, <3>2 DEF PublishingTypeOK
      <4> QED
        BY <2>1, <4>1 DEF PubWorksOn
    <3> QED
      BY <1>7, <3>1, <3>2 DEF Prepare
  <2> QED
    BY <1>1, <2>1, <2>2, PublisherGoesOn
<1>8. CASE Ready
  <2>1. UNCHANGED <<apps, ops, retired, containers, orphan, orphans>> /\ pub.stage = "ready"
    BY <1>8 DEF Ready, dbVars, hostVars
  <2>2. PubWorksOn
    <3>1. CASE Throw(FALSE)
      BY <1>2, <2>1, <3>1
    <3>2. CASE pub' = [pub EXCEPT !.stage = "switch"]
      BY <1>3, <2>1, <3>2 DEF PubWorksOn
    <3> QED
      BY <1>8, <3>1, <3>2 DEF Ready
  <2> QED
    BY <1>1, <2>1, <2>2, PublisherGoesOn
<1>9. CASE Switch /\ ~apps[Target].authorized
  <2>1. /\ UNCHANGED <<apps, ops, retired, containers, orphan, orphans>> /\ pub.stage = "switch"
        /\ Throw(FALSE)
    BY <1>9 DEF Switch, hostVars
  <2>2. PubWorksOn
    BY <1>2, <2>1
  <2> QED
    BY <1>1, <2>1, <2>2, PublisherGoesOn
<1>10. CASE Promoted
  <2>1. /\ UNCHANGED <<ops, retired, containers, orphan, orphans>> /\ pub.stage = "promoted"
        /\ apps' = [apps EXCEPT ![Target].container = TRUE] /\ pub' = [pub EXCEPT !.stage = "discard"]
    BY <1>10 DEF Promoted, hostVars
  <2>2. PubWorksOn
    BY <1>3, <2>1 DEF PubWorksOn, Done
  <2> QED
    BY <1>1, <2>1, <2>2, PublisherGoesOn
<1>11. CASE Discard
  <2>1. UNCHANGED <<apps, ops, retired, containers, orphan, orphans>> /\ pub.stage = "discard"
    BY <1>11 DEF Discard, dbVars
  <2>2. PubWorksOn
    <3>1. CASE Throw(TRUE)
      BY <1>2, <3>1
    <3>2. CASE pub' = [pub EXCEPT !.stage = "succeed"]
      BY <1>3, <2>1, <3>2 DEF PubWorksOn, Done
    <3> QED
      BY <1>11, <3>1, <3>2 DEF Discard
  <2> QED
    BY <1>1, <2>1, <2>2, PublisherGoesOn
<1>12. CASE Forget
  <2>1. UNCHANGED <<apps, ops, retired, containers, orphan, orphans>> /\ pub.stage = "forget"
    BY <1>12 DEF Forget, dbVars
  <2>2. PubWorksOn
    <3>1. CASE Throw(TRUE)
      BY <1>2, <3>1
    <3>2. CASE pub' = [pub EXCEPT !.stage = "record"]
      BY <1>3, <2>1, <3>2 DEF PubWorksOn
    <3> QED
      BY <1>12, <3>1, <3>2 DEF Forget
  <2> QED
    BY <1>1, <2>1, <2>2, PublisherGoesOn
<1> QED
  BY <1>4, <1>5, <1>6, <1>7, <1>8, <1>9, <1>10, <1>11, <1>12

\* A step of the publishing worker that touches no app but its target.
LEMMA TargetTouched ==
  ASSUME IInv, WInv, RInv, PubWorking, UNCHANGED <<lc, retired>>, orphans' = 0 => orphans = 0,
         \A a \in Apps : a # Target => HostStill(a) /\ apps'[a] = apps[a],
         \A o \in Ops : o # pub.op => ops'[o] = ops[o],
         ops'[pub.op].app = Target,
         pub'.stage \in Done => pub'.op = pub.op,
         \A a \in Apps : a = Target => AppInv(a)',
         PubServes', PubClean', NoOrphan'
  PROVE  RInv'
<1>1. Target \in Apps /\ pub.op \in Ops
  BY DEF IInv, DbInv, PubInv, Target, Unfinished
<1>2. ASSUME NEW a \in Apps, a # Target PROVE AppInv(a)'
  <2>1. RowStill(a)
    BY <1>1, <1>2 DEF RowStill, Target
  <2> QED
    BY <1>2, <2>1, AppStands
<1>3. LcServes' /\ LcClean'
  <2>1. LcActing => lc.app \in Apps /\ lc.app # Target
    BY HandsApart DEF IInv, LcInv, LcActing
  <2> QED
    BY <2>1, LifecycleStands
<1> QED
  BY <1>2, <1>3 DEF RInv

\* What the worker knows of its operation while it works on it.
LEMMA TargetInHand ==
  ASSUME IInv, WInv, PubWorking
  PROVE  /\ pub.op \in Ops /\ pub.op # NoOp /\ Target \in Apps /\ ops[pub.op].app = Target
         /\ Deployment(Target, pub.op) /\ PubStarted /\ PubKnows /\ PubPort
         /\ DbTypeOK /\ PublishingTypeOK /\ apps[Target] \in AppRow
         /\ \A o \in Ops : ops[o].app = Target /\ ops[o].state = "cleaning" => o = pub.op
<1>1. /\ pub.op \in Ops /\ Target \in Apps /\ ops[pub.op].app = Target /\ Unfinished(pub.op)
      /\ DbTypeOK /\ PublishingTypeOK /\ Deployment(Target, pub.op)
  BY DEF IInv, DbInv, PubInv, Target, Unfinished, Deployment
<1>2. ASSUME NEW o \in Ops, ops[o].app = Target, ops[o].state = "cleaning" PROVE o = pub.op
  BY <1>1, <1>2 DEF IInv, OneOperationPerApp, Unfinished
<1> QED
  BY <1>1, <1>2 DEF WInv, PubHolds, DbTypeOK, Ops, NoOp

\* The worker's state has no part in the invariant when it has no operation.
LEMMA IdleServes ==
  ASSUME pub'.stage \in {"down", "idle"}
  PROVE  PubServes' /\ PubClean'
BY DEF PubServes, PubClean, PubWorking

\* An exception leaves the operation to the clean-up or to the operator.
LEMMA ThrownTo ==
  ASSUME PublishingTypeOK, NEW reconcile \in BOOLEAN, Throw(reconcile)
  PROVE  /\ pub'.op = pub.op /\ (pub'.container <=> pub.container) /\ (pub'.reconcile <=> reconcile)
         /\ pub'.stage = IF reconcile THEN "record" ELSE "undo"
BY DEF Throw, PublishingTypeOK

\* A deployment that is claimed is of an app that has a container exactly when
\* its row says so.
LEMMA ClaimRuntime ==
  ASSUME IInv, WInv, RInv, UNCHANGED lc, Claim
  PROVE  RInv'
<1>1. /\ DbTypeOK /\ containers \subseteq Container
      /\ UNCHANGED <<apps, retired, containers, orphan, orphans>>
  BY DEF IInv, DbInv, Claim, hostVars, HostsInv, HostsTypeOK
<1>2. PICK o \in Ops : /\ Accepted(o)
                       /\ ops' = [ops EXCEPT ![o].state = "building"]
                       /\ pub' = [PubIdle EXCEPT !.stage = "build", !.op = o,
                                                 !.container = apps[ops[o].app].container,
                                                 !.previous = apps[ops[o].app].active]
  BY DEF Claim
<1>3. PICK a \in Apps : ops[o].app = a /\ Deployment(a, o)
  BY <1>2 DEF Accepted, IInv, DbInv, Deployment, Unfinished
<1>4. /\ ops'[o].state = "building"
      /\ \A p \in Ops : /\ ops'[p].app = ops[p].app /\ ops'[p].kind = ops[p].kind
                        /\ p # o => ops'[p].state = ops[p].state
  BY <1>1, <1>2 DEF DbTypeOK, OpRow
<1>5. /\ pub'.stage = "build" /\ pub'.op = o /\ (pub'.container <=> apps[a].container)
      /\ Target' = a
  BY <1>2, <1>3, <1>4 DEF PubIdle, Target
<1>6. ASSUME orphans = 0, ~apps[a].container, NEW c \in containers, c.app = a PROVE FALSE
  <2>1. Reserved(a)
    BY <1>6 DEF RInv, AppInv, ReservedAt
  <2>2. apps[a].runtime \notin Busy
    BY <1>3 DEF WInv, Apart
  <2>3. apps[a].target = NoPort
    BY <1>6, <2>2 DEF WInv, RouteRows
  <2>4. PICK p \in Ops : ops[p].app = a /\ ops[p].state \in {"starting", "cleaning"}
    BY <2>1, <2>2, <2>3 DEF Reserved
  <2>5. p = o
    BY <1>3, <2>4 DEF IInv, OneOperationPerApp, Unfinished, Deployment
  <2> QED
    BY <1>2, <2>4, <2>5 DEF Accepted
<1>7. PubServes' /\ PubClean'
  BY <1>1, <1>5, <1>6 DEF PubServes, PubClean
<1>8. pub'.stage \notin Done
  BY <1>5 DEF Done
<1> QED
  BY <1>1, <1>2, <1>4, <1>7, <1>8, PublisherQuiet DEF Accepted

\* The loss of the worker, its recovery, and a report to the operator leave each
\* app as it is.
LEMMA InterruptionRuntime ==
  ASSUME IInv, WInv, RInv, UNCHANGED lc,
         PublisherCrashes \/ PublisherRecovers \/ (Record /\ pub.reconcile)
  PROVE  RInv'
<1>1. DbTypeOK /\ UNCHANGED <<apps, retired, containers, orphan, orphans>>
  BY DEF IInv, DbInv, PublisherCrashes, PublisherRecovers, Record, dbVars, hostVars
<1>2. pub'.stage \in {"down", "idle"}
  BY DEF PublisherCrashes, PublisherRecovers, Record, PubIdle
<1>3. ASSUME NEW o \in Ops
      PROVE  /\ ops'[o].app = ops[o].app /\ ops'[o].kind = ops[o].kind
             /\ ops[o].state \in {"starting", "cleaning"} => ops'[o].state \in {"starting", "cleaning"}
             /\ ops[o].kind = "deploy" /\ ops[o].state = "cleaning" => ops'[o].state = "cleaning"
  <2>1. CASE PublisherCrashes
    BY <2>1 DEF PublisherCrashes, dbVars
  <2>2. CASE PublisherRecovers
    <3>1. ops' = Interrupted
      BY <2>2 DEF PublisherRecovers
    <3>2. /\ ops'[o].app = ops[o].app /\ ops'[o].kind = ops[o].kind
          /\ ops'[o].state = ops[o].state
      BY <1>1, <3>1 DEF Interrupted, DbTypeOK, OpRow
    <3> QED
      BY <3>2
  <2>3. CASE Record /\ pub.reconcile
    <3>1. pub.stage = "record" /\ ops' = Recorded /\ pub.reconcile
      BY <2>3 DEF Record, At
    <3>2. pub.op \in Ops /\ PubStarted
      BY <3>1, TargetInHand DEF PubWorking
    <3>3. CASE o # pub.op
      BY <1>1, <3>1, <3>3 DEF Recorded, DbTypeOK
    <3>4. CASE o = pub.op
      <4>1. /\ ops'[o].app = ops[o].app /\ ops'[o].kind = ops[o].kind
            /\ ops'[o].state = IF pub.starting THEN "cleaning" ELSE "building"
        BY <1>1, <3>1, <3>4 DEF Recorded, DbTypeOK, OpRow
      <4>2. pub.starting <=> ops[o].state # "building"
        BY <3>1, <3>2, <3>4 DEF PubStarted, Undoing
      <4> QED
        BY <4>1, <4>2
    <3> QED
      BY <3>3, <3>4
  <2> QED
    BY <2>1, <2>2, <2>3
<1>4. pub'.stage \notin Done
  BY <1>2 DEF Done
<1> QED
  BY <1>1, <1>2, <1>3, <1>4, IdleServes, PublisherQuiet

\* A deployment that ends leaves its app's containers only to a running app.
LEMMA EndRuntime ==
  ASSUME IInv, WInv, RInv, UNCHANGED lc, Succeed \/ (Record /\ ~pub.reconcile)
  PROVE  RInv'
<1>1. PubWorking /\ UNCHANGED <<apps, retired, containers, orphan, orphans>> /\ pub'.stage = "idle"
  BY DEF PubWorking, Succeed, Record, At, hostVars, PubIdle
<1>2. PICK a \in Apps, o \in Ops : /\ a = Target /\ o = pub.op /\ ops[o].app = a /\ DbTypeOK
                                   /\ PubStarted /\ PubKnows
                                   /\ \A p \in Ops : ops[p].app = a /\ ops[p].state = "cleaning" => p = o
  BY <1>1, TargetInHand
<1>3. /\ ops'[o].app = a /\ ops'[o].kind = ops[o].kind
      /\ \A p \in Ops : p # o => ops'[p] = ops[p]
  <2>1. CASE Succeed
    <3>1. ops' = [ops EXCEPT ![o].state = "succeeded"]
      BY <1>2, <2>1 DEF Succeed
    <3> QED
      BY <1>2, <3>1 DEF DbTypeOK, OpRow
  <2>2. CASE Record /\ ~pub.reconcile
    <3>1. ops' = [ops EXCEPT ![o].state = "failed", ![o].reconcile = pub.reconcile]
      BY <1>2, <2>2 DEF Record, Recorded
    <3> QED
      BY <1>2, <3>1 DEF DbTypeOK, OpRow
  <2> QED
    BY <2>1, <2>2
<1>4. ~Switching(a)
  <2>1. CASE Succeed
    BY <1>2, <2>1 DEF Switching, Succeed, At, Done
  <2>2. CASE Record /\ ~pub.reconcile
    BY <1>2, <2>2 DEF Switching, Record, At, PubStarted, Undoing
  <2> QED
    BY <2>1, <2>2
<1>5. ServedAt(a)'
  BY <1>1, <1>4 DEF RInv, AppInv, ServedAt, Serves
<1>6. KeptAt(a)'
  BY <1>1, <1>2, <1>3 DEF RInv, AppInv, KeptAt, Kept, IInv, DbTypeOK, AppRow, HostsInv, HostsTypeOK, Container
<1>7. ReservedAt(a)'
  <2> SUFFICES ASSUME orphans = 0, NEW c \in containers, c.app = a PROVE Reserved(a)'
    BY <1>1 DEF ReservedAt
  <2>1. apps[a].runtime = "running"
    <3>1. CASE Succeed
      BY <1>2, <3>1 DEF Succeed, At, PubStarted, Switched, PubKnows
    <3>2. CASE Record /\ ~pub.reconcile
      <4>1. pub.stage = "record" /\ ops[pub.op].state # "cleaning"
        BY <1>2, <3>2 DEF Record, At, PubStarted, Undoing
      <4>2. pub.container
        BY <1>1, <1>2, <3>2, <4>1 DEF RInv, PubClean
      <4> QED
        BY <1>2, <4>1, <4>2 DEF PubKnows
    <3> QED
      BY <3>1, <3>2
  <2> QED
    BY <1>1, <2>1 DEF WInv, RouteRows, Reserved
<1>8. \A b \in Apps : HostStill(b) /\ apps'[b] = apps[b]
  BY <1>1, HostsStill
<1>9. PubServes' /\ PubClean' /\ NoOrphan' /\ pub'.stage \notin Done
  BY <1>1, IdleServes DEF RInv, NoOrphan, Done
<1>10. AppInv(a)'
  BY <1>5, <1>6, <1>7 DEF AppInv
<1> QED
  BY <1>1, <1>2, <1>3, <1>8, <1>9, <1>10, TargetTouched

\* A launch adds at most the container that was asked for, of an app that has a
\* reservation, with the saved secret.
LEMMA LaunchRuntime ==
  ASSUME IInv, WInv, RInv, UNCHANGED lc, Launch
  PROVE  RInv'
<1>1. PubWorking /\ pub.stage = "launch" /\ UNCHANGED <<apps, ops, retired>>
  BY DEF PubWorking, Launch, At, dbVars
<1>2. PICK a \in Apps, o \in Ops :
        /\ a = Target /\ o = pub.op /\ ops[o].app = a /\ DbTypeOK /\ PublishingTypeOK
        /\ ops[o].state = "starting"
  BY <1>1, TargetInHand DEF PubStarted, Starting
<1>3. pub.secret = apps[a].secret /\ orphans \in Nat
  BY <1>1, <1>2 DEF RInv, PubServes, IInv, HostsInv, HostsTypeOK
<1>4. PICK new : /\ containers' = containers \/ containers' = containers \cup {new}
                 /\ new.app = a /\ new.release = o /\ new.secret = pub.secret
                 /\ new.role = UndoneRole
                 /\ pub'.stage = "ready" => containers' = containers \cup {new} /\ pub'.port = new.port
                 /\ pub'.stage \in {"ready", "undo", "record"}
                 /\ pub'.stage = "record" => pub'.reconcile
                 /\ pub'.op = o /\ (pub'.container <=> pub.container)
                 /\ \A n \in orphan' : n \in orphan \/ (n.app = a /\ n.secret = pub.secret)
                 /\ \/ orphan' = orphan /\ orphans' = orphans
                    \/ orphans' = orphans + 1
  <2>1. CASE /\ containers' = containers \cup {NewContainer(Target, pub.op, pub.secret, pub.container, TRUE)}
             /\ pub' = [pub EXCEPT !.stage = "ready",
                  !.port = NewContainer(Target, pub.op, pub.secret, pub.container, TRUE).port]
             /\ UNCHANGED <<retained, registry, orphan, orphans>>
    <3>1. PICK new : new = NewContainer(Target, pub.op, pub.secret, pub.container, TRUE)
      OBVIOUS
    <3>2. /\ new.app = a /\ new.release = o /\ new.secret = pub.secret /\ new.role = UndoneRole
      <4>1. /\ new.app = Target /\ new.release = pub.op /\ new.secret = pub.secret
            /\ new.role = (IF pub.container THEN "candidate" ELSE "active")
        BY <3>1 DEF NewContainer
      <4> QED
        BY <1>2, <4>1 DEF UndoneRole
    <3>3. /\ pub'.stage = "ready" /\ pub'.port = new.port /\ pub'.op = o
          /\ (pub'.container <=> pub.container)
      BY <1>2, <2>1, <3>1 DEF PublishingTypeOK
    <3> QED
      BY <2>1, <3>1, <3>2, <3>3
  <2>2. ASSUME NEW reconcile \in BOOLEAN, Throw(reconcile),
               \/ /\ containers' \in LaunchLeftovers(Target, pub.op, pub.secret, pub.container)
                  /\ UNCHANGED <<orphan, orphans>>
               \/ LoseLaunch(Target, pub.op, pub.secret, pub.container)
        PROVE  \E new :
                 /\ containers' = containers \/ containers' = containers \cup {new}
                 /\ new.app = a /\ new.release = o /\ new.secret = pub.secret
                 /\ new.role = UndoneRole
                 /\ pub'.stage \in {"undo", "record"}
                 /\ pub'.stage = "record" => pub'.reconcile
                 /\ pub'.op = o /\ (pub'.container <=> pub.container)
                 /\ \A n \in orphan' : n \in orphan \/ (n.app = a /\ n.secret = pub.secret)
                 /\ \/ orphan' = orphan /\ orphans' = orphans
                    \/ orphans' = orphans + 1
    <3>1. /\ pub'.stage \in {"undo", "record"} /\ (pub'.stage = "record" => pub'.reconcile)
          /\ pub'.op = o /\ (pub'.container <=> pub.container)
      BY <1>2, <2>2, ThrownTo
    <3>2. CASE /\ containers' \in LaunchLeftovers(Target, pub.op, pub.secret, pub.container)
               /\ UNCHANGED <<orphan, orphans>>
      <4>1. PICK new : /\ containers' = containers \/ containers' = containers \cup {new}
                       /\ new.app = Target /\ new.release = pub.op /\ new.secret = pub.secret
                       /\ new.role = (IF pub.container THEN "candidate" ELSE "active")
        BY <3>2, LeftoversGain
      <4> QED
        BY <1>2, <3>1, <3>2, <4>1 DEF UndoneRole
    <3>3. CASE LoseLaunch(Target, pub.op, pub.secret, pub.container)
      <4>1. /\ containers' = containers /\ orphans' = orphans + 1
            /\ \A n \in orphan' : n.app = a /\ n.secret = pub.secret
        BY <1>2, <3>3 DEF LoseLaunch
      <4>2. PICK new : new = NewContainer(Target, pub.op, pub.secret, pub.container, TRUE)
        OBVIOUS
      <4>3. /\ new.app = a /\ new.release = o /\ new.secret = pub.secret /\ new.role = UndoneRole
        <5>1. /\ new.app = Target /\ new.release = pub.op /\ new.secret = pub.secret
              /\ new.role = (IF pub.container THEN "candidate" ELSE "active")
          BY <4>2 DEF NewContainer
        <5> QED
          BY <1>2, <5>1 DEF UndoneRole
      <4> QED
        BY <3>1, <4>1, <4>3
    <3> QED
      BY <2>2, <3>2, <3>3
  <2> QED
    BY <2>1, <2>2 DEF Launch
<1>5. orphans' = 0 => orphans = 0 /\ orphan' = orphan
  BY <1>3, <1>4
<1>6. \A b \in Apps : b # a => HostStill(b)
  BY <1>4 DEF HostStill, Alike
<1>7. ServedAt(a)'
  <2>1. Switching(a) => Switching(a)'
    BY <1>1, <1>4 DEF Switching, Done
  <2> QED
    BY <1>1, <1>4, <2>1 DEF RInv, AppInv, ServedAt, Serves
<1>8. KeptAt(a)'
  BY <1>1, <1>3, <1>4 DEF RInv, AppInv, KeptAt, Kept
<1>9. ReservedAt(a)'
  BY <1>1, <1>2 DEF ReservedAt, Reserved
<1>10. Target' = a /\ UndoneRole' = UndoneRole
  BY <1>1, <1>2, <1>4 DEF Target, UndoneRole
<1>11. PubServes'
  <2>1. ASSUME pub'.stage = "ready"
        PROVE  \E c \in containers' : Serves(c, a, pub.port, o)' /\ c.role = UndoneRole
    BY <1>1, <1>3, <1>4, <2>1 DEF Serves
  <2> QED
    BY <1>4, <1>10, <2>1 DEF PubServes
<1>12. PubClean'
  <2> SUFFICES ASSUME orphans' = 0, ~pub'.container PROVE PubClean'
    BY DEF PubClean
  <2>1. \A c \in containers : c.app # a
    BY <1>1, <1>2, <1>4, <1>5 DEF RInv, PubClean
  <2>2. \A c \in containers' : c.app = a => c.role = "active"
    BY <1>4, <2>1 DEF UndoneRole
  <2> QED
    BY <1>4, <1>10, <2>2 DEF PubClean
<1>13. NoOrphan' /\ pub'.stage \notin Done
  BY <1>4, <1>5 DEF RInv, NoOrphan, Done
<1>14. AppInv(a)'
  BY <1>7, <1>8, <1>9 DEF AppInv
<1> QED
  BY <1>1, <1>2, <1>5, <1>6, <1>11, <1>12, <1>13, <1>14, TargetTouched

\* The switch selects the release of a container that stands.
LEMMA SwitchRuntime ==
  ASSUME IInv, WInv, RInv, UNCHANGED lc, Switch, apps[Target].authorized
  PROVE  RInv'
<1>1. PubWorking /\ pub.stage = "switch" /\ UNCHANGED <<retired, containers, orphan, orphans>>
  BY DEF PubWorking, Switch, At, hostVars
<1>2. PICK a \in Apps, o \in Ops :
        /\ a = Target /\ o = pub.op /\ ops[o].app = a /\ ops[o].kind = "deploy"
        /\ DbTypeOK /\ PublishingTypeOK
  BY <1>1, TargetInHand DEF Deployment
<1>3. /\ apps' = [apps EXCEPT ![a].active = o, ![a].target = pub.port, ![a].container = TRUE,
                              ![a].runtime = "running", ![a].idle = FALSE]
      /\ ops' = [ops EXCEPT ![o].state = "cleaning"]
      /\ pub' = [pub EXCEPT !.stage = "promote"]
  BY <1>2 DEF Switch, SwitchedRow
<1>4. /\ apps'[a].active = o /\ apps'[a].target = pub.port /\ apps'[a].runtime = "running"
      /\ apps'[a].secret = apps[a].secret
      /\ \A b \in Apps : b # a => apps'[b] = apps[b]
  BY <1>2, <1>3 DEF DbTypeOK, AppRow
<1>5. /\ ops'[o].state = "cleaning" /\ ops'[o].app = a /\ ops'[o].kind = "deploy"
      /\ \A p \in Ops : ops'[p].app = ops[p].app /\ (p # o => ops'[p] = ops[p])
  BY <1>2, <1>3 DEF DbTypeOK, OpRow
<1>6. /\ pub'.stage = "promote" /\ pub'.op = o /\ pub'.port = pub.port
      /\ (pub'.container <=> pub.container)
  BY <1>2, <1>3 DEF PublishingTypeOK
<1>7. PICK c \in containers : Serves(c, a, pub.port, o) /\ c.role = UndoneRole
  BY <1>1, <1>2 DEF RInv, PubServes
<1>8. Serves(c, a, pub.port, o)' /\ Target' = a /\ UndoneRole' = UndoneRole
  BY <1>4, <1>5, <1>6, <1>7 DEF Serves, Target, UndoneRole
<1>9. ServedAt(a)'
  <2>1. Switching(a)'
    BY <1>5, <1>6 DEF Switching, Done
  <2> QED
    BY <1>1, <1>4, <1>7, <1>8, <2>1 DEF ServedAt, Serves
<1>10. KeptAt(a)'
  BY <1>1, <1>2, <1>4, <1>5
  DEF RInv, AppInv, KeptAt, Kept, IInv, DbTypeOK, AppRow, HostsInv, HostsTypeOK, Container
<1>11. ReservedAt(a)'
  BY <1>5 DEF ReservedAt, Reserved
<1>12. PubServes' /\ PubClean'
  BY <1>1, <1>6, <1>7, <1>8 DEF PubServes, PubClean, Serves
<1>13. NoOrphan' /\ pub'.stage \notin Done
  BY <1>1, <1>6 DEF RInv, NoOrphan, Done
<1>14. AppInv(a)'
  BY <1>9, <1>10, <1>11 DEF AppInv
<1>15. \A b \in Apps : b # Target => HostStill(b) /\ apps'[b] = apps[b]
  BY <1>1, <1>2, <1>4, HostsStill
<1> QED
  BY <1>1, <1>2, <1>5, <1>12, <1>13, <1>14, <1>15, TargetTouched

\* The clean-up removes the new container and no other.
LEMMA UndoRuntime ==
  ASSUME IInv, WInv, RInv, UNCHANGED lc, Undo
  PROVE  RInv'
<1>1. PubWorking /\ pub.stage = "undo" /\ UNCHANGED <<apps, ops, retired, orphan, orphans>>
  BY DEF PubWorking, Undo, At, dbVars
<1>2. PICK a \in Apps, o \in Ops :
        /\ a = Target /\ o = pub.op /\ ops[o].app = a /\ DbTypeOK /\ PublishingTypeOK
        /\ PubStarted /\ PubKnows
        /\ \A p \in Ops : ops[p].app = a /\ ops[p].state = "cleaning" => p = o
  BY <1>1, TargetInHand
<1>3. /\ pub'.op = o /\ (pub'.container <=> pub.container)
      /\ \/ pub'.stage = "forget"
         \/ pub'.stage = "record" /\ pub'.reconcile
      /\ \/ containers' = containers /\ pub'.stage = "record"
         \/ containers' = {c \in containers : c.app # a \/ c.role # UndoneRole}
  <2>1. CASE Throw(TRUE)
    BY <1>2, <2>1, ThrownTo DEF Undo
  <2>2. CASE pub' = [pub EXCEPT !.stage = "forget"]
    <3>1. pub'.stage = "forget" /\ pub'.op = o /\ (pub'.container <=> pub.container)
      BY <1>2, <2>2 DEF PublishingTypeOK
    <3>2. containers' = {c \in containers : c.app # a \/ c.role # UndoneRole}
      BY <1>2, <3>1, ThrownTo DEF Undo
    <3> QED
      BY <3>1, <3>2
  <2> QED
    BY <2>1, <2>2 DEF Undo
<1>4. ops[o].state # "cleaning"
  BY <1>1, <1>2 DEF PubStarted, Undoing
<1>5. ~Switching(a)
  BY <1>2, <1>4 DEF Switching
<1>6. ServedAt(a)'
  <2> SUFFICES ASSUME apps[a].runtime = "running"
               PROVE  \E c \in containers' : Serves(c, a, apps[a].target, apps[a].active) /\ c.role = "active"
    BY <1>1 DEF ServedAt, Serves
  <2>1. pub.container
    BY <1>2, <1>4 DEF PubKnows
  <2>2. PICK c \in containers : Serves(c, a, apps[a].target, apps[a].active) /\ c.role = "active"
    BY <1>5 DEF RInv, AppInv, ServedAt
  <2> QED
    BY <1>3, <2>1, <2>2 DEF UndoneRole
<1>7. containers' \subseteq containers
  BY <1>3
<1>8. KeptAt(a)' /\ ReservedAt(a)'
  BY <1>1, <1>7 DEF RInv, AppInv, KeptAt, Kept, ReservedAt, Reserved
<1>9. Target' = a
  BY <1>1, <1>2, <1>3 DEF Target
<1>10. PubServes' /\ PubClean'
  <2>1. PubServes'
    BY <1>3 DEF PubServes
  <2>2. ASSUME orphans = 0, ~pub.container, pub'.stage = "forget" PROVE \A c \in containers' : c.app # a
    <3>1. \A c \in containers : c.app = a => c.role = "active"
      BY <1>1, <1>2, <2>2 DEF RInv, PubClean
    <3> QED
      BY <1>3, <2>2, <3>1 DEF UndoneRole
  <2> QED
    BY <1>1, <1>3, <1>9, <2>1, <2>2 DEF PubClean
<1>11. \A b \in Apps : b # a => HostStill(b)
  BY <1>1, <1>3 DEF HostStill, Alike
<1>12. NoOrphan' /\ pub'.stage \notin Done
  BY <1>1, <1>3 DEF RInv, NoOrphan, Done
<1>13. AppInv(a)'
  BY <1>6, <1>8 DEF AppInv
<1> QED
  BY <1>1, <1>2, <1>10, <1>11, <1>12, <1>13, TargetTouched

\* The promotion removes the old container and never the new one.
LEMMA PromoteRuntime ==
  ASSUME IInv, WInv, RInv, UNCHANGED lc, Promote
  PROVE  RInv'
<1>1. /\ PubWorking /\ pub.stage = "promote"
      /\ UNCHANGED <<apps, ops, retired, orphan, orphans>>
  BY DEF PubWorking, Promote, At, dbVars
<1>2. PICK a \in Apps, o \in Ops :
        /\ a = Target /\ o = pub.op /\ ops[o].app = a /\ ops[o].kind = "deploy"
        /\ ops[o].state = "cleaning" /\ PublishingTypeOK
        /\ apps[a].active = o /\ apps[a].runtime = "running" /\ apps[a].target = pub.port
  BY <1>1, TargetInHand DEF PubStarted, PubKnows, Switched, Deployment
<1>3. /\ pub'.op = o
      /\ \/ pub'.stage = "record" /\ pub'.reconcile
         \/ /\ pub'.stage = "promoted"
            /\ \/ ~pub.container /\ containers' = containers
               \/ pub.container /\ containers' = Renamed(a)
      /\ \/ containers' = containers
         \/ pub.container /\ containers' \in {WithoutOldActive(a), Renamed(a)}
  <2>1. ASSUME pub' = [pub EXCEPT !.stage = "promoted"]
        PROVE  pub'.op = o /\ pub'.stage = "promoted"
    BY <1>2, <2>1 DEF PublishingTypeOK
  <2>2. ASSUME Throw(TRUE)
        PROVE  pub'.op = o /\ pub'.stage = "record" /\ pub'.reconcile
    BY <1>2, <2>2, ThrownTo
  <2>3. \/ /\ ~pub.container
           /\ pub' = [pub EXCEPT !.stage = "promoted"]
           /\ containers' = containers
        \/ /\ pub.container /\ containers' = Renamed(a)
           /\ pub' = [pub EXCEPT !.stage = "promoted"]
        \/ /\ pub.container /\ containers' \in {containers, WithoutOldActive(a), Renamed(a)}
           /\ Throw(TRUE)
    BY <1>2 DEF Promote
  <2> QED
    BY <2>1, <2>2, <2>3
<1>4. PICK c \in containers : Serves(c, a, pub.port, o) /\ c.role = UndoneRole
  BY <1>1, <1>2 DEF RInv, PubServes
<1>5. containers \subseteq Container
  BY DEF IInv, HostsInv, HostsTypeOK
<1>6. ASSUME NEW d \in containers
      PROVE  LET e == [d EXCEPT !.role = "active"]
             IN e.app = d.app /\ e.port = d.port /\ e.release = d.release /\ e.secret = d.secret
                /\ e.role = "active"
  BY <1>5 DEF Container
<1>7. \A d \in containers' : \E e \in containers : d.app = e.app /\ d.secret = e.secret
  <2>1. CASE containers' \in {containers, WithoutOldActive(a)}
    BY <2>1 DEF WithoutOldActive
  <2>2. CASE containers' = Renamed(a)
    <3> SUFFICES ASSUME NEW e \in containers, NEW d, d = IF e.app = a THEN [e EXCEPT !.role = "active"] ELSE e
                 PROVE  d.app = e.app /\ d.secret = e.secret
      BY <2>2 DEF Renamed, WithoutOldActive
    <3> QED
      BY <1>6
  <2> QED
    BY <1>3, <2>1, <2>2
<1>8. ASSUME NEW b \in Apps, b # a PROVE HostStill(b)
  <2>1. \A d : d.app = b => (d \in containers' <=> d \in containers)
    <3>1. CASE containers' = containers
      BY <3>1
    <3>2. CASE containers' = WithoutOldActive(a)
      BY <1>8, <3>2 DEF WithoutOldActive
    <3>3. CASE containers' = Renamed(a)
      BY <1>6, <1>8, <3>3 DEF WithoutOldActive, Renamed
    <3> QED
      BY <1>3, <3>1, <3>2, <3>3
  <2> QED
    BY <1>1, <2>1 DEF HostStill, Alike
<1>9. ServedAt(a)'
  <2>1. \E d \in containers' : Serves(d, a, pub.port, o) /\ (d.role = "active" \/ Switching(a)')
    <3>1. CASE ~pub.container
      <4>1. c.role = "active" /\ containers' = containers
        BY <1>3, <1>4, <3>1 DEF UndoneRole
      <4> QED
        BY <1>4, <4>1
    <3>2. CASE pub'.stage = "record" /\ containers' \in {containers, WithoutOldActive(a)} /\ pub.container
      <4>1. c \in containers'
        BY <1>4, <3>2 DEF WithoutOldActive, UndoneRole
      <4>2. Switching(a)'
        BY <1>1, <1>2, <3>2 DEF Switching, Done
      <4> QED
        BY <1>4, <4>1, <4>2
    <3>3. CASE containers' = Renamed(a) /\ pub.container
      <4>1. [c EXCEPT !.role = "active"] \in containers'
        BY <1>4, <3>3 DEF WithoutOldActive, Renamed, UndoneRole, Serves
      <4> QED
        BY <1>4, <1>6, <4>1 DEF Serves
    <3> QED
      BY <1>3, <3>1, <3>2, <3>3
  <2> QED
    BY <1>1, <1>2, <2>1 DEF ServedAt, Serves
<1>10. KeptAt(a)'
  <2>1. \A d \in containers' : d.app = a => Kept(d.secret, a)
    BY <1>2, <1>7 DEF RInv, AppInv, KeptAt
  <2> QED
    BY <1>1, <1>2, <2>1 DEF RInv, AppInv, KeptAt, Kept
<1>11. ReservedAt(a)'
  BY <1>1, <1>2 DEF ReservedAt, Reserved
<1>12. PubServes' /\ PubClean'
  BY <1>3 DEF PubServes, PubClean
<1>13. NoOrphan'
  BY <1>1 DEF RInv, NoOrphan
<1>14. AppInv(a)'
  BY <1>9, <1>10, <1>11 DEF AppInv
<1> QED
  BY <1>1, <1>2, <1>3, <1>8, <1>12, <1>13, <1>14, TargetTouched

\* No step of the publishing worker breaks the invariant.
LEMMA PublisherRuntime ==
  ASSUME IInv, WInv, RInv, Publisher
  PROVE  RInv'
<1>1. UNCHANGED lc
  BY DEF Publisher, lcVars
<1>2. CASE Switch
  <2>1. CASE apps[Target].authorized
    BY <1>1, <1>2, <2>1, SwitchRuntime
  <2>2. CASE ~apps[Target].authorized
    BY <1>1, <1>2, <2>2, PublisherWorks
  <2> QED
    BY <2>1, <2>2
<1>3. CASE Record
  BY <1>1, <1>3, InterruptionRuntime, EndRuntime
<1>4. CASE Succeed \/ Claim \/ Launch \/ Undo \/ Promote
  BY <1>1, <1>4, EndRuntime, ClaimRuntime, LaunchRuntime, UndoRuntime, PromoteRuntime
<1>5. CASE PublisherCrashes \/ PublisherRecovers
  BY <1>1, <1>5, InterruptionRuntime
<1>6. CASE Build \/ Settle \/ Admit \/ Prepare \/ Ready \/ Promoted \/ Discard \/ Forget
  BY <1>1, <1>6, PublisherWorks
<1> QED
  BY <1>2, <1>3, <1>4, <1>5, <1>6 DEF Publisher, PublisherStep, PublisherWork

-----------------------------------------------------------------------------

\* A step of the lifecycle worker on rows, but on no container: each app keeps
\* what its row says of its container, or has an operation.
LEMMA LifecycleQuiet ==
  ASSUME IInv, WInv, RInv, UNCHANGED <<ops, retired, containers, orphan, orphans, pub>>,
         \A a \in Apps :
           /\ apps'[a].active = apps[a].active /\ apps'[a].target = apps[a].target
           /\ apps'[a].secret = apps[a].secret
           /\ apps'[a].runtime = apps[a].runtime \/ apps'[a].runtime \in Busy,
         LcServes', LcClean'
  PROVE  RInv'
<1>1. ASSUME NEW a \in Apps PROVE AppInv(a)'
  <2>1. RowStill(a)
    BY <1>1 DEF RowStill
  <2> QED
    BY <1>1, <2>1, HostsStill, AppStands
<1>2. PubServes' /\ PubClean'
  <2>1. PubWorking => Target \in Apps /\ Target' = Target
    BY DEF IInv, PubInv, DbInv, Target, Unfinished
  <2> QED
    BY <2>1, HostsStill, PublisherStands
<1> QED
  BY <1>1, <1>2 DEF RInv, NoOrphan

\* A step of the lifecycle worker that touches no app but the one it has.
LEMMA HandTouched ==
  ASSUME IInv, WInv, RInv, LcActing, UNCHANGED pub, orphans' = 0 => orphans = 0,
         \A a \in Apps : a # lc.app => HostStill(a) /\ apps'[a] = apps[a],
         \A o \in Ops : ops[o].app # lc.app => ops'[o] = ops[o],
         \A v \in Ops : ops[v].app # lc.app => retired'[v] = retired[v],
         AppInv(lc.app) => \A a \in Apps : a = lc.app => AppInv(a)',
         LcServes', LcClean', NoOrphan'
  PROVE  RInv'
<1>1. lc.app \in Apps
  BY DEF IInv, LcInv, LcActing
<1>2. ASSUME NEW a \in Apps, a # lc.app PROVE AppInv(a)'
  <2>1. RowStill(a)
    BY <1>2 DEF RowStill
  <2> QED
    BY <1>2, <2>1, AppStands
<1>3. \A a \in Apps : AppInv(a)'
  BY <1>1, <1>2 DEF RInv
<1>4. PubServes' /\ PubClean'
  <2>1. PubWorking => /\ Target \in Apps /\ Target # lc.app /\ Target' = Target
    BY HandsApart DEF IInv, PubInv, DbInv, Target, Unfinished
  <2> QED
    BY <2>1, PublisherStands
<1> QED
  BY <1>3, <1>4 DEF RInv

\* A worker without an app in hand, or on its way to one, claims nothing.
LEMMA NoHandServes ==
  ASSUME lc'.stage \in {"down", "recovering", "idle", "scan", "begin"}
  PROVE  LcServes' /\ LcClean'
BY DEF LcServes, LcActing, LcWorking, LcClean, Confirmed

\* Scans, skipped apps, recovery, the loss of the worker and the first
\* transaction of each app.
LEMMA NoHandRuntime ==
  ASSUME IInv, WInv, RInv, UNCHANGED pub,
         \/ Scan \/ ScanEnds \/ Skip \/ LifecycleRecovery \/ LifecycleCrashes
         \/ \E a \in Apps : TryLock(a)
  PROVE  RInv'
<1>1. DbTypeOK /\ LifecycleTypeOK /\ UNCHANGED <<ops, retired, containers, orphan, orphans>>
  BY DEF IInv, DbInv, LcInv, Scan, ScanEnds, Skip, LifecycleRecovery, RecoverSecretChanges,
         RecoverStarts, LifecycleCrashes, TryLock, dbVars, hostVars
<1>2. lc'.stage \in {"down", "recovering", "idle", "scan", "begin"}
  <2>1. ASSUME NEW a \in Apps, TryLock(a) PROVE lc'.stage \in {"scan", "begin"}
    <3>1. lc.stage = "scan" /\ \/ lc' = [lc EXCEPT !.stage = "begin", !.app = a]
                               \/ lc' = [lc EXCEPT !.todo = @ \ {a}]
      BY <2>1 DEF TryLock, TakeLock, LcAt
    <3> QED
      BY <1>1, <3>1 DEF LifecycleTypeOK
  <2>2. CASE RecoverSecretChanges
    BY <1>1, <2>2 DEF RecoverSecretChanges, LcGoto, LifecycleTypeOK
  <2>3. CASE ScanEnds \/ RecoverStarts
    BY <2>3 DEF ScanEnds, RecoverStarts, LcIdle
  <2>4. CASE Scan
    BY <2>4 DEF Scan, LcIdle
  <2>5. CASE Skip
    BY <2>5 DEF Skip, LcIdle
  <2>6. CASE LifecycleCrashes
    BY <2>6 DEF LifecycleCrashes, LcIdle
  <2> QED
    BY <2>1, <2>2, <2>3, <2>4, <2>5, <2>6 DEF LifecycleRecovery
<1>3. ASSUME NEW a \in Apps
      PROVE  \/ apps'[a] = apps[a]
             \/ \E state \in Busy : apps'[a] = [apps[a] EXCEPT !.runtime = state]
  <2>1. CASE RecoverSecretChanges
    BY <2>1 DEF RecoverSecretChanges, Resumed, Busy
  <2>2. CASE RecoverStarts
    BY <2>2 DEF RecoverStarts, Recovered, Busy
  <2>3. CASE Scan \/ ScanEnds \/ Skip \/ LifecycleCrashes \/ \E b \in Apps : TryLock(b)
    <3>1. apps' = apps
      BY <2>3 DEF Scan, ScanEnds, Skip, LifecycleCrashes, TryLock, dbVars
    <3> QED
      BY <3>1
  <2> QED
    BY <2>1, <2>2, <2>3 DEF LifecycleRecovery
<1>4. ASSUME NEW a \in Apps
      PROVE  /\ apps'[a].active = apps[a].active /\ apps'[a].target = apps[a].target
             /\ apps'[a].secret = apps[a].secret
             /\ apps'[a].runtime = apps[a].runtime \/ apps'[a].runtime \in Busy
  <2>1. apps[a] \in AppRow
    BY <1>1 DEF DbTypeOK
  <2>2. CASE apps'[a] = apps[a]
    BY <2>2
  <2>3. CASE apps'[a] # apps[a]
    <3>1. PICK state \in Busy : apps'[a] = [apps[a] EXCEPT !.runtime = state]
      BY <1>3, <2>3
    <3> QED
      BY <2>1, <3>1 DEF AppRow
  <2> QED
    BY <2>2, <2>3
<1> QED
  BY <1>1, <1>2, <1>4, NoHandServes, LifecycleQuiet

\* The first transaction on an app marks it; what the worker reads there is what
\* it starts.
LEMMA BeginRuntime ==
  ASSUME IInv, WInv, RInv, UNCHANGED pub, Begin
  PROVE  RInv'
<1>1. /\ DbTypeOK /\ LifecycleTypeOK /\ UNCHANGED <<ops, retired, containers, orphan, orphans>>
      /\ lc.stage = "begin"
  BY DEF IInv, DbInv, LcInv, Begin, LcAt, hostVars
<1>2. PICK a \in Apps : a = lc.app
  BY <1>1 DEF IInv, LcInv, LcWorking
<1>3. \E state \in Busy : apps' = [apps EXCEPT ![a].runtime = state]
  BY <1>2 DEF Begin, HasWork, IdleStoppable, Busy
<1>4. /\ \A b \in Apps : b # a => apps'[b] = apps[b]
      /\ apps'[a].active = apps[a].active /\ apps'[a].target = apps[a].target
      /\ apps'[a].secret = apps[a].secret /\ apps'[a].runtime \in Busy
  BY <1>1, <1>2, <1>3 DEF DbTypeOK, AppRow
<1>5. lc'.stage \in {"stop", "wake"} /\ lc'.app = a /\ lc'.active = apps[a].active
  BY <1>1, <1>2 DEF Begin, LifecycleTypeOK
<1>6. LcServes' /\ LcClean'
  BY <1>4, <1>5 DEF LcServes, LcClean, Confirmed
<1> QED
  BY <1>1, <1>4, <1>6, LifecycleQuiet

\* A stop removes every container of the app in hand, or none; it takes the
\* sandbox's lock, so no launch is under way when it succeeds.
LEMMA StopRuntime ==
  ASSUME IInv, WInv, RInv, UNCHANGED pub, Stop \/ UndoApp
  PROVE  RInv'
<1>1. /\ LifecycleTypeOK /\ UNCHANGED <<apps, ops, retired, orphan, orphans>>
      /\ lc.stage \in {"stop", "undo"}
  BY DEF IInv, LcInv, Stop, UndoApp, StopOutcome, LcAt, dbVars
<1>2. PICK a \in Apps : /\ a = lc.app /\ LcActing /\ apps[a].runtime \in Busy
                        /\ lc.active = apps[a].active
  BY <1>1 DEF IInv, LcInv, LcActing, LcWorking, WInv, LcHolds, RInv, LcServes
<1>3. /\ lc'.app = a /\ lc'.active = lc.active
      /\ lc'.stage \in {"retire", "stopped", "undo", "expire", "result"}
      /\ \/ lc'.stage = "undo"
         \/ lc'.stage = "result" /\ lc'.result = "blocked"
         \/ containers' = WithoutApp /\ orphan = {}
      /\ containers' \in {containers, WithoutApp}
  <2>1. CASE Stop
    <3>1. /\ \/ /\ containers' = WithoutApp /\ orphan = {}
                /\ lc' = [lc EXCEPT !.stage = IF lc.op # NoOp THEN "retire" ELSE "stopped"]
             \/ lc' = [lc EXCEPT !.stage = "undo"]
          /\ containers' \in {containers, WithoutApp}
      BY <2>1 DEF Stop, StopOutcome, LcGoto, SandboxFree
    <3>2. /\ lc'.app = a /\ lc'.active = lc.active
          /\ \/ containers' = WithoutApp /\ orphan = {} /\ lc'.stage \in {"retire", "stopped"}
             \/ lc'.stage = "undo"
      BY <1>1, <1>2, <3>1 DEF LifecycleTypeOK
    <3> QED
      BY <3>1, <3>2
  <2>2. CASE UndoApp
    <3>1. /\ \/ /\ containers' = WithoutApp /\ orphan = {}
                /\ lc' = [lc EXCEPT !.stage = IF lc.op # NoOp THEN "expire" ELSE "result",
                                    !.result = IF lc.queued \/ lc.op # NoOp THEN "failed" ELSE "stopped"]
             \/ lc' = [lc EXCEPT !.stage = "result", !.result = "blocked"]
          /\ containers' \in {containers, WithoutApp}
      BY <2>2 DEF UndoApp, StopOutcome, SandboxFree, UndoFailed
    <3>2. /\ lc'.app = a /\ lc'.active = lc.active
          /\ \/ containers' = WithoutApp /\ orphan = {} /\ lc'.stage \in {"expire", "result"}
             \/ lc'.stage = "result" /\ lc'.result = "blocked"
      BY <1>1, <1>2, <3>1 DEF LifecycleTypeOK
    <3> QED
      BY <3>1, <3>2
  <2> QED
    BY <2>1, <2>2
<1>4. \A b \in Apps : b # a => HostStill(b)
  BY <1>1, <1>2, <1>3 DEF HostStill, Alike, WithoutApp
<1>5. AppInv(a)'
  <2>1. ServedAt(a)' /\ ReservedAt(a)'
    BY <1>1, <1>2 DEF ServedAt, ReservedAt, Reserved, Busy
  <2>2. containers' \subseteq containers
    BY <1>3 DEF WithoutApp
  <2>3. KeptAt(a)'
    BY <1>1, <2>2 DEF RInv, AppInv, KeptAt, Kept
  <2> QED
    BY <2>1, <2>3 DEF AppInv
<1>6. LcServes'
  BY <1>1, <1>2, <1>3 DEF LcServes
<1>7. LcClean'
  <2> SUFFICES ASSUME Confirmed' PROVE \A c \in containers' \cup orphan' : c.app # a
    BY <1>3 DEF LcClean
  <2>1. containers' = WithoutApp /\ orphan = {}
    BY <1>3 DEF Confirmed
  <2> QED
    BY <1>1, <1>2, <2>1 DEF WithoutApp
<1>8. NoOrphan'
  BY <1>1 DEF RInv, NoOrphan
<1> QED
  BY <1>1, <1>2, <1>4, <1>5, <1>6, <1>7, <1>8, HandTouched

\* Once the stop is confirmed, no container is left that could print a value
\* which begins to expire.
LEMMA ExpireRuntime ==
  ASSUME IInv, WInv, RInv, UNCHANGED pub, RetireSecrets \/ Expire
  PROVE  RInv'
<1>1. /\ DbTypeOK /\ LifecycleTypeOK /\ UNCHANGED <<apps, containers, orphan, orphans>>
      /\ lc.stage \in {"retire", "expire"}
  BY DEF IInv, DbInv, LcInv, RetireSecrets, Expire, LcAt, hostVars
<1>2. PICK a \in Apps : /\ a = lc.app /\ LcActing /\ apps[a].runtime \in Busy
                        /\ lc.active = apps[a].active
                        /\ \A c \in containers \cup orphan : c.app # a
                        /\ lc.op \in Ops /\ ops[lc.op].app = a
  BY <1>1 DEF IInv, LcInv, LcActing, LcWorking, LifecycleTypeOK, SecretChange, WInv, LcHolds, RInv,
              LcServes, LcClean, Confirmed
<1>3. /\ lc'.app = a /\ lc'.active = lc.active /\ lc'.stage \in {"wake", "result"}
  BY <1>1, <1>2 DEF RetireSecrets, Expire, LcGoto, LifecycleTypeOK
<1>4. /\ \A v \in Ops : ops[v].app # a => retired'[v] = retired[v]
      /\ \A o \in Ops : ops'[o].app = ops[o].app /\ (o # lc.op => ops'[o] = ops[o])
  <2>1. retired' = Expired /\ ops' \in {ops, [ops EXCEPT ![lc.op].state = "starting"]}
    BY DEF RetireSecrets, Expire
  <2> QED
    BY <1>1, <1>2, <2>1 DEF DbTypeOK, OpRow, Expired
<1>5. AppInv(a)'
  <2>1. ServedAt(a)' /\ ReservedAt(a)'
    BY <1>1, <1>2 DEF ServedAt, ReservedAt, Reserved, Busy
  <2>2. KeptAt(a)'
    BY <1>1, <1>2, <1>4 DEF RInv, AppInv, KeptAt, Kept, DbTypeOK, AppRow
  <2> QED
    BY <2>1, <2>2 DEF AppInv
<1>6. LcServes' /\ LcClean'
  BY <1>1, <1>2, <1>3 DEF LcServes, LcClean
<1>7. NoOrphan' /\ \A b \in Apps : HostStill(b) /\ apps'[b] = apps[b]
  BY <1>1, HostsStill DEF RInv, NoOrphan
<1> QED
  BY <1>1, <1>2, <1>4, <1>5, <1>6, <1>7, HandTouched

\* A start adds at most the retained release with the saved secret.
LEMMA WakeRuntime ==
  ASSUME IInv, WInv, RInv, UNCHANGED pub, WakeApp
  PROVE  RInv'
<1>1. /\ LifecycleTypeOK /\ UNCHANGED <<apps, ops, retired>> /\ lc.stage = "wake"
      /\ orphans \in Nat
  BY DEF IInv, LcInv, HostsInv, HostsTypeOK, WakeApp, LcAt, dbVars
<1>2. PICK a \in Apps : /\ a = lc.app /\ LcActing /\ apps[a].runtime \in Busy
                        /\ lc.active = apps[a].active
  BY <1>1 DEF IInv, LcInv, LcActing, LcWorking, WInv, LcHolds, RInv, LcServes
<1>3. ASSUME LcGoto("undo")
      PROVE  lc'.app = a /\ lc'.active = lc.active /\ lc'.stage = "undo"
  BY <1>1, <1>2, <1>3 DEF LcGoto, LifecycleTypeOK
<1>4. PICK new : /\ containers' = containers \/ containers' = containers \cup {new}
                 /\ new.app = a /\ new.release = lc.active /\ new.secret = apps[a].secret
                 /\ new.role = "active"
                 /\ lc'.stage = "ready" => containers' = containers \cup {new} /\ lc'.port = new.port
                 /\ lc'.stage \in {"ready", "undo"} /\ lc'.app = a /\ lc'.active = lc.active
                 /\ \A n \in orphan' : n \in orphan \/ (n.app = a /\ n.secret = apps[a].secret)
                 /\ \/ orphan' = orphan /\ orphans' = orphans
                    \/ orphans' = orphans + 1
  <2>1. PICK started : started = NewContainer(a, lc.active, apps[a].secret, FALSE, TRUE)
    OBVIOUS
  <2>2. /\ started.app = a /\ started.release = lc.active /\ started.secret = apps[a].secret
        /\ started.role = "active"
    BY <2>1 DEF NewContainer
  <2>3. CASE /\ containers' = containers \cup {started}
             /\ lc' = [lc EXCEPT !.stage = "ready", !.port = started.port]
             /\ UNCHANGED <<retained, registry, orphan, orphans>>
    <3>1. lc'.stage = "ready" /\ lc'.port = started.port /\ lc'.app = a /\ lc'.active = lc.active
      BY <1>1, <1>2, <2>3 DEF LifecycleTypeOK
    <3> QED
      BY <2>2, <2>3, <3>1
  <2>4. CASE /\ containers' \in LaunchLeftovers(a, lc.active, apps[a].secret, FALSE)
             /\ LcGoto("undo") /\ UNCHANGED <<retained, registry, orphan, orphans>>
    <3>1. PICK new : /\ containers' = containers \/ containers' = containers \cup {new}
                     /\ new.app = a /\ new.release = lc.active /\ new.secret = apps[a].secret
                     /\ new.role = "active"
      <4>1. PICK release, secret, candidate : /\ release = lc.active /\ secret = apps[a].secret
                                              /\ candidate = FALSE
        OBVIOUS
      <4>2. containers' \in LaunchLeftovers(a, release, secret, candidate)
        BY <2>4, <4>1
      <4>3. PICK new : /\ containers' = containers \/ containers' = containers \cup {new}
                       /\ new.app = a /\ new.release = release /\ new.secret = secret
                       /\ new.role = (IF candidate THEN "candidate" ELSE "active")
        BY <4>2, LeftoversGain
      <4> QED
        BY <4>1, <4>3
    <3> QED
      BY <1>3, <2>4, <3>1
  <2>5. CASE LoseLaunch(a, lc.active, apps[a].secret, FALSE) /\ LcGoto("undo")
    <3>1. /\ containers' = containers /\ orphans' = orphans + 1
          /\ \A n \in orphan' : n.app = a /\ n.secret = apps[a].secret
      BY <2>5 DEF LoseLaunch
    <3> QED
      BY <1>3, <2>2, <2>5, <3>1
  <2>6. CASE LcGoto("undo") /\ UNCHANGED hostVars
    BY <1>3, <2>2, <2>6 DEF hostVars
  <2> QED
    BY <1>2, <2>1, <2>3, <2>4, <2>5, <2>6 DEF WakeApp, WakeSecret
<1>5. orphans' = 0 => orphans = 0 /\ orphan' = orphan
  BY <1>1, <1>4
<1>6. \A b \in Apps : b # a => HostStill(b)
  BY <1>4 DEF HostStill, Alike
<1>7. AppInv(a)'
  <2>1. ServedAt(a)' /\ ReservedAt(a)'
    BY <1>1, <1>2 DEF ServedAt, ReservedAt, Reserved, Busy
  <2>2. KeptAt(a)'
    BY <1>1, <1>4 DEF RInv, AppInv, KeptAt, Kept
  <2> QED
    BY <2>1, <2>2 DEF AppInv
<1>8. LcServes'
  BY <1>1, <1>2, <1>4 DEF LcServes, Serves
<1>9. LcClean' /\ NoOrphan'
  BY <1>4, <1>5 DEF LcClean, Confirmed, RInv, NoOrphan
<1> QED
  BY <1>1, <1>2, <1>5, <1>6, <1>7, <1>8, <1>9, HandTouched

\* Readiness changes nothing, and a commit that is refused goes to the clean-up.
LEMMA ReadyRuntime ==
  ASSUME IInv, WInv, RInv, UNCHANGED pub, ReadyApp \/ (Commit /\ ~apps[lc.app].authorized)
  PROVE  RInv'
<1>1. /\ LifecycleTypeOK /\ UNCHANGED <<apps, ops, retired, containers, orphan, orphans>>
      /\ lc.stage \in {"ready", "commit"}
  BY DEF IInv, LcInv, ReadyApp, Commit, LcAt, dbVars, hostVars
<1>2. /\ lc'.app = lc.app /\ lc'.active = lc.active /\ lc'.port = lc.port
      /\ lc'.stage \in {"commit", "undo"}
  BY <1>1 DEF ReadyApp, Commit, LcGoto, LifecycleTypeOK
<1>3. LcServes' /\ LcClean'
  BY <1>1, <1>2 DEF RInv, LcServes, LcActing, LcWorking, LcClean, Confirmed, Serves
<1> QED
  BY <1>1, <1>3, LifecycleQuiet

\* The route is set to the container that stands, with the release and the secret
\* of the row.
LEMMA CommitRuntime ==
  ASSUME IInv, WInv, RInv, UNCHANGED pub, Commit, apps[lc.app].authorized
  PROVE  RInv'
<1>1. /\ DbTypeOK /\ LifecycleTypeOK /\ UNCHANGED <<ops, retired, containers, orphan, orphans>>
      /\ lc.stage = "commit"
  BY DEF IInv, DbInv, LcInv, Commit, LcAt, hostVars
<1>2. PICK a \in Apps : /\ a = lc.app /\ LcActing /\ lc.active = apps[a].active /\ lc.port # NoPort
                        /\ \E c \in containers : Serves(c, a, lc.port, lc.active) /\ c.role = "active"
  BY <1>1 DEF IInv, LcInv, LcActing, LcWorking, WInv, LcHolds, RInv, LcServes
<1>3. apps' = [apps EXCEPT ![a].runtime = "running", ![a].target = lc.port, ![a].container = TRUE,
                           ![a].idle = FALSE]
  BY <1>2 DEF Commit
<1>4. /\ apps'[a].runtime = "running" /\ apps'[a].target = lc.port
      /\ apps'[a].active = apps[a].active /\ apps'[a].secret = apps[a].secret
      /\ \A b \in Apps : b # a => apps'[b] = apps[b]
  BY <1>1, <1>2, <1>3 DEF DbTypeOK, AppRow
<1>5. lc'.stage = "idle" \/ (lc'.stage = "finish" /\ lc'.app = a /\ lc'.active = lc.active)
  BY <1>1, <1>2 DEF Commit, LcDone, LcGoto, LcIdle, LifecycleTypeOK
<1>6. AppInv(a)'
  <2>1. ServedAt(a)'
    BY <1>1, <1>2, <1>4 DEF ServedAt, Serves
  <2>2. KeptAt(a)'
    BY <1>1, <1>4 DEF RInv, AppInv, KeptAt, Kept
  <2>3. ReservedAt(a)'
    BY <1>2, <1>4 DEF ReservedAt, Reserved
  <2> QED
    BY <2>1, <2>2, <2>3 DEF AppInv
<1>7. LcServes' /\ LcClean'
  BY <1>2, <1>4, <1>5, NoHandServes DEF LcServes, LcClean, Confirmed
<1>8. NoOrphan' /\ \A b \in Apps : HostStill(b)
  BY <1>1, HostsStill DEF RInv, NoOrphan
<1> QED
  BY <1>1, <1>2, <1>4, <1>6, <1>7, <1>8, HandTouched

\* A row gives its slot back only after a confirmed stop.
LEMMA StoppedRuntime ==
  ASSUME IInv, WInv, RInv, UNCHANGED pub, Stopped \/ Result
  PROVE  RInv'
<1>1. /\ DbTypeOK /\ LifecycleTypeOK /\ UNCHANGED <<ops, retired, containers, orphan, orphans>>
      /\ lc.stage \in {"stopped", "result"}
  BY DEF IInv, DbInv, LcInv, Stopped, Result, LcAt, hostVars
<1>2. PICK a \in Apps, result \in {"failed", "stopped", "blocked"} :
        /\ a = lc.app /\ LcActing /\ lc.active = apps[a].active
        /\ apps' = [apps EXCEPT ![a].runtime = result, ![a].target = NoPort, ![a].container = FALSE]
        /\ result = "blocked" \/ Confirmed
  <2>1. lc.app \in Apps /\ LcActing /\ lc.active = apps[lc.app].active
    BY SMTT(60), <1>1 DEF IInv, LcInv, LcActing, LcWorking, RInv, LcServes
  <2>2. CASE Stopped
    BY <2>1, <2>2 DEF Stopped, WithRuntime, LcAt, Confirmed
  <2>3. CASE Result
    BY <1>1, <2>1, <2>3 DEF Result, WithRuntime, LcAt, Confirmed, LifecycleTypeOK
  <2> QED
    BY <2>2, <2>3
<1>3. /\ apps'[a].runtime = result /\ apps'[a].active = apps[a].active
      /\ apps'[a].secret = apps[a].secret
      /\ \A b \in Apps : b # a => apps'[b] = apps[b]
  BY <1>1, <1>2 DEF DbTypeOK, AppRow
<1>4. lc'.stage = "idle" \/ (lc'.stage = "finish" /\ lc'.app = a /\ lc'.active = lc.active)
  BY <1>1, <1>2 DEF Stopped, Result, LcDone, LcGoto, LcIdle, LifecycleTypeOK
<1>5. result = "blocked" \/ \A c \in containers \cup orphan : c.app # a
  BY <1>2 DEF RInv, LcClean
<1>6. AppInv(a)'
  <2>1. ServedAt(a)'
    BY <1>3 DEF ServedAt
  <2>2. KeptAt(a)'
    BY <1>1, <1>3 DEF RInv, AppInv, KeptAt, Kept
  <2>3. ReservedAt(a)'
    BY <1>1, <1>3, <1>5 DEF ReservedAt, Reserved, Busy
  <2> QED
    BY <2>1, <2>2, <2>3 DEF AppInv
<1>7. LcServes'
  BY <1>2, <1>3, <1>4, NoHandServes DEF LcServes
<1>8. LcClean'
  BY <1>1, <1>3, <1>4, <1>5, NoHandServes DEF LcClean, Confirmed
<1>9. NoOrphan' /\ \A b \in Apps : HostStill(b)
  BY <1>1, HostsStill DEF RInv, NoOrphan
<1> QED
  BY <1>1, <1>2, <1>3, <1>6, <1>7, <1>8, <1>9, HandTouched

\* So does the end of a secret change.
LEMMA FinishRuntime ==
  ASSUME IInv, WInv, RInv, UNCHANGED pub, FinishSecret
  PROVE  RInv'
<1>1. /\ DbTypeOK /\ LifecycleTypeOK /\ UNCHANGED <<apps, retired, containers, orphan, orphans>>
      /\ lc.stage = "finish" /\ lc'.stage = "idle"
  BY DEF IInv, DbInv, LcInv, FinishSecret, LcAt, LcDone, LcIdle, hostVars
<1>2. PICK a \in Apps, o \in Ops : /\ a = lc.app /\ o = lc.op /\ LcActing /\ ops[o].app = a
                                   /\ ops[o].kind = "secret-change"
  BY <1>1 DEF IInv, LcInv, LcActing, LcWorking, LifecycleTypeOK, SecretChange
<1>3. /\ ops'[o].app = a /\ ops'[o].kind = "secret-change"
      /\ \A p \in Ops : p # o => ops'[p] = ops[p]
  <2>1. PICK state : ops' = [ops EXCEPT ![o].state = state]
    BY <1>2 DEF FinishSecret
  <2> QED
    BY <1>1, <1>2, <2>1 DEF DbTypeOK, OpRow
<1>4. AppInv(a)'
  <2>1. ServedAt(a)'
    <3>1. Switching(a) => Switching(a)'
      BY <1>2, <1>3 DEF Switching
    <3> QED
      BY <1>1, <3>1 DEF RInv, AppInv, ServedAt, Serves
  <2>2. KeptAt(a)'
    BY <1>1, <1>2, <1>3
    DEF RInv, AppInv, KeptAt, Kept, IInv, DbTypeOK, AppRow, HostsInv, HostsTypeOK, Container
  <2>3. ReservedAt(a)'
    <3>1. CASE apps[a].runtime = "running"
      BY <1>1, <3>1 DEF ReservedAt, Reserved, WInv, RouteRows
    <3>2. CASE apps[a].runtime = "blocked"
      BY <1>1, <3>2 DEF ReservedAt, Reserved, Busy
    <3>3. CASE apps[a].runtime \notin {"running", "blocked"}
      BY <1>1, <1>2, <3>3 DEF ReservedAt, RInv, LcClean, Confirmed
    <3> QED
      BY <3>1, <3>2, <3>3
  <2> QED
    BY <2>1, <2>2, <2>3 DEF AppInv
<1>5. /\ NoOrphan' /\ LcServes' /\ LcClean'
      /\ \A b \in Apps : HostStill(b) /\ apps'[b] = apps[b]
  BY <1>1, HostsStill, NoHandServes DEF RInv, NoOrphan
<1> QED
  BY <1>1, <1>2, <1>3, <1>4, <1>5, HandTouched

\* No step of the lifecycle worker breaks the invariant.
LEMMA LifecycleRuntime ==
  ASSUME IInv, WInv, RInv, Lifecycle
  PROVE  RInv'
<1>1. UNCHANGED pub
  BY DEF Lifecycle, pubVars
<1>2. CASE Commit
  BY <1>1, <1>2, ReadyRuntime, CommitRuntime
<1> QED
  BY <1>1, <1>2, NoHandRuntime, BeginRuntime, StopRuntime, ExpireRuntime, WakeRuntime, ReadyRuntime,
     StoppedRuntime, FinishRuntime
  DEF Lifecycle, LifecycleStep, LifecycleWork

-----------------------------------------------------------------------------

\* Every step of the platform keeps the invariant.
LEMMA NextRuntime == IInv /\ WInv /\ RInv /\ [Next]_vars => RInv'
<1> SUFFICES ASSUME IInv, WInv, RInv, [Next]_vars PROVE RInv'
  OBVIOUS
<1>1. CASE UNCHANGED vars
  <2>1. UNCHANGED <<apps, ops, retired, containers, orphan, orphans, pub, lc>>
    BY <1>1 DEF vars, dbVars, hostVars, pubVars, lcVars
  <2> QED
    BY <2>1, HostsStill, RuntimeOthersMoved
<1> QED
  BY <1>1, AdmissionRuntime, IngressRuntime, PublisherRuntime, LifecycleRuntime, EnvironmentRuntime
  DEF Next

\* What the rows and the runtime host say of each other holds in every state the
\* platform reaches.
THEOREM RuntimeInvariant == Spec => []RInv
BY RuntimeInitially, NextRuntime, Invariant, WorkersInvariant, PTL DEF Spec

\* While an app is reported as running, its route's port is that of its own
\* container, made from the selected release and the saved secrets: the switch,
\* the promotion, a restart and the loss of either worker included.
THEOREM RunningServed == Spec => []RunningIsServed
<1>1. RInv => RunningIsServed
  BY DEF RInv, AppInv, ServedAt, Serves, RunningIsServed, Own
<1> QED
  BY <1>1, RuntimeInvariant, PTL

\* A replaced secret value that some container may still print is held for
\* redaction and does not begin to expire.
THEOREM SecretsRedactable == Spec => []SecretsStayRedactable
<1>1. IInv /\ RInv => SecretsStayRedactable
  <2> SUFFICES ASSUME IInv, RInv, NEW c \in containers, c.secret # NoOp
               PROVE  c.secret = apps[c.app].secret \/ retired[c.secret] = "held"
    BY DEF SecretsStayRedactable
  <2>1. c.app \in Apps
    BY DEF IInv, HostsInv, HostsTypeOK, Container
  <2> QED
    BY <2>1 DEF RInv, AppInv, KeptAt, Kept
<1> QED
  BY <1>1, Invariant, RuntimeInvariant, PTL

\* As long as no launch outlived its caller, no container, running or not, is
\* without its app's reservation: no slot is given back too early.
THEOREM ReservedContainers == Spec => [](orphans = 0 => ContainersReserved)
<1>1. IInv /\ RInv => (orphans = 0 => ContainersReserved)
  <2> SUFFICES ASSUME IInv, RInv, orphans = 0, NEW c \in containers PROVE Reserved(c.app)
    BY DEF ContainersReserved
  <2>1. c.app \in Apps
    BY DEF IInv, HostsInv, HostsTypeOK, Container
  <2> QED
    BY <2>1 DEF RInv, AppInv, ReservedAt
<1> QED
  BY <1>1, Invariant, RuntimeInvariant, PTL

(***************************************************************************)
(* The release inventories, on the host and in the registry.               *)
(***************************************************************************)

\* A deployment of the app has begun and has not ended.
InWork(a) ==
  \E o \in Ops : /\ ops[o].app = a /\ ops[o].kind = "deploy"
                 /\ ops[o].state \in {"building", "starting", "cleaning"}

\* The app's row names the operation's release.
Selects(o) == apps[ops[o].app].active = o

\* Only admitted operations have a release in an inventory.
Known == \A o \in retained \cup registry : ops[o].state # "none"

\* Between deployments both inventories hold what the row names and no more.
Exact ==
  \A o \in Ops : ops[o].app \in Apps /\ ~InWork(ops[o].app) =>
    /\ o \in retained <=> Selects(o)
    /\ o \in registry <=> Selects(o)

\* The release the worker replaces is the same app's, and not the new one.
PubPrevious ==
  PubWorking =>
    pub.previous # pub.op /\ (pub.previous # NoOp => ops[pub.previous].app = Target)

\* The worker's app: the selected release is in both inventories, with at most
\* the new and the previous one beside it, and alone when the work ends.
PubReleases ==
  PubWorking /\ ~pub.reconcile =>
    /\ \A o \in Ops : ops[o].app = Target =>
         /\ Selects(o) => o \in retained /\ o \in registry
         /\ o \in retained \cup registry => o \in {pub.op, pub.previous}
         /\ pub.stage \in {"succeed", "record"} /\ o \in retained \cup registry => Selects(o)
    /\ pub.stage = "settle" /\ ~pub.error => pub.op \in registry
    /\ pub.stage \in {"admit", "prepare", "launch", "ready", "switch"} => pub.op \in registry
    /\ pub.stage \in {"launch", "ready", "switch"} => pub.op \in retained

\* The invariant of the inventories.
CInv == Known /\ Exact /\ PubPrevious /\ PubReleases

\* Nothing is stored and nothing is selected at first.
LEMMA ReleasesInitially == Init => CInv
<1> SUFFICES ASSUME Init PROVE CInv
  OBVIOUS
<1>1. /\ retained = {} /\ registry = {} /\ pub.stage = "idle"
      /\ \A o \in Ops : ops[o].app = NoApp
  BY DEF Init, HostsInit, DbInit, PublishingInit, PubIdle
<1> QED
  BY <1>1, ConstantsAssumption DEF CInv, Known, Exact, PubPrevious, PubReleases, PubWorking

\* A step that stores nothing, selects nothing and ends no deployment keeps what
\* the inventories hold exact.
LEMMA InventoriesStand ==
  ASSUME IInv, WInv, CInv, UNCHANGED <<retained, registry>>,
         \A a \in Apps : apps'[a].active = apps[a].active,
         \A o \in Ops : ops[o].state # "none" =>
           /\ ops'[o].app = ops[o].app /\ ops'[o].kind = ops[o].kind /\ ops'[o].state # "none"
           /\ ops[o].kind = "deploy" /\ ops[o].state \in {"building", "starting", "cleaning"}
                => ops'[o].state \in {"building", "starting", "cleaning"}
  PROVE  Known' /\ Exact'
<1>1. retained \subseteq Ops /\ registry \subseteq Ops
  BY DEF IInv, HostsInv, HostsTypeOK
<1>2. Known'
  BY <1>1 DEF CInv, Known
<1>3. ASSUME NEW o \in Ops, NEW a \in Apps, ops'[o].app = a, ~InWork(a)'
      PROVE  (o \in retained' <=> Selects(o)') /\ (o \in registry' <=> Selects(o)')
  <2>1. CASE ops[o].state = "none"
    <3>1. o \notin retained \cup registry
      BY <2>1 DEF CInv, Known
    <3>2. apps[ops'[o].app].active # o
      BY <1>3, <2>1 DEF WInv, SelectedRows, IInv, DbInv, DbTypeOK, NoOp, Ops
    <3> QED
      BY <1>3, <3>1, <3>2 DEF Selects
  <2>2. CASE ops[o].state # "none"
    <3>1. ops'[o].app = ops[o].app
      BY <2>2
    <3>2. ~InWork(ops[o].app)
      <4>1. SUFFICES ASSUME NEW p \in Ops, ops[p].app = ops[o].app, ops[p].kind = "deploy",
                            ops[p].state \in {"building", "starting", "cleaning"}
                     PROVE  FALSE
        BY DEF InWork
      <4>2. /\ ops'[p].app = ops[p].app /\ ops'[p].kind = "deploy"
            /\ ops'[p].state \in {"building", "starting", "cleaning"}
        BY <4>1
      <4> QED
        BY <1>3, <3>1, <4>1, <4>2 DEF InWork
    <3> QED
      BY <1>3, <3>1, <3>2 DEF CInv, Exact, Selects
  <2> QED
    BY <2>1, <2>2
<1>4. Exact'
  BY <1>3 DEF Exact, InWork
<1> QED
  BY <1>2, <1>4

\* A step of another process than the publishing worker leaves the
\* deployments, the selections and the inventories alone.
LEMMA ReleasesStand ==
  ASSUME IInv, WInv, CInv, UNCHANGED <<retained, registry, pub>>,
         \A a \in Apps : apps'[a].active = apps[a].active,
         \A o \in Ops : ops[o].state # "none" =>
           /\ ops'[o].app = ops[o].app /\ ops'[o].kind = ops[o].kind /\ ops'[o].state # "none"
           /\ ops[o].kind = "deploy" => ops'[o].state = ops[o].state
  PROVE  CInv'
<1>1. Known' /\ Exact'
  <2>1. \A o \in Ops : ops[o].state # "none" =>
          /\ ops'[o].app = ops[o].app /\ ops'[o].kind = ops[o].kind /\ ops'[o].state # "none"
          /\ ops[o].kind = "deploy" /\ ops[o].state \in {"building", "starting", "cleaning"}
               => ops'[o].state \in {"building", "starting", "cleaning"}
    OBVIOUS
  <2> QED
    BY <2>1, InventoriesStand
<1>2. ASSUME PubWorking
      PROVE  /\ pub.op \in Ops /\ ops[pub.op].state # "none" /\ Target \in Apps
             /\ ops'[pub.op].app = Target
  BY <1>2 DEF IInv, PubInv, DbInv, Unfinished, Target
<1>3. pub.previous \in Ops \cup {NoOp}
  BY DEF IInv, PubInv, PublishingTypeOK
<1>4. PubPrevious'
  <2> SUFFICES ASSUME PubWorking
               PROVE  /\ pub.previous # pub.op
                      /\ pub.previous # NoOp => ops'[pub.previous].app = ops'[pub.op].app
    BY DEF PubPrevious, PubWorking, Target
  <2>1. pub.previous # NoOp => ops[pub.previous].app \in Apps /\ ops[pub.previous].app = Target
    BY <1>2 DEF CInv, PubPrevious
  <2>2. pub.previous # NoOp => ops[pub.previous].state # "none"
    BY <1>3, <2>1, ConstantsAssumption DEF WInv, FreshRows
  <2> QED
    BY <1>2, <1>3, <2>1, <2>2 DEF CInv, PubPrevious
<1>5. PubReleases'
  <2> SUFFICES ASSUME PubWorking, ~pub.reconcile
               PROVE  PubReleases'
    BY DEF PubReleases, PubWorking
  <2>1. ASSUME NEW o \in Ops, ops'[o].app = Target
        PROVE  /\ Selects(o)' => o \in retained /\ o \in registry
               /\ o \in retained \cup registry => o \in {pub.op, pub.previous}
               /\ pub.stage \in {"succeed", "record"} /\ o \in retained \cup registry => Selects(o)'
    <3>1. CASE ops[o].state = "none"
      <4>1. o \notin retained \cup registry
        BY <3>1 DEF CInv, Known
      <4>2. ~Selects(o)'
        BY <1>2, <2>1, <3>1 DEF WInv, SelectedRows, IInv, DbInv, DbTypeOK, NoOp, Ops, Selects
      <4> QED
        BY <4>1, <4>2
    <3>2. CASE ops[o].state # "none"
      <4>1. ops[o].app = Target /\ (Selects(o)' <=> Selects(o))
        BY <1>2, <2>1, <3>2 DEF Selects
      <4> QED
        BY <4>1 DEF CInv, PubReleases
    <3> QED
      BY <3>1, <3>2
  <2> QED
    BY <1>2, <2>1 DEF CInv, PubReleases, Target
<1> QED
  BY <1>1, <1>4, <1>5 DEF CInv

-----------------------------------------------------------------------------

\* While the worker holds a deployment, its app has work that began.
LEMMA WorkBegan ==
  ASSUME IInv, WInv, PubWorking
  PROVE  /\ pub.op \in Ops /\ Target \in Apps /\ ops[pub.op].kind = "deploy"
         /\ ops[pub.op].state \in {"building", "starting", "cleaning"}
         /\ InWork(Target)
         /\ pub.previous \in Ops \cup {NoOp}
<1>1. /\ pub.op \in Ops /\ Target \in Apps /\ ops[pub.op].kind = "deploy"
      /\ pub.previous \in Ops \cup {NoOp} /\ pub.stage \in PubStages \ {"down", "idle"}
  BY DEF IInv, PubInv, DbInv, Unfinished, Target, PublishingTypeOK, PubWorking
<1>2. ops[pub.op].state \in {"building", "starting", "cleaning"}
  BY <1>1 DEF WInv, PubHolds, PubStarted, Building, Starting, Switched, Undoing, PubStages
<1> QED
  BY <1>1, <1>2 DEF InWork, Target

\* A step of the worker that stores or forgets a release of its own app only.
LEMMA OwnReleases ==
  ASSUME IInv, WInv, CInv, PubWorking, UNCHANGED <<apps, ops>>,
         \A o \in Ops : ops[o].app # Target =>
           (o \in retained' <=> o \in retained) /\ (o \in registry' <=> o \in registry),
         retained' \subseteq retained \cup {pub.op}, registry' \subseteq registry \cup {pub.op},
         pub'.op = pub.op, pub'.previous = pub.previous
  PROVE  Known' /\ Exact' /\ PubPrevious'
<1>1. /\ InWork(Target) /\ ops[pub.op].state # "none" /\ Target \in Apps
  BY WorkBegan
<1>2. Known'
  BY <1>1 DEF CInv, Known
<1>3. Exact'
  <2>1. ASSUME NEW o \in Ops, ops[o].app \in Apps, ~InWork(ops[o].app)
        PROVE  (o \in retained' <=> Selects(o)) /\ (o \in registry' <=> Selects(o))
    <3>1. ops[o].app # Target
      BY <1>1, <2>1
    <3> QED
      BY <2>1, <3>1 DEF CInv, Exact
  <2> QED
    BY <2>1 DEF Exact, InWork, Selects
<1>4. PubPrevious'
  BY DEF CInv, PubPrevious, Target
<1> QED
  BY <1>2, <1>3, <1>4

\* A step of the worker that leaves every inventory and every selection alone.
LEMMA NothingStored ==
  ASSUME IInv, WInv, CInv, PubWorking, UNCHANGED <<retained, registry>>,
         \A a \in Apps : apps'[a].active = apps[a].active,
         \A o \in Ops : /\ ops'[o].app = ops[o].app /\ ops'[o].kind = ops[o].kind
                        /\ o # pub.op => ops'[o].state = ops[o].state,
         ops'[pub.op].state \in {"building", "starting", "cleaning"},
         pub'.op = pub.op, pub'.previous = pub.previous,
         ~pub'.reconcile =>
           /\ ~pub.reconcile
           /\ pub'.stage \notin {"settle", "succeed", "record"}
           /\ pub'.stage \in {"admit", "prepare", "launch", "ready", "switch"} => pub.op \in registry
           /\ pub'.stage \in {"launch", "ready", "switch"} => pub.op \in retained
  PROVE  CInv'
<1>1. Target' = Target /\ Target \in Apps /\ pub.op \in Ops /\ pub.previous \in Ops \cup {NoOp}
  BY WorkBegan DEF Target
<1>2. Known' /\ Exact'
  <2>1. \A o \in Ops : ops[o].state # "none" =>
          /\ ops'[o].app = ops[o].app /\ ops'[o].kind = ops[o].kind /\ ops'[o].state # "none"
          /\ ops[o].kind = "deploy" /\ ops[o].state \in {"building", "starting", "cleaning"}
               => ops'[o].state \in {"building", "starting", "cleaning"}
    OBVIOUS
  <2> QED
    BY <2>1, InventoriesStand
<1>3. PubPrevious'
  BY <1>1 DEF CInv, PubPrevious
<1>4. PubReleases'
  <2> SUFFICES ASSUME ~pub'.reconcile PROVE PubReleases'
    BY DEF PubReleases
  <2>1. ASSUME NEW o \in Ops, ops[o].app = Target
        PROVE  /\ Selects(o)' => o \in retained /\ o \in registry
               /\ o \in retained \cup registry => o \in {pub.op, pub.previous}
    BY <1>1, <2>1 DEF CInv, PubReleases, Selects
  <2> QED
    BY <1>1, <2>1 DEF PubReleases
<1> QED
  BY <1>2, <1>3, <1>4 DEF CInv

-----------------------------------------------------------------------------

\* The worker's next stage, with what it knows of the releases unchanged.
OnTo(stages) ==
  /\ pub'.op = pub.op /\ pub'.previous = pub.previous
  /\ \/ pub'.reconcile
     \/ ~pub'.reconcile /\ pub'.stage \in stages

\* An exception leaves the operation to the clean-up or to the operator.
LEMMA ThrownOnTo ==
  ASSUME PublishingTypeOK, NEW reconcile \in BOOLEAN, Throw(reconcile)
  PROVE  OnTo({"undo"}) /\ (reconcile => pub'.reconcile)
BY DEF Throw, PublishingTypeOK, OnTo

\* The ordinary change of the worker's stage.
LEMMA StageOnTo ==
  ASSUME PublishingTypeOK, ~pub.reconcile, NEW stage \in PubStages,
         pub' = [pub EXCEPT !.stage = stage]
  PROVE  OnTo({stage}) /\ ~pub'.reconcile
BY DEF PublishingTypeOK, OnTo

\* Settle, Admit, Launch, Ready, Promote, Promoted, Undo and a refused Switch
\* store nothing: a failure on the way leaves the release for the clean-up.
LEMMA WorkReleases ==
  ASSUME IInv, WInv, CInv,
         \/ Settle \/ Admit \/ Launch \/ Ready \/ Promote \/ Promoted \/ Undo
         \/ Switch /\ ~apps[Target].authorized
  PROVE  CInv'
<1>1. /\ PubWorking /\ PublishingTypeOK /\ DbTypeOK /\ ~pub.reconcile
      /\ pub.stage \in {"settle", "admit", "launch", "ready", "promote", "promoted", "undo", "switch"}
  BY DEF IInv, PubInv, DbInv, WInv, PubHolds, PubStarted, PubWorking, At, Settle, Admit, Launch,
         Ready, Promote, Promoted, Undo, Switch
<1>2. pub.op \in Ops /\ ops[pub.op].state \in {"building", "starting", "cleaning"} /\ Target \in Apps
  BY <1>1, WorkBegan
<1>3. UNCHANGED <<retained, registry>>
  BY DEF Settle, Admit, Launch, Ready, Promote, Promoted, Undo, Switch, LoseLaunch, hostVars
<1>4. \A a \in Apps : apps'[a].active = apps[a].active
  <2>1. apps' = apps \/ apps' = [apps EXCEPT ![Target].container = TRUE]
    BY DEF Settle, Admit, Launch, Ready, Promote, Promoted, Undo, Switch, dbVars
  <2> QED
    BY <1>1, <1>2, <2>1 DEF DbTypeOK, AppRow
<1>5. /\ \A o \in Ops : /\ ops'[o].app = ops[o].app /\ ops'[o].kind = ops[o].kind
                        /\ o # pub.op => ops'[o].state = ops[o].state
      /\ ops'[pub.op].state \in {"building", "starting", "cleaning"}
  <2>1. CASE ops' = ops
    BY <1>2, <2>1
  <2>2. CASE Settle
    <3>1. CASE ops' # ops
      <4>1. PICK seconds : ops' = [ops EXCEPT ![pub.op].charge = IF @ = Unsettled THEN seconds ELSE @]
        BY <2>2, <3>1 DEF Settle
      <4> QED
        BY <1>1, <1>2, <4>1 DEF DbTypeOK, OpRow
    <3> QED
      BY <2>1, <3>1
  <2>3. CASE Admit
    <3>1. ops' = ops \/ ops' = [ops EXCEPT ![pub.op].state = "starting"]
      BY <2>3 DEF Admit
    <3> QED
      BY <1>1, <1>2, <3>1 DEF DbTypeOK, OpRow
  <2> QED
    BY <2>1, <2>2, <2>3 DEF Launch, Ready, Promote, Promoted, Undo, Switch, dbVars
<1>6. /\ pub'.op = pub.op /\ pub'.previous = pub.previous
      /\ \/ pub'.reconcile
         \/ pub'.stage \in {"undo", "promoted", "discard", "forget"}
         \/ pub'.stage = "admit" /\ pub.stage = "settle" /\ ~pub.error
         \/ pub'.stage = "prepare" /\ pub.stage = "admit"
         \/ pub'.stage = "ready" /\ pub.stage = "launch"
         \/ pub'.stage = "switch" /\ pub.stage = "ready"
  <2>1. CASE \E reconcile \in BOOLEAN : Throw(reconcile)
    BY <1>1, <2>1, ThrownOnTo DEF OnTo
  <2>2. CASE Settle
    <3>1. \/ pub' = [pub EXCEPT !.stage = IF pub.error THEN "undo" ELSE "admit"]
          \/ Throw(TRUE)
      BY <2>2 DEF Settle
    <3>2. pub.stage = "settle"
      BY <2>2 DEF Settle, At
    <3> QED
      BY <1>1, <2>1, <3>1, <3>2 DEF PublishingTypeOK
  <2>3. CASE Admit
    <3>1. pub' = [pub EXCEPT !.stage = "prepare", !.starting = TRUE] \/ Throw(FALSE)
      BY <2>3 DEF Admit
    <3>2. pub.stage = "admit"
      BY <2>3 DEF Admit, At
    <3> QED
      BY <1>1, <2>1, <3>1, <3>2 DEF PublishingTypeOK
  <2>4. CASE Launch
    <3>1. \/ \E port : pub' = [pub EXCEPT !.stage = "ready", !.port = port]
          \/ \E reconcile \in BOOLEAN : Throw(reconcile)
      BY <2>4 DEF Launch
    <3>2. pub.stage = "launch"
      BY <2>4 DEF Launch, At
    <3>3. ASSUME NEW port, pub' = [pub EXCEPT !.stage = "ready", !.port = port]
          PROVE  pub'.op = pub.op /\ pub'.previous = pub.previous /\ pub'.stage = "ready"
      BY <1>1, <3>3 DEF PublishingTypeOK
    <3> QED
      BY <2>1, <3>1, <3>2, <3>3
  <2>5. CASE Ready
    <3>1. pub' = [pub EXCEPT !.stage = "switch"] \/ Throw(FALSE)
      BY <2>5 DEF Ready
    <3>2. pub.stage = "ready"
      BY <2>5 DEF Ready, At
    <3> QED
      BY <1>1, <2>1, <3>1, <3>2 DEF PublishingTypeOK
  <2>6. CASE Promote \/ Promoted \/ Undo
    <3>1. \/ \E stage \in {"promoted", "discard", "forget"} : pub' = [pub EXCEPT !.stage = stage]
          \/ Throw(TRUE)
      BY <2>6 DEF Promote, Promoted, Undo
    <3> QED
      BY <1>1, <2>1, <3>1 DEF PublishingTypeOK
  <2>7. CASE Switch /\ ~apps[Target].authorized
    BY <2>1, <2>7 DEF Switch
  <2> QED
    BY <2>2, <2>3, <2>4, <2>5, <2>6, <2>7
<1>7. ~pub'.reconcile =>
        /\ pub'.stage \notin {"settle", "succeed", "record"}
        /\ pub'.stage \in {"admit", "prepare", "launch", "ready", "switch"} => pub.op \in registry
        /\ pub'.stage \in {"launch", "ready", "switch"} => pub.op \in retained
  BY <1>1, <1>6 DEF CInv, PubReleases
<1> QED
  BY <1>1, <1>3, <1>4, <1>5, <1>6, <1>7, NothingStored

\* Claim: the row is read while the app has no other deployment under way, so
\* both inventories hold the release that the worker remembers as the previous.
LEMMA ClaimReleases ==
  ASSUME IInv, WInv, CInv, Claim
  PROVE  CInv'
<1>1. DbTypeOK /\ UNCHANGED <<apps, retained, registry>>
  BY DEF IInv, DbInv, Claim, hostVars
<1>2. PICK o \in Ops :
        /\ ops[o].state = "accepted" /\ ops[o].kind = "deploy"
        /\ ops' = [ops EXCEPT ![o].state = "building"]
        /\ pub' = [PubIdle EXCEPT !.stage = "build", !.op = o,
                                  !.container = apps[ops[o].app].container,
                                  !.previous = apps[ops[o].app].active]
  BY DEF Claim, Accepted
<1>3. PICK a \in Apps : a = ops[o].app
  BY <1>2 DEF IInv, DbInv
<1>4. /\ ops'[o].app = a /\ ops'[o].kind = "deploy" /\ ops'[o].state = "building"
      /\ \A p \in Ops : p # o => ops'[p] = ops[p]
      /\ \A p \in Ops : ops'[p].app = ops[p].app
  BY <1>1, <1>2, <1>3 DEF DbTypeOK, OpRow
<1>5. pub'.op = o /\ pub'.previous = apps[a].active /\ pub'.stage = "build"
  BY <1>2, <1>3 DEF PubIdle
<1>6. Known' /\ Exact'
  <2>1. \A p \in Ops : ops[p].state # "none" =>
          /\ ops'[p].app = ops[p].app /\ ops'[p].kind = ops[p].kind /\ ops'[p].state # "none"
          /\ ops[p].kind = "deploy" /\ ops[p].state \in {"building", "starting", "cleaning"}
               => ops'[p].state \in {"building", "starting", "cleaning"}
    BY <1>2, <1>4
  <2> QED
    BY <1>1, <2>1, InventoriesStand
<1>7. apps[a].active # o /\ (apps[a].active # NoOp => ops[apps[a].active].app = a)
  BY <1>1, <1>2 DEF WInv, SelectedRows, DbTypeOK, AppRow, NoOp, Ops
<1>8. PubPrevious'
  <2>1. apps[a].active # NoOp => ops'[apps[a].active].app = a
    BY <1>1, <1>4, <1>7 DEF DbTypeOK, AppRow
  <2> QED
    BY <1>4, <1>5, <1>7, <2>1 DEF PubPrevious, Target
<1>9. PubReleases'
  <2>1. ~InWork(a)
    BY <1>2, <1>3 DEF IInv, OneOperationPerApp, InWork, Unfinished
  <2>2. \A p \in Ops : ops[p].app = a =>
          (p \in retained <=> apps[a].active = p) /\ (p \in registry <=> apps[a].active = p)
    BY <1>3, <2>1 DEF CInv, Exact, Selects
  <2> QED
    BY <1>1, <1>4, <1>5, <2>2 DEF PubReleases, Target, Selects
<1> QED
  BY <1>6, <1>8, <1>9 DEF CInv

\* Build: the published release is recorded, also by a build that fails.
LEMMA BuildReleases ==
  ASSUME IInv, WInv, CInv, Build
  PROVE  CInv'
<1>1. /\ PubWorking /\ PublishingTypeOK /\ ~pub.reconcile /\ UNCHANGED <<apps, ops, retained>>
      /\ registry' = registry \/ registry' = registry \cup {pub.op}
  BY DEF IInv, PubInv, WInv, PubHolds, PubStarted, PubWorking, At, Build, dbVars
<1>2. pub.op \in Ops /\ ops[pub.op].app = Target
  BY <1>1, WorkBegan DEF Target
<1>3. /\ pub'.op = pub.op /\ pub'.previous = pub.previous /\ pub'.stage = "settle"
      /\ ~pub'.error => registry' = registry \cup {pub.op}
  <2>1. \/ /\ registry' = registry \cup {pub.op}
           /\ pub' = [pub EXCEPT !.stage = "settle"]
        \/ pub' = [pub EXCEPT !.stage = "settle", !.error = TRUE]
    BY DEF Build
  <2> QED
    BY <1>1, <2>1 DEF PublishingTypeOK
<1>4. Known' /\ Exact' /\ PubPrevious'
  BY <1>1, <1>2, <1>3, OwnReleases
<1>5. PubReleases'
  BY <1>1, <1>2, <1>3 DEF CInv, PubReleases, Target, Selects
<1> QED
  BY <1>4, <1>5 DEF CInv

\* Prepare: the release is retained beside the running one.
LEMMA PrepareReleases ==
  ASSUME IInv, WInv, CInv, Prepare
  PROVE  CInv'
<1>1. /\ PubWorking /\ PublishingTypeOK /\ ~pub.reconcile /\ UNCHANGED <<apps, ops, registry>>
      /\ retained' = retained \/ retained' = retained \cup {pub.op}
      /\ pub.stage = "prepare"
  BY DEF IInv, PubInv, WInv, PubHolds, PubStarted, PubWorking, At, Prepare, dbVars
<1>2. pub.op \in Ops /\ ops[pub.op].app = Target
  BY <1>1, WorkBegan DEF Target
<1>3. /\ pub'.op = pub.op /\ pub'.previous = pub.previous
      /\ \/ pub'.reconcile
         \/ pub'.stage = "undo"
         \/ pub'.stage = "launch" /\ retained' = retained \cup {pub.op}
  <2>1. CASE \E reconcile \in BOOLEAN : Throw(reconcile)
    BY <1>1, <2>1, ThrownOnTo DEF OnTo
  <2>2. CASE ~\E reconcile \in BOOLEAN : Throw(reconcile)
    <3>1. /\ retained' = retained \cup {pub.op}
          /\ pub' = [pub EXCEPT !.stage = "launch", !.secret = apps[Target].secret]
      BY <2>2 DEF Prepare
    <3> QED
      BY <1>1, <3>1 DEF PublishingTypeOK
  <2> QED
    BY <2>1, <2>2
<1>4. Known' /\ Exact' /\ PubPrevious'
  BY <1>1, <1>2, <1>3, OwnReleases
<1>5. PubReleases'
  BY <1>1, <1>2, <1>3 DEF CInv, PubReleases, Target, Selects
<1> QED
  BY <1>4, <1>5 DEF CInv

\* Switch: the new release, in both inventories by now, becomes the selected one.
LEMMA SwitchReleases ==
  ASSUME IInv, WInv, CInv, Switch, apps[Target].authorized
  PROVE  CInv'
<1>1. /\ PubWorking /\ PublishingTypeOK /\ DbTypeOK /\ ~pub.reconcile /\ pub.stage = "switch"
      /\ UNCHANGED <<retained, registry>>
  BY DEF IInv, PubInv, DbInv, WInv, PubHolds, PubStarted, PubWorking, At, Switch, hostVars
<1>2. pub.op \in Ops /\ Target \in Apps /\ ops[pub.op].app = Target /\ ops[pub.op].kind = "deploy"
  BY <1>1, WorkBegan DEF Target
<1>3. /\ apps' = SwitchedRow /\ ops' = [ops EXCEPT ![pub.op].state = "cleaning"]
      /\ pub' = [pub EXCEPT !.stage = "promote"]
  BY DEF Switch
<1>4. /\ apps'[Target].active = pub.op
      /\ \A a \in Apps : a # Target => apps'[a].active = apps[a].active
  BY <1>1, <1>2, <1>3 DEF SwitchedRow, DbTypeOK, AppRow
<1>5. /\ ops'[pub.op].state = "cleaning"
      /\ \A o \in Ops : /\ ops'[o].app = ops[o].app /\ ops'[o].kind = ops[o].kind
                        /\ o # pub.op => ops'[o].state = ops[o].state
  BY <1>1, <1>2, <1>3 DEF DbTypeOK, OpRow
<1>6. pub'.op = pub.op /\ pub'.previous = pub.previous /\ pub'.stage = "promote" /\ PubWorking'
  BY <1>1, <1>3 DEF PublishingTypeOK, PubWorking
<1>7. Target' = Target
  BY <1>2, <1>5, <1>6 DEF Target
<1>8. Known'
  <2>1. retained \subseteq Ops /\ registry \subseteq Ops
    BY DEF IInv, HostsInv, HostsTypeOK
  <2> QED
    BY <1>1, <1>5, <2>1 DEF CInv, Known
<1>9. Exact'
  <2>1. ASSUME NEW o \in Ops, NEW a \in Apps, ops[o].app = a, ~InWork(a)'
        PROVE  (o \in retained <=> apps'[a].active = o) /\ (o \in registry <=> apps'[a].active = o)
    <3>1. a # Target /\ ~InWork(a)
      BY <1>2, <1>5, <2>1 DEF InWork
    <3> QED
      BY <1>4, <2>1, <3>1 DEF CInv, Exact, Selects
  <2> QED
    BY <1>1, <1>5, <2>1 DEF Exact, Selects, InWork
<1>10. PubPrevious'
  <2>1. pub.previous \in Ops \cup {NoOp}
    BY <1>1, WorkBegan
  <2> QED
    BY <1>1, <1>5, <1>6, <1>7, <2>1 DEF CInv, PubPrevious
<1>11. PubReleases'
  <2>1. pub.op \in retained /\ pub.op \in registry
    BY <1>1 DEF CInv, PubReleases
  <2>2. \A o \in Ops : ops[o].app = Target /\ o \in retained \cup registry => o \in {pub.op, pub.previous}
    BY <1>1 DEF CInv, PubReleases
  <2> QED
    BY <1>1, <1>4, <1>5, <1>6, <1>7, <2>1, <2>2 DEF PubReleases, Selects
<1> QED
  BY <1>8, <1>9, <1>10, <1>11 DEF CInv

\* Discard: the clean-up of a success leaves the selected release alone.
LEMMA DiscardReleases ==
  ASSUME IInv, WInv, CInv, Discard
  PROVE  CInv'
<1>1. /\ PubWorking /\ PublishingTypeOK /\ ~pub.reconcile /\ UNCHANGED <<apps, ops>>
      /\ retained' \in {retained, retained \ {pub.previous}}
      /\ registry' \in {registry, registry \ {pub.previous}}
      /\ pub.stage = "discard"
  BY DEF IInv, PubInv, WInv, PubHolds, PubStarted, PubWorking, At, Discard, Discarded, dbVars
<1>2. pub.op \in Ops /\ Target \in Apps /\ ops[pub.op].state = "cleaning" /\ apps[Target].active = pub.op
  BY <1>1, WorkBegan DEF WInv, PubHolds, PubStarted, PubKnows, Switched
<1>3. /\ pub'.op = pub.op /\ pub'.previous = pub.previous
      /\ \/ pub'.reconcile
         \/ retained' = retained \ {pub.previous} /\ registry' = registry \ {pub.previous}
            /\ pub'.stage = "succeed"
  <2>1. CASE Throw(TRUE)
    BY <1>1, <2>1, ThrownOnTo DEF OnTo
  <2>2. CASE ~Throw(TRUE)
    <3>1. /\ retained' = retained \ {pub.previous} /\ registry' = registry \ {pub.previous}
          /\ pub' = [pub EXCEPT !.stage = "succeed"]
      BY <2>2 DEF Discard, Discarded
    <3> QED
      BY <1>1, <3>1 DEF PublishingTypeOK
  <2> QED
    BY <2>1, <2>2
<1>4. pub.previous # pub.op /\ \A o \in Ops : o = pub.previous => ops[o].app = Target
  BY <1>1 DEF CInv, PubPrevious, NoOp, Ops
<1>5. Known' /\ Exact' /\ PubPrevious'
  <2>1. \A o \in Ops : ops[o].app # Target =>
           (o \in retained' <=> o \in retained) /\ (o \in registry' <=> o \in registry)
    BY <1>1, <1>4
  <2> QED
    BY <1>1, <1>3, <2>1, OwnReleases
<1>6. PubReleases'
  <2> SUFFICES ASSUME ~pub'.reconcile PROVE PubReleases'
    BY DEF PubReleases
  <2>1. ASSUME NEW o \in Ops, ops[o].app = Target
        PROVE  /\ o = pub.op => o \in retained' /\ o \in registry'
               /\ o \in retained' \cup registry' => o = pub.op
    BY <1>1, <1>2, <1>3, <1>4, <2>1 DEF CInv, PubReleases, Selects
  <2> QED
    BY <1>1, <1>2, <1>3, <2>1 DEF PubReleases, Target, Selects
<1> QED
  BY <1>5, <1>6 DEF CInv

\* Forget: the clean-up of a failure leaves the selected release alone.
LEMMA ForgetReleases ==
  ASSUME IInv, WInv, CInv, Forget
  PROVE  CInv'
<1>1. /\ PubWorking /\ PublishingTypeOK /\ ~pub.reconcile /\ UNCHANGED <<apps, ops>>
      /\ retained' \in {retained, retained \ {pub.op}}
      /\ registry' \in {registry, registry \ {pub.op}}
      /\ pub.stage = "forget"
  BY DEF IInv, PubInv, WInv, PubHolds, PubStarted, PubWorking, At, Forget, dbVars
<1>2. /\ pub.op \in Ops /\ Target \in Apps /\ ops[pub.op].app = Target
      /\ pub.previous = apps[Target].active /\ pub.previous # pub.op
  BY <1>1, WorkBegan DEF WInv, PubHolds, PubStarted, PubKnows, Undoing, CInv, PubPrevious, Target
<1>3. /\ pub'.op = pub.op /\ pub'.previous = pub.previous
      /\ \/ pub'.reconcile
         \/ retained' = retained \ {pub.op} /\ registry' = registry \ {pub.op}
            /\ pub'.stage = "record"
  <2>1. CASE Throw(TRUE)
    BY <1>1, <2>1, ThrownOnTo DEF OnTo
  <2>2. CASE ~Throw(TRUE)
    <3>1. /\ retained' = retained \ {pub.op} /\ registry' = registry \ {pub.op}
          /\ pub' = [pub EXCEPT !.stage = "record"]
      BY <2>2 DEF Forget
    <3> QED
      BY <1>1, <3>1 DEF PublishingTypeOK
  <2> QED
    BY <2>1, <2>2
<1>4. Known' /\ Exact' /\ PubPrevious'
  <2>1. \A o \in Ops : ops[o].app # Target =>
           (o \in retained' <=> o \in retained) /\ (o \in registry' <=> o \in registry)
    BY SMTT(60), <1>1, <1>2
  <2> QED
    BY <1>1, <1>3, <2>1, OwnReleases
<1>5. PubReleases'
  <2> SUFFICES ASSUME ~pub'.reconcile PROVE PubReleases'
    BY DEF PubReleases
  <2>1. ASSUME NEW o \in Ops, ops[o].app = Target
        PROVE  /\ apps[Target].active = o => o \in retained' /\ o \in registry'
               /\ o \in retained' \cup registry' => apps[Target].active = o
    BY <1>1, <1>2, <1>3, <2>1 DEF CInv, PubReleases, Selects
  <2> QED
    BY <1>1, <1>2, <1>3, <2>1 DEF PubReleases, Target, Selects
<1> QED
  BY <1>4, <1>5 DEF CInv

\* Succeed, Record: a deployment ends only after its clean-up was complete.
LEMMA EndingReleases ==
  ASSUME IInv, WInv, CInv, Succeed \/ Record
  PROVE  CInv'
<1>1. /\ PubWorking /\ PublishingTypeOK /\ DbTypeOK /\ UNCHANGED <<apps, retained, registry>>
      /\ pub.stage \in {"succeed", "record"} /\ pub' = PubIdle
  BY DEF IInv, PubInv, DbInv, PubWorking, At, Succeed, Record, hostVars
<1>2. /\ pub.op \in Ops /\ ops[pub.op].app = Target
      /\ ops[pub.op].state \in {"building", "starting", "cleaning"}
      /\ ops[pub.op].kind = "deploy" /\ Target \in Apps
  BY <1>1, WorkBegan DEF Target
<1>3. /\ \A o \in Ops : /\ ops'[o].app = ops[o].app /\ ops'[o].kind = ops[o].kind
                        /\ o # pub.op => ops'[o] = ops[o]
      /\ ops'[pub.op].state # "none"
      /\ pub.reconcile => ops'[pub.op].state \in {"building", "cleaning"}
  <2>1. CASE Succeed
    <3>1. ops' = [ops EXCEPT ![pub.op].state = "succeeded"] /\ ~pub.reconcile
      BY <2>1 DEF Succeed, At, WInv, PubHolds, PubStarted, PubWorking
    <3> QED
      BY <1>1, <1>2, <3>1 DEF DbTypeOK, OpRow
  <2>2. CASE Record
    <3>1. ops' = Recorded
      BY <2>2 DEF Record
    <3> QED
      BY <1>1, <1>2, <3>1 DEF Recorded, DbTypeOK, OpRow
  <2> QED
    BY <2>1, <2>2
<1>4. Known'
  <2>1. retained \subseteq Ops /\ registry \subseteq Ops
    BY DEF IInv, HostsInv, HostsTypeOK
  <2> QED
    BY <1>1, <1>3, <2>1 DEF CInv, Known
<1>5. Exact'
  <2>1. ASSUME NEW o \in Ops, NEW a \in Apps, ops[o].app = a, ~InWork(a)'
        PROVE  (o \in retained <=> apps[a].active = o) /\ (o \in registry <=> apps[a].active = o)
    <3>1. CASE a = Target
      <4>1. ~pub.reconcile
        BY <1>2, <1>3, <2>1, <3>1 DEF InWork
      <4> QED
        BY <1>1, <2>1, <3>1, <4>1 DEF CInv, PubReleases, Selects
    <3>2. CASE a # Target
      <4>1. ~InWork(a)
        BY <1>2, <1>3, <2>1, <3>2 DEF InWork
      <4> QED
        BY <2>1, <4>1 DEF CInv, Exact, Selects
    <3> QED
      BY <3>1, <3>2
  <2> QED
    BY <1>1, <1>3, <2>1 DEF Exact, Selects, InWork
<1>6. PubPrevious' /\ PubReleases'
  BY <1>1 DEF PubPrevious, PubReleases, PubWorking, PubIdle
<1> QED
  BY <1>4, <1>5, <1>6 DEF CInv

\* PublisherCrashes, PublisherRecovers: what an interrupted deployment stored is
\* left where it is, and so is the deployment.
LEMMA PublisherLossReleases ==
  ASSUME IInv, WInv, CInv, PublisherCrashes \/ PublisherRecovers
  PROVE  CInv'
<1>1. /\ DbTypeOK /\ UNCHANGED <<apps, retained, registry>>
      /\ pub' \in {PubIdle, [PubIdle EXCEPT !.stage = "down"]}
  BY DEF IInv, DbInv, PublisherCrashes, PublisherRecovers, dbVars, hostVars
<1>2. \A o \in Ops : ops'[o].app = ops[o].app /\ ops'[o].kind = ops[o].kind /\ ops'[o].state = ops[o].state
  BY <1>1 DEF DbTypeOK, OpRow, PublisherCrashes, PublisherRecovers, Interrupted, dbVars
<1>3. Known' /\ Exact'
  BY <1>1, <1>2, InventoriesStand
<1>4. PubPrevious' /\ PubReleases'
  BY <1>1 DEF PubPrevious, PubReleases, PubWorking, PubIdle
<1> QED
  BY <1>3, <1>4 DEF CInv

\* No step of the publishing worker breaks the invariant.
LEMMA PublisherReleases ==
  ASSUME IInv, WInv, CInv, Publisher
  PROVE  CInv'
<1>1. CASE PublisherCrashes \/ PublisherRecovers
  BY <1>1, PublisherLossReleases
<1>2. CASE Switch
  BY <1>2, SwitchReleases, WorkReleases
<1>3. CASE Claim \/ Build \/ Prepare
  BY <1>3, ClaimReleases, BuildReleases, PrepareReleases
<1>4. CASE Discard \/ Forget \/ Succeed \/ Record
  BY <1>4, DiscardReleases, ForgetReleases, EndingReleases
<1>5. CASE Settle \/ Admit \/ Launch \/ Ready \/ Promote \/ Promoted \/ Undo
  BY <1>5, WorkReleases
<1> QED
  BY <1>1, <1>2, <1>3, <1>4, <1>5 DEF Publisher, PublisherStep, PublisherWork

\* Nobody but the publishing worker writes the inventories or selects a release.
LEMMA OthersReleases ==
  ASSUME IInv, WInv, CInv, Admission \/ Ingress \/ Lifecycle \/ Environment
  PROVE  CInv'
<1>1. UNCHANGED pub
  BY DEF Admission, Ingress, Lifecycle, Environment, pubVars
<1>2. UNCHANGED <<retained, registry>>
  <2>1. CASE Admission
    BY SMTT(60), <2>1 DEF Admission, Deploy, ChangeSecret, hostVars
  <2>2. CASE Ingress
    BY <2>2 DEF Ingress, GatewayStep, Enter, Route, Wake, Refuse, Connect, Unavailable, Finish,
                ServiceRestarts, Leave, hostVars
  <2>3. CASE Environment
    BY <2>3 DEF Environment, LoseAuthority, IdleElapses, ExpireRetired, AppExits, FinishOrphan, hostVars
  <2>4. CASE Lifecycle
    BY <2>4 DEF Lifecycle, LifecycleStep, LifecycleWork, LifecycleRecovery, LifecycleCrashes, Scan,
                ScanEnds, TryLock, Begin, Skip, Stop, StopOutcome, RetireSecrets, WakeApp, LoseLaunch,
                ReadyApp, Commit, Stopped, UndoApp, Expire, Result, FinishSecret,
                RecoverSecretChanges, RecoverStarts, hostVars
  <2> QED
    BY <2>1, <2>2, <2>3, <2>4
<1>3. \A a \in Apps : apps'[a].active = apps[a].active
  BY AdmissionAdds, OthersSelect, LifecycleSelects
<1>4. \A o \in Ops : ops[o].state # "none" =>
        /\ ops'[o].app = ops[o].app /\ ops'[o].kind = ops[o].kind /\ ops'[o].state # "none"
        /\ ops[o].kind = "deploy" => ops'[o].state = ops[o].state
  <2>1. CASE Admission
    BY <2>1, AdmissionAdds
  <2>2. CASE Ingress \/ Environment
    BY SMTT(60), <2>2, OthersSelect
  <2>3. CASE Lifecycle
    <3>1. CASE UNCHANGED ops
      BY <3>1
    <3>2. CASE RetireSecrets \/ FinishSecret
      <4>1. DbTypeOK /\ lc.op \in Ops /\ ops[lc.op].kind = "secret-change"
        BY <3>2 DEF RetireSecrets, FinishSecret, LcAt, IInv, DbInv, LcInv, LcWorking, LifecycleTypeOK,
                    SecretChange
      <4>2. PICK state \in {"starting", "cleaning", "succeeded", "failed"} :
              ops' = [ops EXCEPT ![lc.op].state = state]
        BY <3>2 DEF RetireSecrets, FinishSecret
      <4> QED
        BY <4>1, <4>2 DEF DbTypeOK, OpRow
    <3> QED
      BY <2>3, <3>1, <3>2
      DEF Lifecycle, LifecycleStep, LifecycleWork, LifecycleRecovery, LifecycleCrashes, Scan, ScanEnds,
          TryLock, Begin, Skip, Stop, WakeApp, ReadyApp, Commit, Stopped, UndoApp, Expire, Result,
          RecoverSecretChanges, RecoverStarts, dbVars
  <2> QED
    BY <2>1, <2>2, <2>3
<1> QED
  BY <1>1, <1>2, <1>3, <1>4, ReleasesStand

\* No step breaks the invariant.
LEMMA NextReleases == IInv /\ WInv /\ CInv /\ [Next]_vars => CInv'
<1> SUFFICES ASSUME IInv, WInv, CInv, [Next]_vars
             PROVE  CInv'
  OBVIOUS
<1>1. CASE UNCHANGED vars
  BY <1>1, ReleasesStand DEF vars, dbVars, hostVars, pubVars
<1> QED
  BY <1>1, PublisherReleases, OthersReleases DEF Next

\* What the two inventories hold, whatever the deployments do, fail or leave
\* behind, and whenever the worker is lost.
THEOREM ReleasesInvariant == Spec => []CInv
BY ReleasesInitially, NextReleases, Invariant, WorkersInvariant, PTL DEF Spec

\* Failures leave no residue and success forgets the replaced release: an app
\* without an unfinished operation has exactly its selected release retained on
\* the runtime host and in the registry.
THEOREM ReleasesAreExact == Spec => []ReleasesExact
<1>1. IInv /\ WInv /\ CInv => ReleasesExact
  <2> SUFFICES ASSUME IInv, WInv, CInv, NEW a \in Apps, ~Pending(a)
               PROVE  /\ ReleasesOf(a, retained) = {apps[a].active} \ {NoOp}
                      /\ ReleasesOf(a, registry) = {apps[a].active} \ {NoOp}
    BY DEF ReleasesExact
  <2>1. ~InWork(a)
    BY DEF InWork, Pending, Unfinished
  <2>2. \A o \in Ops : ops[o].app = a =>
          (o \in retained <=> apps[a].active = o) /\ (o \in registry <=> apps[a].active = o)
    BY <2>1 DEF CInv, Exact, Selects
  <2>3. /\ apps[a].active \in Ops \cup {NoOp} /\ NoOp \notin Ops
        /\ apps[a].active # NoOp => ops[apps[a].active].app = a
    BY DEF IInv, DbInv, DbTypeOK, AppRow, WInv, SelectedRows, NoOp, Ops
  <2>4. retained \subseteq Ops /\ registry \subseteq Ops
    BY DEF IInv, HostsInv, HostsTypeOK
  <2> QED
    BY <2>2, <2>3, <2>4 DEF ReleasesOf
<1> QED
  BY <1>1, Invariant, WorkersInvariant, ReleasesInvariant, PTL

=============================================================================
