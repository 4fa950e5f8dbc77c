--------------------------- MODULE PublishingWorker ---------------------------
(***************************************************************************)
(* The publishing worker (identity/worker.py): one process that takes the  *)
(* oldest accepted deployment through its build, its candidate's start,    *)
(* the switch of the route and the clean-up.  Between its transactions it  *)
(* works from a copy of the app's row read when it claimed the operation.  *)
(* Every remote step may fail, with or without its effect, and the process *)
(* may be lost between any two steps.                                      *)
(***************************************************************************)
EXTENDS Hosts

CONSTANT MaxPublisherCrashes   \* bound of the model

VARIABLES
  pub,              \* the worker's program counter and local variables
  publisherCrashes

PubStages ==
  {"down", "idle", "build", "settle", "admit", "prepare", "launch", "ready", "switch",
   "promote", "promoted", "discard", "succeed", "undo", "forget", "record"}

PubIdle ==
  [stage |-> "idle", op |-> NoOp, container |-> FALSE, previous |-> NoOp, secret |-> NoOp,
   port |-> NoPort, error |-> FALSE, reconcile |-> FALSE, starting |-> FALSE]

PublishingTypeOK ==
  /\ pub \in [stage: PubStages, op: Ops \cup {NoOp}, container: BOOLEAN,
              previous: Ops \cup {NoOp}, secret: Ops \cup {NoOp}, port: Ports \cup {NoPort},
              error: BOOLEAN, reconcile: BOOLEAN, starting: BOOLEAN]
  /\ publisherCrashes \in Nat

PublishingInit == pub = PubIdle /\ publisherCrashes = 0

At(stage) == pub.stage = stage

Target == ops[pub.op].app

\* An exception: handled by the clean-up, or recorded for the operator at once.
Throw(reconcile) ==
  pub' = [pub EXCEPT !.stage = IF reconcile THEN "record" ELSE "undo",
                     !.error = TRUE, !.reconcile = reconcile]

Accepted(o) == ops[o].state = "accepted" /\ ops[o].kind = "deploy"

-----------------------------------------------------------------------------

\* once, first transaction: the oldest accepted deployment and a copy of its app.
Claim ==
  /\ At("idle")
  /\ \E o \in Ops :
       /\ Accepted(o)
       /\ \A p \in Ops : p < o => ~Accepted(p)
       /\ ops' = [ops EXCEPT ![o].state = "building"]
       /\ pub' = [PubIdle EXCEPT !.stage = "build", !.op = o,
                                 !.container = apps[ops[o].app].container,
                                 !.previous = apps[ops[o].app].active]
  /\ UNCHANGED <<apps, retired, exclusive, shared, hostVars>>

\* Infrastructure.build: the remote build, its verification and the publication
\* of the release.  A failure may leave the release's record in the registry.
Build ==
  /\ At("build")
  /\ LET admitted == CanRetain(pub.op, registry)
     IN \/ /\ admitted
           /\ registry' = registry \cup {pub.op}
           /\ pub' = [pub EXCEPT !.stage = "settle"]
        \/ /\ registry' \in {registry} \cup IF admitted THEN {registry \cup {pub.op}} ELSE {}
           /\ pub' = [pub EXCEPT !.stage = "settle", !.error = TRUE]
  /\ UNCHANGED <<dbVars, containers, retained, orphan, orphans>>

\* A faulty variant that charges whatever the evidence says.
ChargesUncapped == 0 .. BuildSeconds + 1

\* The rounded duration, capped at what was reserved.
Charges == 0 .. BuildSeconds

\* settle_build, after a build that succeeded or failed: the charge needs
\* evidence that the builder terminated; without it the operator must decide.
Settle ==
  /\ At("settle")
  /\ \/ \E seconds \in Charges :
          /\ ops' = [ops EXCEPT ![pub.op].charge = IF @ = Unsettled THEN seconds ELSE @]
          /\ pub' = [pub EXCEPT !.stage = IF pub.error THEN "undo" ELSE "admit"]
     \/ Throw(TRUE) /\ UNCHANGED ops
  /\ UNCHANGED <<apps, retired, exclusive, shared, hostVars>>

\* The starting transaction, refused when all slots are taken.
Admit ==
  /\ At("admit")
  /\ \/ /\ CanReserve(Target)
        /\ ops' = [ops EXCEPT ![pub.op].state = "starting"]
        /\ pub' = [pub EXCEPT !.stage = "prepare", !.starting = TRUE]
     \/ /\ ~CanReserve(Target)
        /\ Throw(FALSE) /\ UNCHANGED ops
  /\ UNCHANGED <<apps, retired, exclusive, shared, hostVars>>

\* Vault.environment, then Infrastructure.start as far as the retained image
\* and the environment file.  Failing to remove the staged files is for the operator.
Prepare ==
  /\ At("prepare")
  /\ \/ /\ SandboxFree /\ CanRetain(pub.op, retained)
        /\ retained' = retained \cup {pub.op}
        /\ \/ pub' = [pub EXCEPT !.stage = "launch", !.secret = apps[Target].secret]
           \/ \E reconcile \in BOOLEAN : Throw(reconcile)
     \/ /\ \E reconcile \in BOOLEAN : Throw(reconcile)
        /\ UNCHANGED retained
  /\ UNCHANGED <<dbVars, containers, registry, orphan, orphans>>

\* The sandbox's start: beside the running container of an update, or alone.
Launch ==
  /\ At("launch")
  /\ SandboxFree
  /\ \/ /\ LaunchAllowed(Target, pub.container)
        /\ LET c == NewContainer(Target, pub.op, pub.secret, pub.container, TRUE)
           IN containers' = containers \cup {c}
              /\ pub' = [pub EXCEPT !.stage = "ready", !.port = c.port]
        /\ UNCHANGED <<retained, registry, orphan, orphans>>
     \/ /\ containers' \in LaunchLeftovers(Target, pub.op, pub.secret, pub.container)
        /\ \E reconcile \in BOOLEAN : Throw(reconcile)
        /\ UNCHANGED <<retained, registry, orphan, orphans>>
     \/ /\ LoseLaunch(Target, pub.op, pub.secret, pub.container)
        /\ \E reconcile \in BOOLEAN : Throw(reconcile)
  /\ UNCHANGED dbVars

\* The candidate's columns are stored and readiness is awaited.
Ready ==
  /\ At("ready")
  /\ \/ /\ \E c \in containers : c.port = pub.port /\ c.running
        /\ pub' = [pub EXCEPT !.stage = "switch"]
     \/ Throw(FALSE)
  /\ UNCHANGED <<dbVars, hostVars>>

\* A faulty variant that routes to the candidate without selecting its release.
SwitchedRouteOnly ==
  [apps EXCEPT ![Target].target = pub.port, ![Target].container = TRUE,
               ![Target].runtime = "running", ![Target].idle = FALSE]

\* The route, the release and the container are selected together.
SwitchedRow ==
  [apps EXCEPT ![Target].active = pub.op, ![Target].target = pub.port,
               ![Target].container = TRUE, ![Target].runtime = "running",
               ![Target].idle = FALSE]

\* The switch transaction, under the owner's authority at that moment.
Switch ==
  /\ At("switch")
  /\ \/ /\ apps[Target].authorized
        /\ apps' = SwitchedRow
        /\ ops' = [ops EXCEPT ![pub.op].state = "cleaning"]
        /\ pub' = [pub EXCEPT !.stage = "promote"]
     \/ /\ ~apps[Target].authorized
        /\ Throw(FALSE)
        /\ UNCHANGED <<apps, ops>>
  /\ UNCHANGED <<retired, exclusive, shared, hostVars>>

\* Infrastructure.promote of an update; the old container may already be gone
\* when it fails.  From here on every failure is for the operator.
Promote ==
  /\ At("promote")
  /\ \/ /\ ~pub.container
        /\ pub' = [pub EXCEPT !.stage = "promoted"]
        /\ UNCHANGED containers
     \/ /\ pub.container /\ SandboxFree /\ CanPromote(Target)
        /\ containers' = Renamed(Target)
        /\ pub' = [pub EXCEPT !.stage = "promoted"]
     \/ /\ pub.container
        /\ containers' \in {containers} \cup
             IF SandboxFree /\ CanPromote(Target)
             THEN {WithoutOldActive(Target), Renamed(Target)} ELSE {}
        /\ Throw(TRUE)
  /\ UNCHANGED <<dbVars, retained, registry, orphan, orphans>>

\* The container's column names the active container again.
Promoted ==
  /\ At("promoted")
  /\ apps' = [apps EXCEPT ![Target].container = TRUE]
  /\ pub' = [pub EXCEPT !.stage = "discard"]
  /\ UNCHANGED <<ops, retired, exclusive, shared, hostVars>>

\* A faulty variant that discards the release it just selected.
DiscardNew == pub.op

\* The release that a successful update replaces.
Discarded == pub.previous

\* Infrastructure.cleanup after success: the previous release is forgotten on
\* the runtime host, then retired in the registry.
Discard ==
  /\ At("discard")
  /\ SandboxFree
  /\ \/ /\ retained' = retained \ {Discarded}
        /\ registry' = registry \ {Discarded}
        /\ pub' = [pub EXCEPT !.stage = "succeed"]
     \/ /\ Discarded # NoOp
        /\ \/ UNCHANGED <<retained, registry>>
           \/ retained' = retained \ {Discarded}
              /\ registry' \in {registry, registry \ {Discarded}}
        /\ Throw(TRUE)
  /\ UNCHANGED <<dbVars, containers, orphan, orphans>>

Succeed ==
  /\ At("succeed")
  /\ ops' = [ops EXCEPT ![pub.op].state = "succeeded"]
  /\ pub' = PubIdle
  /\ UNCHANGED <<apps, retired, exclusive, shared, hostVars>>

-----------------------------------------------------------------------------

UndoneRole == IF pub.container THEN "candidate" ELSE "active"

\* Infrastructure.cleanup after a failure, first part: docker rm of the new
\* container by its name.  It does not take the sandbox's lock.
Undo ==
  /\ At("undo")
  /\ \/ /\ containers' = {c \in containers : c.app # Target \/ c.role # UndoneRole}
        /\ pub' = [pub EXCEPT !.stage = "forget"]
     \/ /\ containers' \in {containers, {c \in containers : c.app # Target \/ c.role # UndoneRole}}
        /\ Throw(TRUE)
  /\ UNCHANGED <<dbVars, retained, registry, orphan, orphans>>

\* Second part: the new release is forgotten and retired.
Forget ==
  /\ At("forget")
  /\ SandboxFree
  /\ \/ /\ retained' = retained \ {pub.op}
        /\ registry' = registry \ {pub.op}
        /\ pub' = [pub EXCEPT !.stage = "record"]
     \/ /\ \/ UNCHANGED <<retained, registry>>
           \/ retained' = retained \ {pub.op} /\ registry' \in {registry, registry \ {pub.op}}
        /\ Throw(TRUE)
  /\ UNCHANGED <<dbVars, containers, orphan, orphans>>

\* A faulty variant that reports every failure as final.
RecordedAlwaysFailed == [ops EXCEPT ![pub.op].state = "failed"]

\* The operation ends, unless what it left behind needs the operator.
Recorded ==
  [ops EXCEPT
    ![pub.op].state = IF ~pub.reconcile THEN "failed"
                      ELSE IF pub.starting THEN "cleaning" ELSE "building",
    ![pub.op].reconcile = pub.reconcile]

Record ==
  /\ At("record")
  /\ ops' = Recorded
  /\ pub' = PubIdle
  /\ UNCHANGED <<apps, retired, exclusive, shared, hostVars>>

-----------------------------------------------------------------------------

\* The process is lost, or a database error ends it.
PublisherCrashes ==
  /\ pub.stage # "down"
  /\ publisherCrashes < MaxPublisherCrashes
  /\ publisherCrashes' = publisherCrashes + 1
  /\ pub' = [PubIdle EXCEPT !.stage = "down"]
  /\ UNCHANGED <<dbVars, hostVars>>

\* A faulty variant that forgets the operations that were still building.
InterruptedAfterBuild ==
  [o \in Ops |-> IF ops[o].kind = "deploy" /\ ops[o].state \in {"starting", "cleaning"}
                 THEN [ops[o] EXCEPT !.reconcile = TRUE] ELSE ops[o]]

\* An interrupted deployment is never replayed: it waits for the operator.
Interrupted ==
  [o \in Ops |-> IF ops[o].kind = "deploy" /\ ops[o].state \in {"building", "starting", "cleaning"}
                 THEN [ops[o] EXCEPT !.reconcile = TRUE] ELSE ops[o]]

\* Worker.recover, before the first operation is claimed.
PublisherRecovers ==
  /\ pub.stage = "down"
  /\ ops' = Interrupted
  /\ pub' = PubIdle
  /\ UNCHANGED <<apps, retired, exclusive, shared, hostVars>>

PublisherWork ==
  \/ Claim \/ Build \/ Settle \/ Admit \/ Prepare \/ Launch \/ Ready \/ Switch
  \/ Promote \/ Promoted \/ Discard \/ Succeed \/ Undo \/ Forget \/ Record
  \/ PublisherRecovers

PublisherStep ==
  \/ PublisherWork /\ UNCHANGED publisherCrashes
  \/ PublisherCrashes

=============================================================================
