--------------------------- MODULE LifecycleWorker ---------------------------
(***************************************************************************)
(* The lifecycle worker (identity/lifecycle.py): one process that stops    *)
(* idle apps, starts queued ones and restarts an app whose secrets         *)
(* changed.  It works on one app at a time, under that app's exclusive     *)
(* kernel lock, which it only tries to take.  Every remote step may fail,  *)
(* with or without its effect, and the process may be lost between steps.  *)
(***************************************************************************)
EXTENDS Hosts

CONSTANT MaxLifecycleCrashes   \* bound of the model

VARIABLES
  lc,               \* the worker's program counter and local variables
  lifecycleCrashes

LcStages ==
  {"down", "recovering", "idle", "scan", "begin", "stop", "retire", "wake", "ready", "commit",
   "stopped", "undo", "expire", "result", "finish"}

LcIdle ==
  [stage |-> "idle", todo |-> {}, app |-> NoApp, op |-> NoOp, queued |-> FALSE,
   active |-> NoOp, port |-> NoPort, result |-> "failed"]

LifecycleTypeOK ==
  /\ lc \in [stage: LcStages, todo: SUBSET Apps, app: Apps \cup {NoApp}, op: Ops \cup {NoOp},
             queued: BOOLEAN, active: Ops \cup {NoOp}, port: Ports \cup {NoPort},
             result: {"failed", "stopped", "blocked"}]
  /\ lifecycleCrashes \in Nat

LifecycleInit == lc = LcIdle /\ lifecycleCrashes = 0

LcAt(stage) == lc.stage = stage
LcGoto(stage) == lc' = [lc EXCEPT !.stage = stage]

\* once returns TRUE: the lock is released and the next scan starts over.
LcDone ==
  /\ lc' = LcIdle
  /\ exclusive' = NoApp

SecretChange(a, o) == ops[o].app = a /\ ops[o].kind = "secret-change" /\ Unfinished(o)

\* A faulty variant that does not look for unfinished operations.
IdleUnchecked(a) == apps[a].runtime = "running" /\ apps[a].idle

\* A running app that the idle rule may stop.
IdleStoppable(a) ==
  apps[a].runtime = "running" /\ apps[a].idle /\ ~Pending(a)

-----------------------------------------------------------------------------

\* once: the apps with work, as one read sees them.
Scan ==
  /\ LcAt("idle")
  /\ LET rows == {a \in Apps : \/ apps[a].runtime \in {"stopping", "cleaning", "queued"}
                               \/ IdleStoppable(a)}
     IN /\ rows # {}
        /\ lc' = [LcIdle EXCEPT !.stage = "scan", !.todo = rows]
  /\ UNCHANGED <<dbVars, hostVars>>

\* Stops come before starts; rows of one kind in any order.
NextRow(a) ==
  /\ a \in lc.todo
  /\ apps[a].runtime = "queued" => \A b \in lc.todo : apps[b].runtime = "queued"

\* A faulty variant that ignores the requests that share the lock.
TakeLockAnyway(a) ==
  /\ exclusive' = a
  /\ lc' = [lc EXCEPT !.stage = "begin", !.app = a]

\* flock without waiting: taken, or the app is left for the next scan.
TakeLock(a) ==
  \/ /\ ~SharedLock(a)
     /\ exclusive' = a
     /\ lc' = [lc EXCEPT !.stage = "begin", !.app = a]
  \/ /\ SharedLock(a)
     /\ exclusive' = exclusive
     /\ lc' = [lc EXCEPT !.todo = @ \ {a}]

TryLock(a) ==
  /\ LcAt("scan")
  /\ NextRow(a)
  /\ TakeLock(a)
  /\ UNCHANGED <<apps, ops, retired, shared, hostVars>>

ScanEnds ==
  /\ LcAt("scan") /\ lc.todo = {}
  /\ lc' = LcIdle
  /\ UNCHANGED <<dbVars, hostVars>>

HasWork(a) == apps[a].runtime \in {"queued", "stopping", "cleaning"} \/ IdleStoppable(a)

\* process, first transaction: the row is read again and marked.
Begin ==
  /\ LcAt("begin")
  /\ HasWork(lc.app)
  /\ LET a == lc.app
         state == apps[a].runtime
         op == IF \E o \in Ops : SecretChange(a, o)
               THEN CHOOSE o \in Ops : SecretChange(a, o) ELSE NoOp
     IN /\ apps' = [apps EXCEPT ![a].runtime = IF state = "queued" THEN "starting"
                                               ELSE IF state = "running" THEN "stopping"
                                               ELSE state]
        /\ lc' = [lc EXCEPT !.op = op, !.active = apps[a].active, !.queued = (state = "queued"),
                            !.stage = IF op # NoOp \/ state # "queued" THEN "stop" ELSE "wake"]
  /\ UNCHANGED <<ops, retired, exclusive, shared, hostVars>>

\* process returns FALSE: there is nothing to do any more; the scan goes on.
Skip ==
  /\ LcAt("begin")
  /\ ~HasWork(lc.app)
  /\ exclusive' = NoApp
  /\ lc' = [LcIdle EXCEPT !.stage = "scan", !.todo = lc.todo \ {lc.app}]
  /\ UNCHANGED <<apps, ops, retired, shared, hostVars>>

WithoutApp == {c \in containers : c.app # lc.app}

\* What infrastructure.stop may leave: it can fail after the container is gone.
StopOutcome(succeeded, failed) ==
  /\ \/ /\ SandboxFree /\ CanStop(lc.app)
        /\ containers' = WithoutApp
        /\ succeeded \/ failed
     \/ UNCHANGED containers /\ failed
  /\ UNCHANGED <<retained, registry, orphan, orphans>>

\* The idle app, the uncertain allocation or the old configuration is stopped.
Stop ==
  /\ LcAt("stop")
  /\ StopOutcome(LcGoto(IF lc.op # NoOp THEN "retire" ELSE "stopped"), LcGoto("undo"))
  /\ UNCHANGED dbVars

Expired == [v \in Ops |-> IF retired[v] = "held" /\ ops[v].app = lc.app THEN "expiring" ELSE retired[v]]

\* The old values expire seven days after the confirmed stop.
RetireSecrets ==
  /\ LcAt("retire")
  /\ retired' = Expired
  /\ ops' = [ops EXCEPT ![lc.op].state = "starting"]
  /\ lc' = [lc EXCEPT !.stage = "wake", !.queued = TRUE]
  /\ UNCHANGED <<apps, exclusive, shared, hostVars>>

WakeSecret == apps[lc.app].secret

\* Infrastructure.wake: the retained release with the saved configuration.
WakeApp ==
  /\ LcAt("wake")
  /\ \/ /\ SandboxFree
        /\ lc.active \in retained
        /\ LET a == lc.app IN
           \/ /\ LaunchAllowed(a, FALSE)
              /\ LET c == NewContainer(a, lc.active, WakeSecret, FALSE, TRUE)
                 IN containers' = containers \cup {c}
                    /\ lc' = [lc EXCEPT !.stage = "ready", !.port = c.port]
              /\ UNCHANGED <<retained, registry, orphan, orphans>>
           \/ /\ containers' \in LaunchLeftovers(a, lc.active, WakeSecret, FALSE)
              /\ LcGoto("undo")
              /\ UNCHANGED <<retained, registry, orphan, orphans>>
           \/ LoseLaunch(a, lc.active, WakeSecret, FALSE) /\ LcGoto("undo")
     \/ LcGoto("undo") /\ UNCHANGED hostVars
  /\ UNCHANGED dbVars

ReadyApp ==
  /\ LcAt("ready")
  /\ \/ (\E c \in containers : c.port = lc.port /\ c.running) /\ LcGoto("commit")
     \/ LcGoto("undo")
  /\ UNCHANGED <<dbVars, hostVars>>

\* The started app gets its route, under the owner's authority at that moment.
Commit ==
  /\ LcAt("commit")
  /\ LET a == lc.app IN
     \/ /\ apps[a].authorized
        /\ apps' = [apps EXCEPT ![a].runtime = "running", ![a].target = lc.port,
                                ![a].container = TRUE, ![a].idle = FALSE]
        /\ IF lc.op # NoOp THEN LcGoto("finish") /\ UNCHANGED exclusive ELSE LcDone
     \/ /\ ~apps[a].authorized
        /\ LcGoto("undo")
        /\ UNCHANGED <<apps, exclusive>>
  /\ UNCHANGED <<ops, retired, shared, hostVars>>

\* A row without a route and without a container.
WithRuntime(result) ==
  [apps EXCEPT ![lc.app].runtime = result, ![lc.app].target = NoPort, ![lc.app].container = FALSE]

Stopped ==
  /\ LcAt("stopped")
  /\ apps' = WithRuntime("stopped")
  /\ LcDone
  /\ UNCHANGED <<ops, retired, shared, hostVars>>

\* A faulty variant that gives the slot back whether or not the stop is confirmed.
UndoResultOptimistic == "failed"

\* An unconfirmed clean-up keeps the app's slot.
UndoFailed == "blocked"

\* The handler of a failure stops the app again; a stop that fails too keeps the slot.
UndoApp ==
  /\ LcAt("undo")
  /\ StopOutcome(
       lc' = [lc EXCEPT !.stage = IF lc.op # NoOp THEN "expire" ELSE "result",
                        !.result = IF lc.queued \/ lc.op # NoOp THEN "failed" ELSE "stopped"],
       lc' = [lc EXCEPT !.stage = "result", !.result = UndoFailed])
  /\ UNCHANGED dbVars

Expire ==
  /\ LcAt("expire")
  /\ retired' = Expired
  /\ LcGoto("result")
  /\ UNCHANGED <<apps, ops, exclusive, shared, hostVars>>

Result ==
  /\ LcAt("result")
  /\ apps' = WithRuntime(lc.result)
  /\ IF lc.op # NoOp THEN LcGoto("finish") /\ UNCHANGED exclusive ELSE LcDone
  /\ UNCHANGED <<ops, retired, shared, hostVars>>

\* The secret change ends as the app's runtime did.
FinishSecret ==
  /\ LcAt("finish")
  /\ LET runtime == apps[lc.app].runtime IN
     ops' = [ops EXCEPT ![lc.op].state = IF runtime = "blocked" THEN "cleaning"
                                         ELSE IF runtime = "running" THEN "succeeded"
                                         ELSE "failed"]
  /\ LcDone
  /\ UNCHANGED <<apps, retired, shared, hostVars>>

-----------------------------------------------------------------------------

\* The process is lost, or a database error ends it; the kernel frees its lock.
LifecycleCrashes ==
  /\ ~LcAt("down")
  /\ lifecycleCrashes < MaxLifecycleCrashes
  /\ lifecycleCrashes' = lifecycleCrashes + 1
  /\ lc' = [LcIdle EXCEPT !.stage = "down"]
  /\ exclusive' = NoApp
  /\ UNCHANGED <<apps, ops, retired, shared, hostVars>>

\* A faulty variant that leaves the secret changes as the crash left them.
ResumedNone(a) == apps[a]

\* An unfinished secret change is done again, from the stop on.
Resumed(a) ==
  IF \E o \in Ops : SecretChange(a, o) THEN [apps[a] EXCEPT !.runtime = "stopping"] ELSE apps[a]

\* recover, first transaction.
RecoverSecretChanges ==
  /\ LcAt("down")
  /\ apps' = [a \in Apps |-> Resumed(a)]
  /\ LcGoto("recovering")
  /\ UNCHANGED <<ops, retired, exclusive, shared, hostVars>>

\* A faulty variant that forgets the start that was interrupted.
RecoveredBlockedOnly(row) ==
  IF row.runtime = "blocked" THEN [row EXCEPT !.runtime = "cleaning"] ELSE row

\* An interrupted or blocked start leaves an uncertain allocation to remove.
Recovered(row) ==
  IF row.runtime \in {"starting", "blocked"} THEN [row EXCEPT !.runtime = "cleaning"] ELSE row

\* recover, second transaction.
RecoverStarts ==
  /\ LcAt("recovering")
  /\ apps' = [a \in Apps |-> Recovered(apps[a])]
  /\ lc' = LcIdle
  /\ UNCHANGED <<ops, retired, exclusive, shared, hostVars>>

\* Work on the locked app.
LifecycleWork ==
  \/ Begin \/ Skip \/ Stop \/ RetireSecrets \/ WakeApp \/ ReadyApp \/ Commit \/ Stopped
  \/ UndoApp \/ Expire \/ Result \/ FinishSecret

LifecycleRecovery == RecoverSecretChanges \/ RecoverStarts

LifecycleStep ==
  \/ /\ LifecycleWork \/ LifecycleRecovery \/ Scan \/ ScanEnds \/ \E a \in Apps : TryLock(a)
     /\ UNCHANGED lifecycleCrashes
  \/ LifecycleCrashes

=============================================================================
