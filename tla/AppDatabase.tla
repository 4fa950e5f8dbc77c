----------------------------- MODULE AppDatabase -----------------------------
(***************************************************************************)
(* The part of the control database that the identity service, the         *)
(* publishing worker and the lifecycle worker share: the rows of apps,     *)
(* deployments, build_allowance, app_secrets and retired_secrets, and the  *)
(* kernel locks kept beside the database, one per app.                     *)
(*                                                                         *)
(* Every action that changes these rows is one BEGIN IMMEDIATE transaction *)
(* of the code.  Operation identifiers are numbers in the order in which   *)
(* the rows are created; a deploy operation's identifier is also the       *)
(* identifier of the release it builds, and a secret-change operation's    *)
(* identifier also names the secret value it saved.                        *)
(***************************************************************************)
EXTENDS Integers, FiniteSets, FiniteSetsExt

CONSTANTS
  Apps,          \* the apps that may ever be created
  Creators,      \* the users with creator authority
  Owner,         \* [Apps -> Creators]: apps.owner
  NoApp,         \* stands for no app
  Requests,      \* the gateway's request threads
  ActiveLimit,   \* active app slots (5)
  AppLimit,      \* deployed apps (30)
  BuildSeconds,  \* what a build reserves (600)
  MonthSeconds,  \* the installation's monthly allowance (60000)
  MaxOps         \* bound of the model: operations ever admitted

ASSUME ConstantsAssumption ==
  /\ Owner \in [Apps -> Creators]
  /\ NoApp \notin Apps
  /\ ActiveLimit \in Nat \ {0}
  /\ AppLimit \in Nat \ {0}
  /\ BuildSeconds \in Nat
  /\ MonthSeconds \in Nat
  /\ MaxOps \in Nat

VARIABLES
  apps,          \* the apps table with the app's secret
  ops,           \* the deployments table with its build_allowance row
  retired,       \* retired_secrets: what became of each replaced value
  exclusive,     \* the app whose lock the lifecycle worker holds
  shared         \* the app whose lock each gateway request holds

dbVars == <<apps, ops, retired, exclusive, shared>>

Ops == 1 .. MaxOps
NoOp == 0                          \* a NULL deployment or secret
Ports == 1 .. (ActiveLimit + 1)    \* one network slot for each active app and one candidate
NoPort == 0                        \* a NULL target_port
Unsettled == -1                    \* charged_seconds IS NULL

\* runtime_state of an operation in progress, which holds the app's slot.
Busy == {"queued", "starting", "stopping", "cleaning", "blocked"}
RuntimeStates == Busy \cup {"unavailable", "running", "stopped", "failed"}

AppRow ==
  [exists: BOOLEAN, authorized: BOOLEAN, runtime: RuntimeStates,
   active: Ops \cup {NoOp}, target: Ports \cup {NoPort}, container: BOOLEAN,
   idle: BOOLEAN, secret: Ops \cup {NoOp}]

OpRow ==
  [app: Apps \cup {NoApp}, kind: {"deploy", "secret-change"},
   state: {"none", "accepted", "building", "starting", "cleaning", "succeeded", "failed"},
   charge: Unsettled .. BuildSeconds, reconcile: BOOLEAN]

DbTypeOK ==
  /\ apps \in [Apps -> AppRow]
  /\ ops \in [Ops -> OpRow]
  /\ retired \in [Ops -> {"no", "held", "expiring"}]
  /\ exclusive \in Apps \cup {NoApp}
  /\ shared \in [Requests -> Apps \cup {NoApp}]

DbInit ==
  /\ apps = [a \in Apps |->
       [exists |-> FALSE, authorized |-> TRUE, runtime |-> "unavailable", active |-> NoOp,
        target |-> NoPort, container |-> FALSE, idle |-> FALSE, secret |-> NoOp]]
  /\ ops = [o \in Ops |->
       [app |-> NoApp, kind |-> "deploy", state |-> "none", charge |-> 0, reconcile |-> FALSE]]
  /\ retired = [o \in Ops |-> "no"]
  /\ exclusive = NoApp
  /\ shared = [r \in Requests |-> NoApp]

-----------------------------------------------------------------------------

Unfinished(o) == ops[o].state \notin {"none", "succeeded", "failed"}

Pending(a) == \E o \in Ops : ops[o].app = a /\ Unfinished(o)

\* The code's RESERVED condition on a row of apps.
Reserved(a) ==
  \/ apps[a].target # NoPort
  \/ \E o \in Ops : ops[o].app = a /\ ops[o].state \in {"starting", "cleaning"}
  \/ apps[a].runtime \in Busy

ReservedApps == {a \in Apps : Reserved(a)}

\* A faulty variant that lets one app too many in.
CanReserveOneTooMany(a) == Reserved(a) \/ Cardinality(ReservedApps) <= ActiveLimit

\* lifecycle.reserve: refused when another app would need a sixth slot.
CanReserve(a) == Reserved(a) \/ Cardinality(ReservedApps) < ActiveLimit

\* allowance.usage: settled charges, and a whole reservation for the others.
UsedSeconds ==
  LET spent(o) == IF ops[o].charge = Unsettled THEN BuildSeconds ELSE ops[o].charge
  IN MapThenSumSet(spent, Ops)

\* A faulty variant that asks for some time left, not for a whole reservation.
CanReserveSomeTime == MonthSeconds - UsedSeconds > 0

\* allowance.reserve: the whole of a build must be available.
CanReserveBuild == MonthSeconds - UsedSeconds >= BuildSeconds

\* The next identifier that no row uses.
Fresh(o) ==
  /\ o \in Ops
  /\ ops[o].state = "none"
  /\ \A p \in Ops : p < o => ops[p].state # "none"

NewOp(a, kind) ==
  [app |-> a, kind |-> kind, state |-> "accepted",
   charge |-> IF kind = "deploy" THEN Unsettled ELSE 0, reconcile |-> FALSE]

SharedLock(a) == \E r \in Requests : shared[r] = a

=============================================================================
