------------------------------ MODULE Publishing ------------------------------
(***************************************************************************)
(* Admission by the identity service: deploy requests (publishing.py) and  *)
(* secret changes (app_secrets.py).  Each handler is one transaction; one  *)
(* that fails leaves no trace, so only the accepting branch is an action.  *)
(* A request whose identifier already has a receipt gets that receipt back *)
(* and changes nothing; the requests here are new ones.                    *)
(***************************************************************************)
EXTENDS Hosts

CreatorBuilds(u) ==
  \E o \in Ops : ops[o].app \in Apps /\ Owner[ops[o].app] = u
                 /\ ops[o].kind = "deploy" /\ Unfinished(o)

Deployed == {a \in Apps : apps[a].exists}

\* A faulty variant that looks at the app's row and not at its operations.
NoLifecycleOperation(a) == apps[a].runtime \notin Busy

\* No lifecycle operation and no admitted operation on the app.
NoOperation(a) == apps[a].runtime \notin Busy /\ ~Pending(a)

\* Publishing.deploy: a new app gets its row, the build its reservation.
Deploy(a) ==
  /\ apps[a].authorized
  /\ apps[a].exists => NoOperation(a)
  /\ ~CreatorBuilds(Owner[a])
  /\ apps[a].exists \/ Cardinality(Deployed) < AppLimit
  /\ CanReserveBuild
  /\ \E o \in Ops :
       /\ Fresh(o)
       /\ ops' = [ops EXCEPT ![o] = NewOp(a, "deploy")]
  /\ apps' = [apps EXCEPT ![a].exists = TRUE]
  /\ UNCHANGED <<retired, exclusive, shared, hostVars>>

\* The new value is saved and, with it, the route is withdrawn.
Saved(a, value) ==
  [apps EXCEPT ![a].runtime = "stopping", ![a].target = NoPort, ![a].secret = value]

\* A faulty variant that drops the replaced value at once.
RetireAtOnce(a) == retired

\* The replaced value is kept for redaction, with no expiry yet.
Retire(a) == [v \in Ops |-> IF v = apps[a].secret THEN "held" ELSE retired[v]]

\* Vault.change with an effect: the restart is admitted with the saved value.
ChangeSecret(a, action) ==
  /\ apps[a].exists /\ apps[a].authorized
  /\ action = "set" \/ apps[a].secret # NoOp
  /\ NoOperation(a) /\ CanReserve(a)
  /\ \E o \in Ops :
       /\ Fresh(o)
       /\ ops' = [ops EXCEPT ![o] = NewOp(a, "secret-change")]
       /\ apps' = Saved(a, IF action = "set" THEN o ELSE NoOp)
  /\ retired' = Retire(a)
  /\ UNCHANGED <<exclusive, shared, hostVars>>

\* The operator disables an app, or its owner loses membership or creator
\* authority; nothing in the repository restores it by itself.
LoseAuthority(a) ==
  /\ apps[a].exists /\ apps[a].authorized
  /\ apps' = [apps EXCEPT ![a].authorized = FALSE]
  /\ UNCHANGED <<ops, retired, exclusive, shared, hostVars>>

\* Seven days after its confirmed stop a retired value stops being redacted.
ExpireRetired ==
  /\ \E v \in Ops :
       /\ retired[v] = "expiring"
       /\ retired' = [retired EXCEPT ![v] = "no"]
  /\ UNCHANGED <<apps, ops, exclusive, shared, hostVars>>

\* Half an hour passes since the last request forwarded to a running app.
IdleElapses(a) ==
  /\ apps[a].runtime = "running" /\ ~apps[a].idle
  /\ apps' = [apps EXCEPT ![a].idle = TRUE]
  /\ UNCHANGED <<ops, retired, exclusive, shared, hostVars>>

=============================================================================
