------------------------------- MODULE Gateway -------------------------------
(***************************************************************************)
(* One request of a signed-in user through the app gateway: Publishing's   *)
(* gateway_request and gateway_target, and AppGateway.proxy.  The request  *)
(* holds the app's shared lock from its admission to its end; it reads the *)
(* target in one transaction and connects to it later, after reading the   *)
(* request's body.                                                         *)
(***************************************************************************)
EXTENDS Hosts

VARIABLE requests    \* per request thread: its stage, the port it read, the app it reached

Idle == [stage |-> "idle", port |-> NoPort, reached |-> NoApp]

GatewayTypeOK ==
  requests \in [Requests ->
    [stage: {"idle", "locked", "routed", "forwarded"}, port: Ports \cup {NoPort},
     reached: Apps \cup {NoApp}]]

GatewayInit == requests = [r \in Requests |-> Idle]

\* check_access asks for membership only, then app_lock is taken without waiting.
Enter(r, a) ==
  /\ requests[r].stage = "idle"
  /\ apps[a].exists
  /\ exclusive # a
  /\ requests' = [requests EXCEPT ![r].stage = "locked"]
  /\ shared' = [shared EXCEPT ![r] = a]
  /\ UNCHANGED <<apps, ops, retired, exclusive, hostVars>>

\* The request ends and its lock is released.
Leave(r) ==
  /\ requests' = [requests EXCEPT ![r] = Idle]
  /\ shared' = [shared EXCEPT ![r] = NoApp]
  /\ UNCHANGED <<ops, retired, exclusive, hostVars>>

\* gateway_target finds a target.
Route(r) ==
  /\ requests[r].stage = "locked"
  /\ apps[shared[r]].authorized
  /\ apps[shared[r]].target # NoPort
  /\ requests' = [requests EXCEPT ![r].stage = "routed", ![r].port = apps[shared[r]].target]
  /\ UNCHANGED <<dbVars, hostVars>>

Wakeable(a) ==
  /\ apps[a].authorized /\ apps[a].target = NoPort
  /\ apps[a].runtime \in {"stopped", "failed"}
  /\ ~Pending(a) /\ CanReserve(a)

\* gateway_target reserves a slot for a cold start; a failed app needs the
\* explicit retry, which this request may be.
Wake(r) ==
  /\ requests[r].stage = "locked"
  /\ Wakeable(shared[r])
  /\ apps' = [apps EXCEPT ![shared[r]].runtime = "queued"]
  /\ Leave(r)

\* gateway_target answers with an error and changes nothing.
Refuse(r) ==
  /\ requests[r].stage = "locked"
  /\ apps[shared[r]].authorized => apps[shared[r]].target = NoPort
  /\ Wakeable(shared[r]) => apps[shared[r]].runtime = "failed"
  /\ UNCHANGED apps
  /\ Leave(r)

\* proxy connects to whatever answers at the port it was given.
Connect(r) ==
  /\ requests[r].stage = "routed"
  /\ \E c \in containers :
       /\ c.port = requests[r].port /\ c.running
       /\ requests' = [requests EXCEPT ![r].stage = "forwarded", ![r].reached = c.app]
  /\ UNCHANGED <<dbVars, hostVars>>

\* The connection fails, or the caller's body never arrives.
Unavailable(r) ==
  /\ requests[r].stage = "routed"
  /\ UNCHANGED apps
  /\ Leave(r)

\* A forwarded request begins a fresh idle window when it ends.
Finish(r) ==
  /\ requests[r].stage = "forwarded"
  /\ apps' = [apps EXCEPT ![shared[r]].idle = FALSE]
  /\ Leave(r)

\* The identity service's process is lost: the kernel releases its locks.
ServiceRestarts ==
  /\ \E r \in Requests : requests[r].stage # "idle"
  /\ requests' = [r \in Requests |-> Idle]
  /\ shared' = [r \in Requests |-> NoApp]
  /\ UNCHANGED <<apps, ops, retired, exclusive, hostVars>>

GatewayStep(r) ==
  \/ \E a \in Apps : Enter(r, a)
  \/ Route(r) \/ Wake(r) \/ Refuse(r)
  \/ Connect(r) \/ Unavailable(r) \/ Finish(r)

=============================================================================
