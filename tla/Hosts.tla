-------------------------------- MODULE Hosts --------------------------------
(***************************************************************************)
(* What the workers act on outside the database: the runtime host's        *)
(* containers and its inventory of retained images (sandbox.py), and the   *)
(* control host's registry inventory (releases.py).                        *)
(*                                                                         *)
(* sandbox.py serializes its commands with one kernel lock.  A caller that *)
(* loses its connection does not stop the command it started: "orphan" is  *)
(* such a launch, which still holds that lock.                             *)
(***************************************************************************)
EXTENDS AppDatabase

CONSTANT MaxOrphans      \* bound of the model: launches whose caller is lost

VARIABLES
  containers,    \* docker's labelled containers, running or not
  retained,      \* releases.json of the runtime host
  registry,      \* records of the registry inventory that are not retired
  orphan,        \* at most one launch that outlived its caller
  orphans        \* how many there have been

hostVars == <<containers, retained, registry, orphan, orphans>>

Container ==
  [app: Apps, role: {"active", "candidate"}, port: Ports, release: Ops,
   secret: Ops \cup {NoOp}, running: BOOLEAN]

HostsTypeOK ==
  /\ containers \in SUBSET Container
  /\ retained \in SUBSET Ops
  /\ registry \in SUBSET Ops
  /\ orphan \in SUBSET [app: Apps, release: Ops, secret: Ops \cup {NoOp}, candidate: BOOLEAN]
  /\ orphans \in Nat

HostsInit ==
  /\ containers = {} /\ retained = {} /\ registry = {}
  /\ orphan = {} /\ orphans = 0

-----------------------------------------------------------------------------

Own(a) == {c \in containers : c.app = a}
InRole(role) == {c \in containers : c.role = role}
ReleasesOf(a, inventory) == {o \in inventory : ops[o].app = a}

SandboxFree == orphan = {}

UsedPorts == {c.port : c \in containers}

\* A faulty variant that counts only the containers that run.
FreePortAmongRunning ==
  CHOOSE p \in Ports : /\ p \notin {c.port : c \in {d \in containers : d.running}}
                       /\ \A q \in Ports : q < p => q \in {c.port : c \in {d \in containers : d.running}}

\* The lowest network slot that no container has, running or not.
FreePort == CHOOSE p \in Ports \ UsedPorts : \A q \in Ports \ UsedPorts : p <= q

\* Admission of a launch, checked again on the runtime host.
LaunchAllowed(a, candidate) ==
  IF candidate
  THEN InRole("candidate") = {} /\ \E c \in containers : Own(a) = {c} /\ c.role = "active"
  ELSE Own(a) = {} /\ Cardinality(InRole("active")) < ActiveLimit

NewContainer(a, release, secret, candidate, running) ==
  [app |-> a, role |-> IF candidate THEN "candidate" ELSE "active", port |-> FreePort,
   release |-> release, secret |-> secret, running |-> running]

\* The containers a launch that failed may have left behind: none, or the new
\* one, created but not started, or started with its answer lost.
LaunchLeftovers(a, release, secret, candidate) ==
  {containers} \cup
  (IF LaunchAllowed(a, candidate)
   THEN {containers \cup {NewContainer(a, release, secret, candidate, up)} : up \in BOOLEAN}
   ELSE {})

\* retain-image: the inventory holds two releases of an app at most.
CanRetain(o, inventory) ==
  o \in inventory \/ Cardinality(ReleasesOf(ops[o].app, inventory)) < 2

\* The caller's connection breaks while the launch goes on.
LoseLaunch(a, release, secret, candidate) ==
  /\ orphans < MaxOrphans
  /\ orphan' = {[app |-> a, release |-> release, secret |-> secret, candidate |-> candidate]}
  /\ orphans' = orphans + 1
  /\ UNCHANGED <<containers, retained, registry>>

\* The orphaned launch ends, with its container or without.
FinishOrphan ==
  /\ \E n \in orphan :
       containers' \in LaunchLeftovers(n.app, n.release, n.secret, n.candidate)
  /\ orphan' = {}
  /\ UNCHANGED <<dbVars, retained, registry, orphans>>

\* The app's own process exits; its container keeps its name and its slot.
AppExits ==
  /\ \E c \in containers :
       /\ c.running
       /\ containers' = (containers \ {c}) \cup {[c EXCEPT !.running = FALSE]}
  /\ UNCHANGED <<dbVars, retained, registry, orphan, orphans>>

\* sandbox.py stop: refuses an app with a candidate, otherwise removes its container.
CanStop(a) == \A c \in Own(a) : c.role = "active"

\* sandbox.py promote: the candidate must run; the active container goes, then
\* the candidate takes its name.
CanPromote(a) == \E c \in Own(a) : c.role = "candidate" /\ c.running
WithoutOldActive(a) == {c \in containers : c.app # a \/ c.role # "active"}
Renamed(a) ==
  {IF c.app = a THEN [c EXCEPT !.role = "active"] ELSE c : c \in WithoutOldActive(a)}

=============================================================================
