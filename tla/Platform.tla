------------------------------- MODULE Platform -------------------------------
(***************************************************************************)
(* The hosting platform at run time: the identity service's admission and  *)
(* gateway, the publishing worker and the lifecycle worker, as concurrent  *)
(* processes over one database, one runtime host and one registry.  Each   *)
(* step of Next is one database transaction, one remote command, or one    *)
(* event of the environment.                                               *)
(***************************************************************************)
EXTENDS Publishing, Gateway, PublishingWorker, LifecycleWorker

pubVars == <<pub, publisherCrashes>>
lcVars == <<lc, lifecycleCrashes>>
vars == <<dbVars, hostVars, requests, pubVars, lcVars>>

Init ==
  /\ DbInit /\ HostsInit
  /\ GatewayInit /\ PublishingInit /\ LifecycleInit

\* The identity service admits an operation.
Admission ==
  /\ \E a \in Apps : Deploy(a) \/ \E action \in {"set", "remove"} : ChangeSecret(a, action)
  /\ UNCHANGED <<requests, pubVars, lcVars>>

Ingress ==
  /\ (\E r \in Requests : GatewayStep(r)) \/ ServiceRestarts
  /\ UNCHANGED <<pubVars, lcVars>>

Publisher == PublisherStep /\ UNCHANGED <<requests, lcVars>>

Lifecycle == LifecycleStep /\ UNCHANGED <<requests, pubVars>>

\* What happens to the platform: time, the operator, the apps, the network.
Environment ==
  /\ \/ \E a \in Apps : LoseAuthority(a) \/ IdleElapses(a)
     \/ ExpireRetired \/ AppExits \/ FinishOrphan
  /\ UNCHANGED <<requests, pubVars, lcVars>>

Next == Admission \/ Ingress \/ Publisher \/ Lifecycle \/ Environment

Spec == Init /\ [][Next]_vars

-----------------------------------------------------------------------------

\* Each variable of every component keeps its declared shape.
TypeOK ==
  /\ DbTypeOK /\ HostsTypeOK
  /\ GatewayTypeOK /\ PublishingTypeOK /\ LifecycleTypeOK

\* Admission (publishing.py deploy, app_secrets.py change) never lets two
\* unfinished operations exist on one app, nor two unfinished builds of one
\* creator, whatever the workers and their recoveries do in between.
OneOperationPerApp ==
  \A o, p \in Ops :
    Unfinished(o) /\ Unfinished(p) /\ o # p =>
      /\ ops[o].app # ops[p].app
      /\ ops[o].kind = "deploy" /\ ops[p].kind = "deploy"
           => Owner[ops[o].app] # Owner[ops[p].app]

\* "Deployment and lifecycle operations on the same app cannot overlap": the
\* two workers share no lock, only the rows that each reads before it acts.
NoOverlap ==
  lc.stage \notin {"down", "recovering", "idle", "scan", "begin"} /\ pub.op # NoOp
    => Target # lc.app

\* A container on the runtime host, running or not, always holds its app's
\* reservation: no slot is given back while an allocation might remain
\* (lifecycle.py process, worker.py once and cleanup).
ContainersReserved == \A c \in containers : Reserved(c.app)

\* While an app is reported as running, its route's port is that of its own
\* container, made from the selected release and the saved secrets.  The row
\* and the runtime host change in different steps of the two workers.
RunningIsServed ==
  \A a \in Apps :
    apps[a].runtime = "running" =>
      \E c \in Own(a) : /\ c.port = apps[a].target /\ c.release = apps[a].active
                        /\ c.secret = apps[a].secret

\* A replaced secret value that some container may still print stays among the
\* values that are redacted, with no expiry (app_secrets.py change and
\* redactions, lifecycle.py process).
SecretsStayRedactable ==
  \A c \in containers :
    c.secret # NoOp => c.secret = apps[c.app].secret \/ retired[c.secret] = "held"

\* An app without an unfinished operation has exactly its selected release
\* retained, on the runtime host and in the registry: failures leave no
\* residue and success forgets the replaced release (worker.py cleanup).
ReleasesExact ==
  \A a \in Apps :
    ~Pending(a) =>
      LET selected == {apps[a].active} \ {NoOp}
      IN ReleasesOf(a, retained) = selected /\ ReleasesOf(a, registry) = selected

\* A deployment that ended was charged, and what is charged and reserved never
\* exceeds the month's allowance (allowance.py reserve and settle).
BuildsAccounted ==
  /\ \A o \in Ops : ops[o].kind = "deploy" /\ ~Unfinished(o) => ops[o].charge # Unsettled
  /\ UsedSeconds <= MonthSeconds

\* A deployment that began and that no process works on is marked for the
\* operator: it is neither lost nor replayed (worker.py recover and once).
InterruptedNeedsOperator ==
  \A o \in Ops :
    /\ pub.stage # "down" /\ pub.op # o
    /\ ops[o].kind = "deploy" /\ ops[o].state \in {"building", "starting", "cleaning"}
    => ops[o].reconcile

\* The six network slots suffice: a launch that the runtime host admits finds
\* a free one, and no two containers share one (sandbox.py launch).
SlotForEveryLaunch ==
  /\ \A c, d \in containers : c.port = d.port => c = d
  /\ \A a \in Apps, candidate \in BOOLEAN :
       LaunchAllowed(a, candidate) => UsedPorts # Ports

\* At most ActiveLimit apps hold a reservation.  recover gives an interrupted
\* secret change its slot back without asking, so this holds as long as the
\* lifecycle worker's process is not lost.
SlotBound == Cardinality(ReservedApps) <= ActiveLimit

\* A request that reached an app's code reached the app it was admitted to.
RequestReachesOwnApp ==
  \A r \in Requests : requests[r].stage = "forwarded" => requests[r].reached = shared[r]

\* Outside recovery an app takes a reservation only while a slot is free: one
\* check in one transaction, for publications, wake-ups and secret changes.
AdmissionWithinSlots ==
  [][ lc.stage # "down" /\ ReservedApps' \ ReservedApps # {} =>
        Cardinality(ReservedApps) < ActiveLimit
        /\ Cardinality(ReservedApps' \ ReservedApps) = 1 ]_vars

\* The lifecycle worker never stops an app while one of its requests is in
\* flight, that is, between its admission by the gateway and its end.
InFlightProtected ==
  [][ \A a \in Apps : lc'.app = a /\ lc # lc' /\ (Own(a) \ Own(a)') # {} => ~SharedLock(a) ]_vars

-----------------------------------------------------------------------------

\* The database row read as the abstract operation.
OpStatus(o) ==
  CASE ops[o].state \in {"none", "succeeded", "failed"} -> ops[o].state
    [] Unfinished(o) /\ apps[ops[o].app].active = o -> "selected"
    [] OTHER -> "open"

Promise ==
  INSTANCE Publication
    WITH selected <- [a \in Apps |-> apps[a].active],
         status <- [o \in Ops |-> OpStatus(o)],
         subject <- [o \in Ops |-> ops[o].app]

\* The platform keeps the promise of module Publication.
KeepsPromise == Promise!Spec

-----------------------------------------------------------------------------

\* A started process goes on with what it can do: each worker loops until it is
\* stopped and is restarted when lost; a request ends by its timeouts; a remote
\* command ends by its own.
FairSpec ==
  /\ Spec
  /\ WF_vars(Publisher /\ PublisherWork)
  /\ WF_vars(Lifecycle /\ UNCHANGED lifecycleCrashes)
  /\ \A r \in Requests : WF_vars(Ingress /\ requests'[r] # requests[r] /\ requests[r].stage # "idle")
  /\ WF_vars(FinishOrphan /\ UNCHANGED <<requests, pubVars, lcVars>>)

\* An admitted deployment ends, or waits for the operator, also when the
\* publishing worker is lost on the way.
DeploymentsEnd ==
  \A o \in Ops :
    ops[o].state = "accepted" /\ ops[o].kind = "deploy"
      ~> ops[o].state \in {"succeeded", "failed"} \/ ops[o].reconcile

\* A lifecycle operation ends, or is blocked for the operator, also when the
\* lifecycle worker is lost on the way; unless requests to the app keep its
\* lock, which the worker only tries, again and again.
LifecycleOperationsEnd ==
  \A a \in Apps :
    \/ []<>SharedLock(a)
    \/ apps[a].runtime \in Busy \ {"blocked"} ~> apps[a].runtime \notin Busy \ {"blocked"}

\* A secret change ends, or is blocked for the operator, under the same proviso.
SecretChangesEnd ==
  \A o \in Ops, a \in Apps :
    \/ []<>SharedLock(a)
    \/ SecretChange(a, o) ~> ~SecretChange(a, o) \/ apps[a].runtime = "blocked"

=============================================================================
