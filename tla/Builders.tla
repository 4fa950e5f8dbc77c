------------------------------- MODULE Builders -------------------------------
(***************************************************************************)
(* Disposable build machines: their creation, deletion and expiry          *)
(* (infra/builders.py), the provider they are rented from (cloud.py) and   *)
(* the coordinator of one build (infra/remote.py build).  Every command    *)
(* of builders.py holds builders.lock; the provider, the coordinators, the *)
(* clock and the builds themselves go on meanwhile.                        *)
(***************************************************************************)
EXTENDS Naturals, FiniteSets

CONSTANTS
  Jobs,        \* the builds, each with an identifier of its own
  NoJob,
  Limit,       \* builder machines at most, five in the code
  MaxFailures  \* bound: failed or killed removals and failed deletions

ASSUME JobsAssumption == IsFiniteSet(Jobs) /\ NoJob \notin Jobs
ASSUME LimitAssumption == Limit \in Nat \ {0} /\ MaxFailures \in Nat

VARIABLES
  machine,   \* what the provider has for the job's machine name
  address,   \* the machine's primary IPv4 address
  expired,   \* jobs whose label "expires" has passed
  journal,   \* jobs with a deleting-builder-*.json
  costed,    \* jobs with a builder-cost-*.json
  lock,      \* the command that holds builders.lock; reconcile has two loops
  at,        \* the job that command works on
  step,      \* and what it does next
  todo,      \* jobs the loop of reconcile has still to visit
  listed,    \* machines that reconcile listed before the journals
  command,   \* the child process of each coordinator
  build,     \* each coordinator's stage, and whether it sent the build
  evidence,  \* what each coordinator left behind for the accounting
  execution, \* the build on the machine
  failures

providerVars == <<machine, address, expired>>
fileVars == <<journal, costed>>
lockVars == <<lock, at, step, todo, listed>>
coordinatorVars == <<command, build, evidence>>
vars == <<providerVars, fileVars, lockVars, coordinatorVars, execution, failures>>

MachineStates == {"absent", "requested", "live", "deleting", "gone"}
RemovalSteps == {"journal", "delete", "confirm", "addresses", "cost", "unlink"}
Evidence == {"receipt", "teardown", "unattempted", "unstarted"}

TypeOK ==
  /\ machine \in [Jobs -> MachineStates]
  /\ address \in [Jobs -> {"none", "assigned", "free"}]
  /\ expired \in SUBSET Jobs
  /\ journal \in SUBSET Jobs /\ costed \in SUBSET Jobs
  /\ lock \in {"free", "create", "delete", "expiry", "journals"}
  /\ at \in Jobs \cup {NoJob}
  /\ step \in RemovalSteps \cup {"none", "post", "next"}
  /\ todo \in SUBSET Jobs /\ listed \in SUBSET Jobs
  /\ command \in [Jobs -> {"none", "create", "delete"}]
  /\ build \in [Jobs -> [stage : {"idle", "creating", "using", "deleting", "done", "lost"},
                         attempted : BOOLEAN]]
  /\ evidence \in [Jobs -> SUBSET Evidence]
  /\ execution \in [Jobs -> {"no", "sent", "running", "receipt", "over"}]
  /\ failures \in 0..MaxFailures

Init ==
  /\ machine = [j \in Jobs |-> "absent"] /\ address = [j \in Jobs |-> "none"]
  /\ expired = {} /\ journal = {} /\ costed = {}
  /\ lock = "free" /\ at = NoJob /\ step = "none" /\ todo = {} /\ listed = {}
  /\ command = [j \in Jobs |-> "none"]
  /\ build = [j \in Jobs |-> [stage |-> "idle", attempted |-> FALSE]]
  /\ evidence = [j \in Jobs |-> {}]
  /\ execution = [j \in Jobs |-> "no"]
  /\ failures = 0

(***************************************************************************)
(* The provider and the clock.                                             *)
(***************************************************************************)

\* The machines that a listing shows.
Listing == {j \in Jobs : machine[j] \in {"live", "deleting"}}

\* A create whose answer nobody waits for any more takes effect, or never does.
RequestEnds(j) ==
  /\ machine[j] = "requested"
  /\ \/ /\ machine' = [machine EXCEPT ![j] = "live"]
        /\ address' = [address EXCEPT ![j] = "assigned"]
     \/ /\ machine' = [machine EXCEPT ![j] = "absent"]
        /\ UNCHANGED address
  /\ UNCHANGED <<expired, fileVars, lockVars, coordinatorVars, execution, failures>>

\* The half hour after the create command began is over.
Expire(j) ==
  /\ machine[j] \in {"requested", "live"} /\ j \notin expired
  /\ expired' = expired \cup {j}
  /\ UNCHANGED <<machine, address, fileVars, lockVars, coordinatorVars, execution, failures>>

\* A deletion completes; whatever ran on the machine is over.
MachineGoes(j) ==
  /\ machine[j] = "deleting"
  /\ machine' = [machine EXCEPT ![j] = "gone"]
  /\ execution' = [execution EXCEPT ![j] = IF @ = "running" THEN "over" ELSE @]
  /\ UNCHANGED <<address, expired, fileVars, lockVars, coordinatorVars, failures>>

\* A deletion fails and the machine stays.
DeletionFails(j) ==
  /\ machine[j] = "deleting" /\ failures < MaxFailures
  /\ machine' = [machine EXCEPT ![j] = "live"]
  /\ failures' = failures + 1
  /\ UNCHANGED <<address, expired, fileVars, lockVars, coordinatorVars, execution>>

\* Some time after its machine, an address is deleted too or left unassigned.
AddressReleased(j) ==
  /\ machine[j] = "gone" /\ address[j] = "assigned"
  /\ \E a \in {"free", "none"} : address' = [address EXCEPT ![j] = a]
  /\ UNCHANGED <<machine, expired, fileVars, lockVars, coordinatorVars, execution, failures>>

(***************************************************************************)
(* The coordinator's ends.                                                 *)
(***************************************************************************)

\* What a coordinator that ends leaves: evidence, and exit code 7 while the
\* build was never sent.
Ends(j, left) ==
  /\ build' = [build EXCEPT ![j].stage = "done"]
  /\ evidence' = [evidence EXCEPT ![j] =
       @ \cup IF build[j].attempted THEN left \ {"unattempted"} ELSE left \cup {"unstarted"}]

\* The create command failed: there is no machine to delete.
CreateFails(j) ==
  IF build[j].stage = "creating" THEN Ends(j, {"unattempted"})
                                 ELSE UNCHANGED <<build, evidence>>

\* The delete command failed: no teardown evidence and no fallback receipt.
DeleteFails(j) ==
  IF build[j].stage = "deleting" THEN Ends(j, {}) ELSE UNCHANGED <<build, evidence>>

\* The delete command succeeded and its answer is saved.
DeleteSucceeds(j) ==
  IF build[j].stage = "deleting" THEN Ends(j, {"teardown", "unattempted"})
                                 ELSE UNCHANGED <<build, evidence>>

Release ==
  lock' = "free" /\ at' = NoJob /\ step' = "none" /\ todo' = {} /\ listed' = {}

Finished(j) == command' = [command EXCEPT ![j] = "none"]

(***************************************************************************)
(* builders.py create.                                                     *)
(***************************************************************************)

\* A faulty variant that admits one machine too many.
RoomForOneMore == Cardinality(Listing) <= Limit

\* Machines of every label count, those being deleted too.
Room == Cardinality(Listing) < Limit

CreateAdmitted(j) ==
  /\ command[j] = "create" /\ lock = "free"
  /\ j \notin Listing /\ Room
  /\ lock' = "create" /\ at' = j /\ step' = "post"
  /\ UNCHANGED <<providerVars, fileVars, todo, listed, coordinatorVars, execution, failures>>

\* Refused for its name or the limit, or for want of capacity or an answer, or
\* killed before it sent the request.
CreateRefused(j) ==
  /\ command[j] = "create" /\ at # j
  /\ Finished(j) /\ CreateFails(j)
  /\ UNCHANGED <<providerVars, fileVars, lockVars, execution, failures>>

\* The provider answers the create, and confirms it.
CreateAnswered(j) ==
  /\ lock = "create" /\ at = j
  /\ machine' = [machine EXCEPT ![j] = "live"]
  /\ address' = [address EXCEPT ![j] = "assigned"]
  /\ build' = IF build[j].stage = "creating" THEN [build EXCEPT ![j].stage = "using"] ELSE build
  /\ Release /\ Finished(j)
  /\ UNCHANGED <<expired, fileVars, evidence, execution, failures>>

\* No capacity, an error, or the command killed by its coordinator or with the
\* host: no request arrived, or one that takes effect whenever it does.  A
\* capacity rejection only repeats the request with another machine type.
CreateUnanswered(j) ==
  /\ lock = "create" /\ at = j
  /\ \E m \in {"absent", "requested"} : machine' = [machine EXCEPT ![j] = m]
  /\ CreateFails(j) /\ Release /\ Finished(j)
  /\ UNCHANGED <<address, expired, fileVars, execution, failures>>

(***************************************************************************)
(* builders.py remove, called by delete and by reconcile.                  *)
(***************************************************************************)

Removing(j, s) == lock \in {"delete", "expiry", "journals"} /\ at = j /\ step = s

\* The journal comes before the deletion.
WriteJournal(j) ==
  /\ Removing(j, "journal")
  /\ journal' = journal \cup {j} /\ step' = "delete"
  /\ UNCHANGED <<providerVars, costed, lock, at, todo, listed, coordinatorVars, execution, failures>>

DeleteMachine(j) ==
  /\ Removing(j, "delete")
  /\ machine[j] = "live"
  /\ machine' = [machine EXCEPT ![j] = "deleting"] /\ step' = "confirm"
  /\ UNCHANGED <<address, expired, fileVars, lock, at, todo, listed,
                 coordinatorVars, execution, failures>>

ConfirmDeletion(j) ==
  /\ Removing(j, "confirm")
  /\ machine[j] = "gone"
  /\ step' = "addresses"
  /\ UNCHANGED <<providerVars, fileVars, lock, at, todo, listed,
                 coordinatorVars, execution, failures>>

\* A faulty variant that takes an address still assigned for one that is gone.
AddressRemovable(j) == TRUE

\* An address that is still assigned is not touched.
AddressUnassigned(j) == address[j] # "assigned"

\* cleanup_addresses.
CleanAddress(j) ==
  /\ Removing(j, "addresses")
  /\ AddressUnassigned(j)
  /\ address' = [address EXCEPT ![j] = IF @ = "free" THEN "none" ELSE @]
  /\ step' = "cost"
  /\ UNCHANGED <<machine, expired, fileVars, lock, at, todo, listed,
                 coordinatorVars, execution, failures>>

\* A faulty variant that forgets the cost.
CostForgotten(j) == costed

CostRecord(j) == costed \cup {j}

\* finish_journal writes the cost record first.
WriteCost(j) ==
  /\ Removing(j, "cost")
  /\ costed' = CostRecord(j) /\ step' = "unlink"
  /\ UNCHANGED <<providerVars, journal, lock, at, todo, listed,
                 coordinatorVars, execution, failures>>

\* After one removal the loop of reconcile goes on; delete is done.
AfterRemoval(j, outcome) ==
  IF lock = "delete"
  THEN Release /\ Finished(j) /\ outcome
  ELSE /\ at' = NoJob /\ step' = "next"
       /\ UNCHANGED <<lock, todo, listed, coordinatorVars>>

UnlinkJournal(j) ==
  /\ Removing(j, "unlink")
  /\ journal' = journal \ {j}
  /\ AfterRemoval(j, DeleteSucceeds(j))
  /\ UNCHANGED <<providerVars, costed, execution, failures>>

\* The machine or its address is not in the state that the step needs.
Hindered(j) ==
  \/ step = "delete" /\ machine[j] # "live"
  \/ step = "confirm" /\ machine[j] # "gone"
  \/ step = "addresses" /\ ~AddressUnassigned(j)

\* A step of the removal fails, or delete is killed at it.
RemovalFails(j) ==
  /\ \E s \in RemovalSteps : Removing(j, s)
  /\ IF Hindered(j) THEN UNCHANGED failures
                    ELSE failures < MaxFailures /\ failures' = failures + 1
  /\ AfterRemoval(j, DeleteFails(j))
  /\ UNCHANGED <<providerVars, fileVars, execution>>

DeleteBegins(j) ==
  /\ command[j] = "delete" /\ lock = "free"
  /\ j \in Listing
  /\ lock' = "delete" /\ at' = j /\ step' = "journal"
  /\ UNCHANGED <<providerVars, fileVars, todo, listed, coordinatorVars, execution, failures>>

\* The machine is gone already, or the command fails or is killed before it
\* did anything.
DeleteRefused(j) ==
  /\ command[j] = "delete" /\ ~(lock = "delete" /\ at = j)
  /\ Finished(j) /\ DeleteFails(j)
  /\ UNCHANGED <<providerVars, fileVars, lockVars, execution, failures>>

(***************************************************************************)
(* builders.py reconcile, started every minute.                            *)
(***************************************************************************)

\* A faulty variant that takes every builder for expired.
AllListed == Listing

\* A faulty variant that removes again what is gone.
EveryExpired == expired

\* Machines whose label "expires" has passed.
Overdue == Listing \cap expired

ReconcileBegins ==
  /\ lock = "free"
  /\ lock' = "expiry" /\ step' = "next" /\ todo' = Overdue
  /\ UNCHANGED <<providerVars, fileVars, at, listed, coordinatorVars, execution, failures>>

NextMachine(j) ==
  /\ lock = "expiry" /\ step = "next" /\ j \in todo
  /\ at' = j /\ step' = "journal" /\ todo' = todo \ {j}
  /\ UNCHANGED <<providerVars, fileVars, lock, listed, coordinatorVars, execution, failures>>

\* A faulty variant that finishes only what it began itself.
OverdueJournals == journal \cap Overdue

\* Every journal, whoever wrote it.
Journals == journal

ToJournals ==
  /\ lock = "expiry" /\ step = "next" /\ todo = {}
  /\ lock' = "journals" /\ listed' = Listing /\ todo' = Journals
  /\ UNCHANGED <<providerVars, fileVars, at, step, coordinatorVars, execution, failures>>

\* The journal of a machine that is still listed is left alone.
NextJournal(j) ==
  /\ lock = "journals" /\ step = "next" /\ j \in todo
  /\ todo' = todo \ {j}
  /\ IF j \in listed THEN UNCHANGED <<at, step>> ELSE at' = j /\ step' = "addresses"
  /\ UNCHANGED <<providerVars, fileVars, lock, listed, coordinatorVars, execution, failures>>

ReconcileEnds ==
  /\ lock = "journals" /\ step = "next" /\ todo = {}
  /\ Release
  /\ UNCHANGED <<providerVars, fileVars, coordinatorVars, execution, failures>>

\* Killed by its time limit or with its host.
ReconcileKilled ==
  /\ lock \in {"expiry", "journals"} /\ failures < MaxFailures
  /\ Release /\ failures' = failures + 1
  /\ UNCHANGED <<providerVars, fileVars, coordinatorVars, execution>>

=============================================================================
