--------------------------- MODULE BuildCoordinator ---------------------------
(***************************************************************************)
(* The coordinator of a build (infra/remote.py build), run once for each   *)
(* build by the publishing worker (identity/worker.py build), and the      *)
(* system of coordinators, builders.py and provider.                       *)
(***************************************************************************)
EXTENDS Builders

Start(j) ==
  /\ build[j].stage = "idle"
  /\ build' = [build EXCEPT ![j].stage = "creating"]
  /\ command' = [command EXCEPT ![j] = "create"]
  /\ UNCHANGED <<providerVars, fileVars, lockVars, evidence, execution, failures>>

\* A faulty variant that notes the attempt only after the command.
NotedLater == FALSE

\* The attempt is noted before the command is sent.
NotedFirst == TRUE

\* The machine is ready and the build is sent to it.
SendBuild(j) ==
  /\ build[j].stage = "using" /\ execution[j] = "no" /\ machine[j] = "live"
  /\ build' = [build EXCEPT ![j].attempted = NotedFirst]
  /\ execution' = [execution EXCEPT ![j] = "sent"]
  /\ UNCHANGED <<providerVars, fileVars, lockVars, command, evidence, failures>>

\* The build begins, whatever became of its coordinator.
BuildBegins(j) ==
  /\ execution[j] = "sent" /\ j \in Listing
  /\ execution' = [execution EXCEPT ![j] = "running"]
  /\ UNCHANGED <<providerVars, fileVars, lockVars, coordinatorVars, failures>>

\* It ends, with or without a receipt.
BuildEnds(j) ==
  /\ execution[j] = "running"
  /\ \E e \in {"receipt", "over"} : execution' = [execution EXCEPT ![j] = e]
  /\ UNCHANGED <<providerVars, fileVars, lockVars, coordinatorVars, failures>>

\* The machine could not be prepared, or the connection to the build ended, or
\* timed out, or the coordinator was interrupted: after an attempt it fetches
\* the receipt if it can, and in any case it deletes the machine.
StopUsing(j) ==
  /\ build[j].stage = "using"
  /\ build' = [build EXCEPT ![j].stage = "deleting"]
  /\ command' = [command EXCEPT ![j] = "delete"]
  /\ \E fetched \in SUBSET {"receipt"} :
       /\ fetched # {} => build[j].attempted /\ execution[j] = "receipt" /\ j \in Listing
       /\ evidence' = [evidence EXCEPT ![j] = fetched]
  /\ UNCHANGED <<providerVars, fileVars, lockVars, execution, failures>>

\* Killed without a chance to clean up; its child process goes on.
CoordinatorLost(j) ==
  /\ build[j].stage \in {"creating", "using", "deleting"}
  /\ build' = [build EXCEPT ![j].stage = "lost"]
  /\ UNCHANGED <<providerVars, fileVars, lockVars, command, evidence, execution, failures>>

Environment(j) ==
  \/ RequestEnds(j) \/ Expire(j) \/ MachineGoes(j) \/ DeletionFails(j) \/ AddressReleased(j)

Coordinator(j) ==
  \/ Start(j) \/ SendBuild(j) \/ StopUsing(j) \/ CoordinatorLost(j)
  \/ BuildBegins(j) \/ BuildEnds(j)

\* Steps that a command which holds the lock, or could have it, takes.
Create(j) ==
  CreateAdmitted(j) \/ CreateRefused(j) \/ CreateAnswered(j) \/ CreateUnanswered(j)

Remove(j) ==
  \/ WriteJournal(j) \/ DeleteMachine(j) \/ ConfirmDeletion(j) \/ CleanAddress(j)
  \/ WriteCost(j) \/ UnlinkJournal(j) \/ RemovalFails(j)

Delete(j) == DeleteBegins(j) \/ DeleteRefused(j)

Reconcile ==
  \/ ReconcileBegins \/ ToJournals \/ ReconcileEnds
  \/ \E j \in Jobs : NextMachine(j) \/ NextJournal(j)

Next ==
  \/ ReconcileKilled \/ Reconcile
  \/ \E j \in Jobs : Environment(j) \/ Coordinator(j) \/ Create(j) \/ Delete(j) \/ Remove(j)

Spec == Init /\ [][Next]_vars

\* The provider answers in the end, time passes, the timer runs, and every
\* command that holds the lock goes on.
FairSpec ==
  /\ Spec
  /\ WF_vars(Reconcile)
  /\ WF_vars(\E j \in Jobs : Remove(j))
  /\ \A j \in Jobs :
       /\ WF_vars(RequestEnds(j)) /\ WF_vars(Expire(j))
       /\ WF_vars(MachineGoes(j)) /\ WF_vars(AddressReleased(j))
       /\ WF_vars(CreateAnswered(j) \/ CreateUnanswered(j))

(***************************************************************************)
(* What the machines, the records and the accounting promise.              *)
(***************************************************************************)

\* What worker.py build_accounting takes for a termination.
Terminated(j) ==
  \/ evidence[j] \cap {"unattempted", "unstarted"} # {}
  \/ {"receipt", "teardown"} \subseteq evidence[j]

\* A build that is settled never ran, or its processes ended before the
\* receipt was fetched: it is not running and never will be (remote.py build
\* and worker.py build_accounting).
SettledIsOver ==
  \A j \in Jobs : Terminated(j) =>
    IF evidence[j] \cap {"unattempted", "unstarted"} # {}
    THEN execution[j] = "no" /\ build[j].stage = "done"
    ELSE execution[j] = "receipt" /\ machine[j] = "gone"

\* The machines that coordinators were given and know of: those they use, those
\* they delete and those that they could not delete.
Entrusted ==
  {j \in Listing : \/ build[j].stage \in {"using", "deleting"}
                   \/ build[j].stage = "done" /\ "unattempted" \notin evidence[j]}

\* They are within the limit, also while a machine that failed to be deleted stays
\* and while requests that nobody waits for, which no listing shows before, take
\* effect late (builders.py create).
WithinLimit == Cardinality(Entrusted) <= Limit

\* An address outlives its machine only while a journal lists it, so that
\* reconcile finds it (builders.py remove and reconcile).
AddressesJournaled ==
  \A j \in Jobs : machine[j] = "gone" /\ address[j] # "none" => j \in journal

\* Every machine that was deleted is recorded for the cost estimate, or a
\* journal says that it will be (builders.py finish_journal).
CostsRecorded == \A j \in Jobs : machine[j] = "gone" => j \in journal \cup costed

\* So whatever of a deleted machine still costs money or has to be accounted is
\* known to the next reconcile.
NothingForgotten == AddressesJournaled /\ CostsRecorded

\* No machine is deleted under a coordinator that uses it, except after its
\* half hour (builders.py reconcile).
NotDeletedInUse ==
  [][\A j \in Jobs : machine[j] = "live" /\ machine'[j] = "deleting"
       => j \in expired \/ build[j].stage \notin {"creating", "using"}]_vars

\* The provider, the files and the evidence read as the life of one rental.
RentalOf(j) ==
  CASE machine[j] \in {"absent", "requested"} -> "none"
    [] machine[j] \in {"live", "deleting"} -> "rented"
    [] OTHER -> IF address[j] = "none" /\ j \in costed \ journal THEN "settled" ELSE "returned"

ProgressOf(j) ==
  CASE execution[j] \in {"no", "sent"} -> "waiting"
    [] execution[j] = "running" -> "running"
    [] OTHER -> "over"

AccountOf(j) ==
  IF evidence[j] \cap {"unattempted", "unstarted"} # {} THEN "free"
  ELSE IF Terminated(j) THEN "charged" ELSE "open"

Contract ==
  INSTANCE Rental
    WITH rental <- [j \in Jobs |-> RentalOf(j)],
         progress <- [j \in Jobs |-> ProgressOf(j)],
         account <- [j \in Jobs |-> AccountOf(j)]

\* create, delete and reconcile, with the notes of the coordinator, keep the promise
\* of module Rental: a machine is rented once and not opened again after it is
\* settled, a build runs once and on its machine, and its account is closed once, as
\* free if it never ran and as charged when it is over and its machine returned.
KeepsContract == Contract!Spec

\* Every machine goes in the end, with its address and its journal, and leaves
\* its cost, whatever happened to its coordinator.
EventuallyRemoved ==
  \A j \in Jobs : machine[j] = "live" ~>
    machine[j] = "gone" /\ address[j] = "none" /\ j \notin journal /\ j \in costed

=============================================================================
