---------------------------- MODULE BuildersProofs ----------------------------
(***************************************************************************)
(* Invariants of BuildCoordinator for every number of builds, every limit  *)
(* and every number of failures: no build is settled while it can run,     *)
(* nothing that costs money is forgotten, and no machine is deleted in use.*)
(* None is inductive by itself.  What a command that holds the lock has    *)
(* done at each step ties the journals to the machines (RemovalInv); what  *)
(* a coordinator at each stage has left ties the evidence to the build     *)
(* (BuildInv).                                                             *)
(***************************************************************************)
EXTENDS BuildCoordinator, FiniteSetTheorems, TLAPS

Existing(j) == machine[j] \in {"live", "deleting", "gone"}

\* The holder of the lock works on a job that it may work on.
LockInv ==
  /\ lock = "free" => at = NoJob
  /\ lock = "create" => at \in Jobs /\ step = "post" /\ command[at] = "create"
  /\ lock = "delete" => at \in Jobs /\ step \in RemovalSteps /\ command[at] = "delete"
  /\ lock = "expiry" => IF at = NoJob THEN step = "next"
                                      ELSE step \in RemovalSteps /\ at \in expired
  /\ lock = "journals" => IF at = NoJob THEN step = "next"
                                        ELSE step \in {"addresses", "cost", "unlink"}

\* What reconcile will visit is worth a visit.
TodoInv ==
  /\ lock = "expiry" => \A j \in todo : Existing(j) /\ j \in expired
  /\ lock = "journals" =>
       \A j \in todo : j # at /\ j \in journal /\ (j \notin listed => machine[j] = "gone")

\* What a removal has done when it comes to each step.
RemovalInv ==
  at \in Jobs /\ step \in RemovalSteps =>
    /\ Existing(at)
    /\ step # "journal" => at \in journal
    /\ step \in {"addresses", "cost", "unlink"} => machine[at] = "gone"
    /\ step \in {"cost", "unlink"} => address[at] = "none"
    /\ step = "unlink" => at \in costed

\* What the provider, the journals and the cost records say of one machine.
MachineInv ==
  \A j \in Jobs :
    /\ machine[j] \in {"absent", "requested"} => address[j] = "none"
    /\ j \in journal => Existing(j)
    /\ machine[j] = "deleting" => j \in journal
    /\ machine[j] = "gone" => j \in journal \/ (j \in costed /\ address[j] = "none")

\* What a coordinator at each stage has done.
BuildInv ==
  \A j \in Jobs :
    /\ build[j].stage \in {"idle", "creating"} =>
         evidence[j] = {} /\ execution[j] = "no" /\ ~build[j].attempted
    /\ build[j].stage = "idle" => command[j] = "none"
    /\ build[j].stage = "idle" \/ command[j] = "create" => machine[j] = "absent"
    /\ build[j].stage = "creating" => command[j] = "create"
    /\ build[j].stage = "using" => command[j] = "none" /\ evidence[j] = {} /\ Existing(j)
    /\ execution[j] # "no" => build[j].attempted

\* What the evidence for the accounting says of the build.
EvidenceInv ==
  \A j \in Jobs :
    /\ evidence[j] \cap {"unattempted", "unstarted"} # {} =>
         ~build[j].attempted /\ build[j].stage = "done"
    /\ "receipt" \in evidence[j] => execution[j] = "receipt"
    /\ "teardown" \in evidence[j] => machine[j] = "gone"

IInv == TypeOK /\ LockInv /\ TodoInv /\ RemovalInv /\ MachineInv /\ BuildInv /\ EvidenceInv

-----------------------------------------------------------------------------

\* Nothing exists at first.
LEMMA InitInv == Init => IInv
BY JobsAssumption, LimitAssumption
DEF Init, IInv, TypeOK, LockInv, TodoInv, RemovalInv, MachineInv, BuildInv, EvidenceInv, Existing,
    MachineStates, RemovalSteps, Evidence

BuildType == [stage : {"idle", "creating", "using", "deleting", "done", "lost"},
              attempted : BOOLEAN]

\* Noting the attempt keeps a coordinator's shape.
LEMMA Marked == ASSUME NEW b \in BuildType PROVE [b EXCEPT !.attempted = TRUE] \in BuildType
BY DEF BuildType

\* A coordinator that ends leaves its evidence and disturbs no other.
LEMMA EndsEffect ==
  ASSUME TypeOK, NEW j \in Jobs, NEW left \in SUBSET Evidence, Ends(j, left)
  PROVE  /\ build' \in [Jobs -> BuildType] /\ evidence' \in [Jobs -> SUBSET Evidence]
         /\ \A k \in Jobs : build'[k].attempted = build[k].attempted
         /\ \A k \in Jobs : k # j => build'[k] = build[k] /\ evidence'[k] = evidence[k]
         /\ build'[j].stage = "done"
         /\ \A e \in Evidence : e \in evidence'[j] <=>
              \/ e \in evidence[j]
              \/ e \in left /\ (e = "unattempted" => ~build[j].attempted)
              \/ e = "unstarted" /\ ~build[j].attempted
<1>1. build \in [Jobs -> BuildType] /\ evidence \in [Jobs -> SUBSET Evidence]
  BY DEF TypeOK, BuildType
<1>2. build' = [build EXCEPT ![j].stage = "done"]
  BY DEF Ends
<1>3. evidence' = [evidence EXCEPT ![j] =
       @ \cup IF build[j].attempted THEN left \ {"unattempted"} ELSE left \cup {"unstarted"}]
  BY DEF Ends
<1>4. build' \in [Jobs -> BuildType]
  BY <1>1, <1>2 DEF BuildType
<1>5. evidence' \in [Jobs -> SUBSET Evidence]
  BY <1>1, <1>3 DEF Evidence
<1> QED
  BY <1>1, <1>2, <1>3, <1>4, <1>5 DEF BuildType, Evidence

\* What the end of a command tells its coordinator, if it still waits for it.
Noted(j, left) ==
  /\ build' \in [Jobs -> BuildType] /\ evidence' \in [Jobs -> SUBSET Evidence]
  /\ \A k \in Jobs : build'[k].attempted = build[k].attempted
  /\ \A k \in Jobs : k # j => build'[k] = build[k] /\ evidence'[k] = evidence[k]
  /\ \/ build'[j] = build[j] /\ evidence'[j] = evidence[j]
     \/ /\ build[j].stage \in {"creating", "deleting"} /\ build'[j].stage = "done"
        /\ \A e \in Evidence : e \in evidence'[j] <=>
             \/ e \in evidence[j]
             \/ e \in left /\ (e = "unattempted" => ~build[j].attempted)
             \/ e = "unstarted" /\ ~build[j].attempted

\* Each of the three ends of a command is such a note.
LEMMA CommandEnds ==
  ASSUME TypeOK, NEW j \in Jobs
  PROVE  /\ CreateFails(j) => Noted(j, {"unattempted"}) /\ build'[j].stage # "creating"
         /\ DeleteFails(j) => Noted(j, {})
         /\ DeleteSucceeds(j) => Noted(j, {"teardown", "unattempted"})
<1>1. build \in [Jobs -> BuildType] /\ evidence \in [Jobs -> SUBSET Evidence]
  BY DEF TypeOK, BuildType
<1>2. ASSUME NEW left \in SUBSET Evidence, Ends(j, left), build[j].stage \in {"creating", "deleting"}
      PROVE  Noted(j, left) /\ build'[j].stage = "done"
  BY <1>2, EndsEffect DEF Noted
<1>3. UNCHANGED <<build, evidence>> => \A left \in SUBSET Evidence : Noted(j, left)
  BY <1>1 DEF Noted
<1> QED
  <2>1. CreateFails(j) => Noted(j, {"unattempted"}) /\ build'[j].stage # "creating"
    <3>1. CASE build[j].stage = "creating"
      BY <1>2, <3>1 DEF CreateFails, Evidence
    <3>2. CASE build[j].stage # "creating"
      BY <1>3, <3>2 DEF CreateFails, Evidence
    <3> QED
      BY <3>1, <3>2
  <2>2. DeleteFails(j) => Noted(j, {})
    BY <1>2, <1>3 DEF DeleteFails, Evidence
  <2>3. DeleteSucceeds(j) => Noted(j, {"teardown", "unattempted"})
    BY <1>2, <1>3 DEF DeleteSucceeds, Evidence
  <2> QED
    BY <2>1, <2>2, <2>3

\* The provider and the clock keep the invariant.
LEMMA EnvironmentInv == ASSUME IInv, NEW j \in Jobs, Environment(j) PROVE IInv'
<1> USE JobsAssumption, LimitAssumption
    DEF IInv, TypeOK, LockInv, TodoInv, RemovalInv, MachineInv, BuildInv, EvidenceInv, Existing,
        providerVars, fileVars, lockVars, coordinatorVars, MachineStates, RemovalSteps, Evidence
<1>1. CASE RequestEnds(j)
  <2>1. CASE machine' = [machine EXCEPT ![j] = "live"] /\ address' = [address EXCEPT ![j] = "assigned"]
    BY <1>1, <2>1 DEF RequestEnds
  <2>2. CASE machine' = [machine EXCEPT ![j] = "absent"] /\ UNCHANGED address
    BY <1>1, <2>2 DEF RequestEnds
  <2> QED
    BY <1>1, <2>1, <2>2 DEF RequestEnds
<1>2. CASE Expire(j)
  BY <1>2 DEF Expire
<1>3. CASE MachineGoes(j)
  BY <1>3 DEF MachineGoes
<1>4. CASE DeletionFails(j)
  BY <1>4 DEF DeletionFails
<1>5. CASE AddressReleased(j)
  BY <1>5 DEF AddressReleased
<1> QED
  BY <1>1, <1>2, <1>3, <1>4, <1>5 DEF Environment

\* The coordinators, and the builds on their machines, keep it.
LEMMA CoordinatorInv == ASSUME IInv, NEW j \in Jobs, Coordinator(j) PROVE IInv'
<1> USE JobsAssumption, LimitAssumption
    DEF IInv, TypeOK, LockInv, TodoInv, RemovalInv, MachineInv, BuildInv, EvidenceInv, Existing,
        providerVars, fileVars, lockVars, coordinatorVars, MachineStates, RemovalSteps, Evidence
<1>1. CASE Start(j)
  BY <1>1 DEF Start
<1>2. CASE SendBuild(j)
  <2>1. build' \in [Jobs -> BuildType]
    <3>1. build \in [Jobs -> BuildType]
      BY DEF BuildType
    <3>2. build' = [build EXCEPT ![j] = [build[j] EXCEPT !.attempted = TRUE]]
      BY <1>2 DEF SendBuild, NotedFirst
    <3> HIDE DEF IInv, TypeOK
    <3> QED
      BY <3>1, <3>2, Marked
  <2>2. TypeOK'
    BY <1>2, <2>1 DEF SendBuild, BuildType
  <2>3. LockInv' /\ TodoInv' /\ RemovalInv' /\ MachineInv'
    BY <1>2 DEF SendBuild, NotedFirst
  <2>4. BuildInv'
    BY <1>2 DEF SendBuild, NotedFirst
  <2>5. EvidenceInv'
    BY <1>2 DEF SendBuild, NotedFirst
  <2> QED
    BY <2>2, <2>3, <2>4, <2>5
<1>3. CASE StopUsing(j)
  <2>1. TypeOK'
    BY <1>3 DEF StopUsing
  <2>2. LockInv' /\ TodoInv' /\ RemovalInv' /\ MachineInv'
    BY <1>3 DEF StopUsing
  <2>3. BuildInv'
    BY <1>3 DEF StopUsing
  <2>4. EvidenceInv'
    BY <1>3 DEF StopUsing
  <2> QED
    BY <2>1, <2>2, <2>3, <2>4
<1>4. CASE CoordinatorLost(j)
  BY <1>4 DEF CoordinatorLost
<1>5. CASE BuildBegins(j)
  BY <1>5 DEF BuildBegins
<1>6. CASE BuildEnds(j)
  BY <1>6 DEF BuildEnds
<1> QED
  BY <1>1, <1>2, <1>3, <1>4, <1>5, <1>6 DEF Coordinator

\* The create command keeps it.
LEMMA CreateInv == ASSUME IInv, NEW j \in Jobs, Create(j) PROVE IInv'
<1> USE JobsAssumption, LimitAssumption
    DEF IInv, TypeOK, LockInv, TodoInv, RemovalInv, MachineInv, BuildInv, EvidenceInv, Existing,
        providerVars, fileVars, lockVars, coordinatorVars, MachineStates, RemovalSteps, Evidence
<1>1. CASE CreateAdmitted(j)
  BY <1>1 DEF CreateAdmitted, Listing, Room
<1>2. CASE CreateRefused(j)
  <2>1. Noted(j, {"unattempted"}) /\ build'[j].stage # "creating"
    BY <1>2, CommandEnds DEF CreateRefused
  <2>2. TypeOK'
    BY <1>2, <2>1 DEF CreateRefused, Finished, Noted, BuildType
  <2>3. LockInv' /\ TodoInv' /\ RemovalInv' /\ MachineInv'
    BY <1>2, <2>1 DEF CreateRefused, Finished, Noted, BuildType
  <2>4. BuildInv'
    BY <1>2, <2>1 DEF CreateRefused, Finished, Noted, BuildType
  <2>5. EvidenceInv'
    BY <1>2, <2>1 DEF CreateRefused, Finished, Noted, BuildType
  <2> QED
    BY <2>2, <2>3, <2>4, <2>5
<1>3. CASE CreateAnswered(j)
  BY <1>3 DEF CreateAnswered, Finished, Release
<1>4. CASE CreateUnanswered(j)
  <2>1. Noted(j, {"unattempted"}) /\ build'[j].stage # "creating"
    BY <1>4, CommandEnds DEF CreateUnanswered
  <2>2. machine' \in [Jobs -> MachineStates]
    BY <1>4 DEF CreateUnanswered
  <2>3. TypeOK'
    BY <1>4, <2>1, <2>2 DEF CreateUnanswered, Finished, Release, Noted, BuildType
  <2>4. LockInv' /\ TodoInv' /\ RemovalInv' /\ MachineInv'
    BY <1>4, <2>1 DEF CreateUnanswered, Finished, Release, Noted, BuildType
  <2>5. BuildInv'
    BY <1>4, <2>1 DEF CreateUnanswered, Finished, Release, Noted, BuildType
  <2>6. EvidenceInv'
    BY <1>4, <2>1 DEF CreateUnanswered, Finished, Release, Noted, BuildType
  <2> QED
    BY <2>3, <2>4, <2>5, <2>6
<1> QED
  BY <1>1, <1>2, <1>3, <1>4 DEF Create

\* The beginning of the delete command keeps it.
LEMMA DeleteInv == ASSUME IInv, NEW j \in Jobs, Delete(j) PROVE IInv'
<1> USE JobsAssumption, LimitAssumption
    DEF IInv, TypeOK, LockInv, TodoInv, RemovalInv, MachineInv, BuildInv, EvidenceInv, Existing,
        providerVars, fileVars, lockVars, coordinatorVars, MachineStates, RemovalSteps, Evidence
<1>1. CASE DeleteBegins(j)
  BY <1>1 DEF DeleteBegins, Listing
<1>2. CASE DeleteRefused(j)
  <2>1. Noted(j, {})
    BY <1>2, CommandEnds DEF DeleteRefused
  <2>2. TypeOK'
    BY <1>2, <2>1 DEF DeleteRefused, Finished, Noted, BuildType
  <2>3. LockInv' /\ TodoInv' /\ RemovalInv' /\ MachineInv'
    BY <1>2, <2>1 DEF DeleteRefused, Finished, Noted, BuildType
  <2>4. BuildInv'
    BY <1>2, <2>1 DEF DeleteRefused, Finished, Noted, BuildType
  <2>5. EvidenceInv'
    BY <1>2, <2>1 DEF DeleteRefused, Finished, Noted, BuildType
  <2> QED
    BY <2>2, <2>3, <2>4, <2>5
<1> QED
  BY <1>1, <1>2 DEF Delete

\* The removal that delete and reconcile share keeps it.
LEMMA RemoveInv == ASSUME IInv, NEW j \in Jobs, Remove(j) PROVE IInv'
<1> USE JobsAssumption, LimitAssumption
    DEF IInv, TypeOK, LockInv, TodoInv, RemovalInv, MachineInv, BuildInv, EvidenceInv, Existing,
        providerVars, fileVars, lockVars, coordinatorVars, MachineStates, RemovalSteps, Evidence
<1>1. CASE WriteJournal(j)
  BY <1>1 DEF WriteJournal, Removing
<1>2. CASE DeleteMachine(j)
  BY <1>2 DEF DeleteMachine, Removing
<1>3. CASE ConfirmDeletion(j)
  BY <1>3 DEF ConfirmDeletion, Removing
<1>4. CASE CleanAddress(j)
  BY <1>4 DEF CleanAddress, Removing, AddressUnassigned
<1>5. CASE WriteCost(j)
  BY <1>5 DEF WriteCost, Removing, CostRecord
<1>6. CASE UnlinkJournal(j)
  <2>1. IF lock = "delete" THEN Noted(j, {"teardown", "unattempted"}) ELSE UNCHANGED coordinatorVars
    BY <1>6, CommandEnds DEF UnlinkJournal, AfterRemoval
  <2>2. /\ lock' \in {"free", "delete", "expiry", "journals"} /\ at' = NoJob
        /\ step' \in {"none", "next"} /\ todo' \in SUBSET Jobs /\ listed' \in SUBSET Jobs
        /\ command' \in [Jobs -> {"none", "create", "delete"}]
    <3>1. lock # "free" /\ lock # "create"
      BY <1>6 DEF UnlinkJournal, Removing
    <3>2. CASE lock = "delete"
      BY <1>6, <3>2 DEF UnlinkJournal, AfterRemoval, Release, Finished
    <3>3. CASE lock # "delete"
      BY <1>6, <3>1, <3>3 DEF UnlinkJournal, AfterRemoval
    <3> QED
      BY <3>2, <3>3
  <2>3. build' \in [Jobs -> BuildType] /\ evidence' \in [Jobs -> SUBSET Evidence]
    BY <2>1 DEF Noted, BuildType
  <2>4. TypeOK'
    BY <1>6, <2>2, <2>3 DEF UnlinkJournal, BuildType
  <2>5. LockInv' /\ TodoInv' /\ RemovalInv' /\ MachineInv'
    BY <1>6, <2>1 DEF UnlinkJournal, Removing, AfterRemoval, Release, Finished, Noted, BuildType
  <2>6. BuildInv'
    BY <1>6, <2>1 DEF UnlinkJournal, Removing, AfterRemoval, Release, Finished, Noted, BuildType
  <2>7. EvidenceInv'
    BY <1>6, <2>1 DEF UnlinkJournal, Removing, AfterRemoval, Release, Finished, Noted, BuildType
  <2> QED
    BY <2>4, <2>5, <2>6, <2>7
<1>7. CASE RemovalFails(j)
  <2>1. IF lock = "delete" THEN Noted(j, {}) ELSE UNCHANGED coordinatorVars
    BY <1>7, CommandEnds DEF RemovalFails, AfterRemoval
  <2>2. failures' \in 0..MaxFailures
    BY <1>7 DEF RemovalFails
  <2>3. /\ lock' \in {"free", "delete", "expiry", "journals"} /\ at' = NoJob
        /\ step' \in {"none", "next"} /\ todo' \in SUBSET Jobs /\ listed' \in SUBSET Jobs
        /\ command' \in [Jobs -> {"none", "create", "delete"}]
    <3>1. lock # "free" /\ lock # "create"
      BY <1>7 DEF RemovalFails, Removing
    <3>2. CASE lock = "delete"
      BY <1>7, <3>2 DEF RemovalFails, AfterRemoval, Release, Finished
    <3>3. CASE lock # "delete"
      BY <1>7, <3>1, <3>3 DEF RemovalFails, AfterRemoval
    <3> QED
      BY <3>2, <3>3
  <2>4. build' \in [Jobs -> BuildType] /\ evidence' \in [Jobs -> SUBSET Evidence]
    BY <2>1 DEF Noted, BuildType
  <2>5. TypeOK'
    BY <1>7, <2>3, <2>4, <2>2 DEF RemovalFails, BuildType
  <2>6. LockInv' /\ TodoInv' /\ RemovalInv' /\ MachineInv'
    BY <1>7, <2>1 DEF RemovalFails, Removing, AfterRemoval, Release, Finished, Hindered, Noted, BuildType
  <2>7. BuildInv'
    BY SMTT(60), <1>7, <2>1 DEF RemovalFails, Removing, AfterRemoval, Release, Finished, Hindered, Noted, BuildType
  <2>8. EvidenceInv'
    BY <1>7, <2>1 DEF RemovalFails, Removing, AfterRemoval, Release, Finished, Hindered, Noted, BuildType
  <2> QED
    BY <2>5, <2>6, <2>7, <2>8
<1> QED
  BY <1>1, <1>2, <1>3, <1>4, <1>5, <1>6, <1>7 DEF Remove


\* The loops of reconcile keep it.
LEMMA ReconcileInv == ASSUME IInv, Reconcile \/ ReconcileKilled PROVE IInv'
<1> USE JobsAssumption, LimitAssumption
    DEF IInv, TypeOK, LockInv, TodoInv, RemovalInv, MachineInv, BuildInv, EvidenceInv, Existing,
        providerVars, fileVars, lockVars, coordinatorVars, MachineStates, RemovalSteps, Evidence
<1>1. CASE ReconcileBegins
  BY <1>1 DEF ReconcileBegins, Overdue, Listing
<1>2. CASE ToJournals
  BY <1>2 DEF ToJournals, Journals, Listing
<1>3. CASE ReconcileEnds
  BY <1>3 DEF ReconcileEnds, Release
<1>4. ASSUME NEW j \in Jobs, NextMachine(j) PROVE IInv'
  BY <1>4 DEF NextMachine
<1>5. ASSUME NEW j \in Jobs, NextJournal(j) PROVE IInv'
  BY <1>5 DEF NextJournal
<1>6. CASE ReconcileKilled
  BY <1>6 DEF ReconcileKilled, Release
<1> QED
  BY <1>1, <1>2, <1>3, <1>4, <1>5, <1>6 DEF Reconcile

\* The invariant is inductive.
LEMMA NextInv == IInv /\ [Next]_vars => IInv'
<1> SUFFICES ASSUME IInv, [Next]_vars PROVE IInv'
  OBVIOUS
<1>1. CASE UNCHANGED vars
  BY <1>1
  DEF vars, IInv, TypeOK, LockInv, TodoInv, RemovalInv, MachineInv, BuildInv, EvidenceInv, Existing,
      providerVars, fileVars, lockVars, coordinatorVars
<1>2. CASE Next
  BY <1>2, EnvironmentInv, CoordinatorInv, CreateInv, DeleteInv, RemoveInv, ReconcileInv DEF Next
<1> QED
  BY <1>1, <1>2

\* The invariant holds in every state that the builders reach.
THEOREM Invariant == Spec => []IInv
BY InitInv, NextInv, PTL DEF Spec

\* Every variable keeps its declared shape.
THEOREM TypeCorrect == Spec => []TypeOK
<1>1. IInv => TypeOK
  BY DEF IInv
<1> QED
  BY <1>1, Invariant, PTL

\* A build that worker.py settles is over: remote.py noted the attempt before it
\* sent the build, and a receipt only counts after the machine was deleted.
THEOREM SettledBuildsAreOver == Spec => []SettledIsOver
<1>1. IInv => SettledIsOver
  BY DEF IInv, EvidenceInv, BuildInv, TypeOK, SettledIsOver, Terminated
<1> QED
  BY <1>1, Invariant, PTL

\* Nothing that costs money is forgotten: an address without its machine is in a
\* journal, and a deleted machine in a journal or a cost record.
THEOREM NothingIsForgotten == Spec => []NothingForgotten
<1>1. IInv => NothingForgotten
  BY DEF IInv, MachineInv, NothingForgotten, AddressesJournaled, CostsRecorded
<1> QED
  BY <1>1, Invariant, PTL

\* Only the coordinator of a build that stopped using its machine, or the expiry
\* of the machine, gets it deleted.
THEOREM MachinesAreSafe == Spec => NotDeletedInUse
<1>1. ASSUME IInv, Next, NEW j \in Jobs, machine[j] = "live", machine'[j] = "deleting"
      PROVE  j \in expired \/ build[j].stage \notin {"creating", "using"}
  <2>1. DeleteMachine(j)
    BY <1>1
    DEF Next, Environment, Coordinator, Create, Delete, Remove, Reconcile, RequestEnds, Expire,
        MachineGoes, DeletionFails, AddressReleased, Start, SendBuild, StopUsing,
        CoordinatorLost, BuildBegins, BuildEnds, CreateAdmitted, CreateRefused, CreateAnswered,
        CreateUnanswered, DeleteBegins, DeleteRefused, WriteJournal, DeleteMachine,
        ConfirmDeletion, CleanAddress, WriteCost, UnlinkJournal, RemovalFails, ReconcileBegins,
        ToJournals, ReconcileEnds, NextMachine, NextJournal, ReconcileKilled, providerVars,
        IInv, TypeOK
  <2> QED
    BY <1>1, <2>1, JobsAssumption
    DEF DeleteMachine, Removing, IInv, LockInv, BuildInv
<1>2. IInv /\ [Next]_vars =>
        [\A j \in Jobs : machine[j] = "live" /\ machine'[j] = "deleting"
           => j \in expired \/ build[j].stage \notin {"creating", "using"}]_vars
  BY <1>1
<1> QED
  BY <1>2, Invariant, PTL DEF Spec, NotDeletedInUse

\* A machine that is gone stays gone.
LEMMA GoneForGood ==
  ASSUME IInv, Next, NEW k \in Jobs, machine[k] = "gone"
  PROVE  machine'[k] = "gone"
<1> USE JobsAssumption DEF IInv, TypeOK, MachineStates, providerVars
<1>1. ASSUME NEW j \in Jobs, Environment(j) PROVE machine'[k] = "gone"
  BY <1>1 DEF Environment, RequestEnds, Expire, MachineGoes, DeletionFails, AddressReleased
<1>2. ASSUME NEW j \in Jobs, Coordinator(j) PROVE machine'[k] = "gone"
  BY <1>2 DEF Coordinator, Start, SendBuild, StopUsing, CoordinatorLost, BuildBegins, BuildEnds
<1>3. ASSUME NEW j \in Jobs, Create(j) PROVE machine'[k] = "gone"
  BY <1>3 DEF Create, CreateAdmitted, CreateRefused, CreateAnswered, CreateUnanswered, LockInv, BuildInv
<1>4. ASSUME NEW j \in Jobs, Delete(j) \/ Remove(j) PROVE machine'[k] = "gone"
  BY <1>4
  DEF Delete, DeleteBegins, DeleteRefused, Remove, WriteJournal, DeleteMachine, ConfirmDeletion,
      CleanAddress, WriteCost, UnlinkJournal, RemovalFails
<1>5. CASE Reconcile \/ ReconcileKilled
  BY <1>5
  DEF Reconcile, ReconcileBegins, ToJournals, ReconcileEnds, NextMachine, NextJournal, ReconcileKilled
<1> QED
  BY <1>1, <1>2, <1>3, <1>4, <1>5 DEF Next

\* The machines that coordinators were given and know of, whatever became of them.
Given ==
  {j \in Jobs : \/ build[j].stage \in {"using", "deleting"}
                \/ build[j].stage = "done" /\ "unattempted" \notin evidence[j]}

\* The end of a command gives no machine: a create that failed leaves the evidence
\* that nothing was attempted.
LEMMA EndsGiveNothing ==
  ASSUME IInv, NEW j \in Jobs, CreateFails(j) \/ DeleteFails(j) \/ DeleteSucceeds(j)
  PROVE  Given' \subseteq Given
<1>1. CASE UNCHANGED <<build, evidence>>
  BY <1>1 DEF Given
<1>2. ASSUME NEW left \in SUBSET Evidence, Ends(j, left),
             \/ build[j].stage = "deleting"
             \/ build[j].stage = "creating" /\ "unattempted" \in left
      PROVE  Given' \subseteq Given
  <2>1. TypeOK /\ "unattempted" \in Evidence
    BY DEF IInv, Evidence
  <2>2. ASSUME NEW k \in Given', k # j PROVE k \in Given
    BY <1>2, <2>1, <2>2, EndsEffect DEF Given
  <2>3. CASE build[j].stage = "deleting"
    BY <2>2, <2>3 DEF Given
  <2>4. CASE build[j].stage = "creating" /\ "unattempted" \in left
    <3>1. ~build[j].attempted
      BY <2>4 DEF IInv, BuildInv
    <3>2. "unattempted" \in evidence'[j] /\ build'[j].stage = "done"
      BY <1>2, <2>1, <2>4, <3>1, EndsEffect
    <3>3. j \notin Given'
      BY <3>2 DEF Given
    <3> QED
      BY <2>2, <3>3
  <2> QED
    BY <1>2, <2>3, <2>4
<1> QED
  BY <1>1, <1>2 DEF CreateFails, DeleteFails, DeleteSucceeds, Evidence

\* Only an answered create gives a coordinator a machine.
LEMMA UseBegins ==
  ASSUME IInv, Next, NEW k \in Jobs, k \notin Given, k \in Given'
  PROVE  CreateAnswered(k)
<1>1. UNCHANGED <<build, evidence>> => FALSE
  BY DEF Given
<1>2. ASSUME NEW j \in Jobs, Environment(j) PROVE FALSE
  BY <1>1, <1>2
  DEF Environment, RequestEnds, Expire, MachineGoes, DeletionFails, AddressReleased, coordinatorVars
<1>3. ASSUME NEW j \in Jobs, Coordinator(j) PROVE FALSE
  <2>1. CASE StopUsing(j)
    BY <2>1 DEF StopUsing, IInv, TypeOK, Given
  <2>2. CASE Start(j)
    BY <2>2 DEF Start, IInv, TypeOK, Given
  <2>3. CASE SendBuild(j)
    BY <2>3 DEF SendBuild, IInv, TypeOK, Given
  <2>4. CASE CoordinatorLost(j)
    BY <2>4 DEF CoordinatorLost, IInv, TypeOK, Given
  <2>5. CASE BuildBegins(j) \/ BuildEnds(j)
    BY <1>1, <2>5 DEF BuildBegins, BuildEnds, coordinatorVars
  <2> QED
    BY <1>3, <2>1, <2>2, <2>3, <2>4, <2>5 DEF Coordinator
<1>4. ASSUME NEW j \in Jobs, Create(j) PROVE CreateAnswered(k)
  <2>1. CASE CreateAdmitted(j)
    BY <1>1, <2>1 DEF CreateAdmitted, coordinatorVars
  <2>2. CASE CreateRefused(j) \/ CreateUnanswered(j)
    BY <2>2, EndsGiveNothing DEF CreateRefused, CreateUnanswered
  <2>3. CASE CreateAnswered(j)
    BY <2>3 DEF CreateAnswered, IInv, TypeOK, Given
  <2> QED
    BY <1>4, <2>1, <2>2, <2>3 DEF Create
<1>5. ASSUME NEW j \in Jobs, Delete(j) \/ Remove(j) PROVE FALSE
  <2>1. UNCHANGED <<build, evidence>> \/ DeleteFails(j) \/ DeleteSucceeds(j)
    BY <1>5
    DEF Delete, DeleteBegins, DeleteRefused, Remove, WriteJournal, DeleteMachine, ConfirmDeletion,
        CleanAddress, WriteCost, UnlinkJournal, RemovalFails, AfterRemoval, coordinatorVars
  <2> QED
    BY <1>1, <2>1, EndsGiveNothing
<1>6. CASE Reconcile \/ ReconcileKilled
  BY <1>1, <1>6
  DEF Reconcile, ReconcileBegins, ToJournals, ReconcileEnds, NextMachine, NextJournal, ReconcileKilled,
      coordinatorVars
<1> QED
  BY <1>2, <1>3, <1>4, <1>5, <1>6 DEF Next

\* A machine that exists does not become a request again.
LEMMA ExistingStays ==
  ASSUME IInv, Next, NEW k \in Jobs, Existing(k)
  PROVE  Existing(k)'
<1> USE JobsAssumption DEF IInv, TypeOK, MachineStates, Existing, providerVars
<1>1. ASSUME NEW j \in Jobs, Environment(j) PROVE Existing(k)'
  BY <1>1 DEF Environment, RequestEnds, Expire, MachineGoes, DeletionFails, AddressReleased
<1>2. ASSUME NEW j \in Jobs, Coordinator(j) PROVE Existing(k)'
  BY <1>2 DEF Coordinator, Start, SendBuild, StopUsing, CoordinatorLost, BuildBegins, BuildEnds
<1>3. ASSUME NEW j \in Jobs, Create(j) PROVE Existing(k)'
  BY <1>3 DEF Create, CreateAdmitted, CreateRefused, CreateAnswered, CreateUnanswered, LockInv, BuildInv
<1>4. ASSUME NEW j \in Jobs, Delete(j) \/ Remove(j) PROVE Existing(k)'
  BY <1>4
  DEF Delete, DeleteBegins, DeleteRefused, Remove, WriteJournal, DeleteMachine, ConfirmDeletion,
      CleanAddress, WriteCost, UnlinkJournal, RemovalFails
<1>5. CASE Reconcile \/ ReconcileKilled
  BY <1>5
  DEF Reconcile, ReconcileBegins, ToJournals, ReconcileEnds, NextMachine, NextJournal, ReconcileKilled
<1> QED
  BY <1>1, <1>2, <1>3, <1>4, <1>5 DEF Next

\* Every machine that was given exists.
GivenInv == \A j \in Given : Existing(j)

LEMMA GivenKept == ASSUME IInv, GivenInv, Next PROVE GivenInv'
<1> SUFFICES ASSUME NEW k \in Jobs, k \in Given' PROVE Existing(k)'
  BY DEF GivenInv, Given
<1>1. CASE k \in Given
  BY <1>1, ExistingStays DEF GivenInv
<1>2. CASE k \notin Given
  <2>1. CreateAnswered(k)
    BY <1>2, UseBegins
  <2> QED
    BY <2>1 DEF CreateAnswered, Existing, IInv, TypeOK
<1> QED
  BY <1>1, <1>2

\* What admission leaves room for is taken by one create at a time.
LimitInv == GivenInv /\ WithinLimit /\ (lock = "create" => Cardinality(Entrusted) < Limit)

\* The limit is kept, given the invariant.
LEMMA LimitKept == IInv /\ LimitInv /\ [Next]_vars => LimitInv'
<1> SUFFICES ASSUME IInv, LimitInv, [Next]_vars PROVE LimitInv'
  OBVIOUS
<1>9. Entrusted = Given \cap Listing /\ Entrusted' = Given' \cap Listing'
  BY DEF Entrusted, Given, Listing
<1>1. IsFiniteSet(Entrusted) /\ IsFiniteSet(Listing)
  BY JobsAssumption, FS_Subset DEF Entrusted, Listing
<1>2. Cardinality(Entrusted) \in Nat /\ Cardinality(Listing) \in Nat /\ Cardinality(Entrusted) <= Cardinality(Listing)
  <2>1. Entrusted \subseteq Listing
    BY DEF Entrusted
  <2> QED
    BY <1>1, <2>1, FS_Subset, FS_CardinalityType
<1>3. CASE UNCHANGED vars
  BY <1>3
  DEF vars, providerVars, lockVars, coordinatorVars, LimitInv, GivenInv, Given, Existing, WithinLimit,
      Entrusted, Listing
<1>4. ASSUME Next, NEW k \in Jobs, CreateAnswered(k) PROVE LimitInv'
  <2>1. Entrusted' \subseteq Entrusted \cup {k}
    <3>1. SUFFICES ASSUME NEW i \in Jobs, i # k, i \in Entrusted' PROVE i \in Entrusted
      BY DEF Entrusted, Listing
    <3>2. i \in Given
      BY <1>4, <3>1, <1>9, UseBegins DEF CreateAnswered, IInv, LockInv
    <3>3. machine'[i] = machine[i]
      BY <1>4, <3>1 DEF CreateAnswered, IInv, TypeOK
    <3> QED
      BY <3>1, <3>2, <3>3, <1>9 DEF Listing
  <2>2. Cardinality(Entrusted \cup {k}) <= Cardinality(Entrusted) + 1 /\ IsFiniteSet(Entrusted \cup {k})
    BY SMTT(60), <1>1, <1>2, FS_AddElement
  <2>3. Cardinality(Entrusted') <= Cardinality(Entrusted) + 1 /\ Cardinality(Entrusted') \in Nat
    BY <1>2, <2>1, <2>2, FS_Subset, FS_CardinalityType
  <2>4. Cardinality(Entrusted) < Limit /\ lock' = "free"
    BY <1>4 DEF CreateAnswered, Release, LimitInv
  <2>5. GivenInv'
    BY <1>4, GivenKept DEF LimitInv
  <2> QED
    BY <1>2, <2>3, <2>4, <2>5, LimitAssumption DEF LimitInv, WithinLimit
<1>5. ASSUME Next, \A k \in Jobs : ~CreateAnswered(k) PROVE LimitInv'
  <2>1. Entrusted' \subseteq Entrusted
    <3>1. SUFFICES ASSUME NEW i \in Jobs, i \in Entrusted' PROVE i \in Entrusted
      BY DEF Entrusted, Listing
    <3>2. i \in Given /\ Existing(i)
      BY <1>5, <3>1, <1>9, UseBegins DEF LimitInv, GivenInv
    <3>3. machine[i] # "gone"
      BY <1>5, <3>1, GoneForGood DEF Entrusted, Listing
    <3> QED
      BY <3>1, <3>2, <3>3, <1>9 DEF Listing, Existing
  <2>2. Cardinality(Entrusted') <= Cardinality(Entrusted) /\ Cardinality(Entrusted') \in Nat
    BY <1>1, <2>1, FS_Subset, FS_CardinalityType
  <2>3. lock' = "create" => lock = "create" \/ Cardinality(Listing) < Limit
    BY <1>5
    DEF Next, Environment, Coordinator, Create, Delete, Remove, Reconcile, RequestEnds, Expire,
        MachineGoes, DeletionFails, AddressReleased, Start, SendBuild, StopUsing,
        CoordinatorLost, BuildBegins, BuildEnds, CreateAdmitted, CreateRefused, CreateAnswered,
        CreateUnanswered, DeleteBegins, DeleteRefused, WriteJournal, DeleteMachine,
        ConfirmDeletion, CleanAddress, WriteCost, UnlinkJournal, RemovalFails, ReconcileBegins,
        ToJournals, ReconcileEnds, NextMachine, NextJournal, ReconcileKilled, lockVars,
        AfterRemoval, Release, Room
  <2>4. GivenInv'
    BY <1>5, GivenKept DEF LimitInv
  <2> QED
    BY <1>2, <2>2, <2>3, <2>4, LimitAssumption DEF LimitInv, WithinLimit
<1> QED
  BY <1>3, <1>4, <1>5

\* The coordinators never hold more than Limit machines, those that they could not
\* delete included, however late a request that nobody waited for takes effect,
\* and whichever commands are killed.
THEOREM LimitHolds == Spec => []WithinLimit
<1>1. Init => LimitInv
  <2>1. Init => Entrusted = {}
    BY DEF Init, Entrusted, Listing
  <2> QED
    BY <2>1, FS_EmptySet, LimitAssumption DEF LimitInv, GivenInv, Given, WithinLimit, Init
<1>2. LimitInv => WithinLimit
  BY DEF LimitInv
<1> QED
  BY <1>1, <1>2, LimitKept, Invariant, PTL DEF Spec

-----------------------------------------------------------------------------

\* A build runs on a machine that is there, and a machine that is settled is in
\* nobody's hands.
RentalInv ==
  /\ lock = "expiry" => at \notin todo
  /\ \A j \in Jobs :
       /\ execution[j] = "running" => machine[j] \in {"live", "deleting"}
       /\ machine[j] = "gone" /\ j \notin journal => at # j /\ j \notin todo

LEMMA RentalInitially == Init => RentalInv
  BY JobsAssumption DEF Init, RentalInv

LEMMA RentalKept == IInv /\ RentalInv /\ [Next]_vars => RentalInv'
<1> SUFFICES ASSUME IInv, RentalInv, [Next]_vars PROVE RentalInv'
  OBVIOUS
<1> USE JobsAssumption
    DEF IInv, TypeOK, LockInv, TodoInv, RemovalInv, MachineInv, BuildInv, Existing, RentalInv,
        providerVars, fileVars, lockVars, coordinatorVars, MachineStates, RemovalSteps
<1>1. ASSUME NEW j \in Jobs, Environment(j) PROVE RentalInv'
  BY <1>1 DEF Environment, RequestEnds, Expire, MachineGoes, DeletionFails, AddressReleased
<1>2. ASSUME NEW j \in Jobs, Coordinator(j) PROVE RentalInv'
  BY <1>2 DEF Coordinator, Start, SendBuild, StopUsing, CoordinatorLost, BuildBegins, BuildEnds, Listing
<1>3. ASSUME NEW j \in Jobs, Create(j) PROVE RentalInv'
  BY <1>3 DEF Create, CreateAdmitted, CreateRefused, CreateAnswered, CreateUnanswered, Release
<1>4. ASSUME NEW j \in Jobs, Delete(j) PROVE RentalInv'
  BY <1>4 DEF Delete, DeleteBegins, DeleteRefused, Listing
<1>5. ASSUME NEW j \in Jobs, Remove(j) PROVE RentalInv'
  <2>1. CASE WriteJournal(j) \/ DeleteMachine(j) \/ ConfirmDeletion(j) \/ CleanAddress(j) \/ WriteCost(j)
    BY <2>1 DEF WriteJournal, DeleteMachine, ConfirmDeletion, CleanAddress, WriteCost, Removing
  <2>2. CASE UnlinkJournal(j)
    BY <2>2 DEF UnlinkJournal, Removing, AfterRemoval, Release
  <2>3. CASE RemovalFails(j)
    BY <2>3 DEF RemovalFails, Removing, AfterRemoval, Release
  <2> QED
    BY <1>5, <2>1, <2>2, <2>3 DEF Remove
<1>6. CASE Reconcile \/ ReconcileKilled
  BY <1>6
  DEF Reconcile, ReconcileBegins, ToJournals, ReconcileEnds, NextMachine, NextJournal, ReconcileKilled,
      Overdue, Journals, Listing, Release
<1>7. CASE UNCHANGED vars
  BY <1>7 DEF vars
<1> QED
  BY <1>1, <1>2, <1>3, <1>4, <1>5, <1>6, <1>7 DEF Next

\* What the contract sees of a build is as it was, or has made one of its steps.
Alike(k) ==
  RentalOf(k)' = RentalOf(k) /\ ProgressOf(k)' = ProgressOf(k) /\ AccountOf(k)' = AccountOf(k)

Moves(j) ==
  \/ /\ RentalOf(j) = "none" /\ RentalOf(j)' = "rented"
     /\ ProgressOf(j)' = ProgressOf(j) /\ AccountOf(j)' = AccountOf(j)
  \/ /\ RentalOf(j) = "rented" /\ RentalOf(j)' = "returned" /\ AccountOf(j)' = AccountOf(j)
     /\ ProgressOf(j)' = IF ProgressOf(j) = "running" THEN "over" ELSE ProgressOf(j)
  \/ /\ RentalOf(j) = "rented" /\ RentalOf(j)' = "rented"
     /\ ProgressOf(j) = "waiting" /\ ProgressOf(j)' = "running"
     /\ AccountOf(j) = "open" /\ AccountOf(j)' = "open"
  \/ /\ ProgressOf(j) = "running" /\ ProgressOf(j)' = "over"
     /\ RentalOf(j)' = RentalOf(j) /\ AccountOf(j)' = AccountOf(j)
  \/ /\ ProgressOf(j) = "waiting" /\ ProgressOf(j)' = "waiting" /\ RentalOf(j)' = RentalOf(j)
     /\ AccountOf(j) = "open" /\ AccountOf(j)' = "free"
  \/ /\ RentalOf(j) = "returned" /\ RentalOf(j)' = "settled" /\ ProgressOf(j)' = ProgressOf(j)
     /\ \/ AccountOf(j)' = AccountOf(j)
        \/ ProgressOf(j) = "waiting" /\ AccountOf(j) = "open" /\ AccountOf(j)' = "free"
        \/ ProgressOf(j) = "over" /\ AccountOf(j) = "open" /\ AccountOf(j)' = "charged"

LEMMA ContractStutters ==
  ASSUME \A k \in Jobs : Alike(k)
  PROVE  UNCHANGED Contract!vars
  BY DEF Alike, Contract!vars

LEMMA ContractSteps ==
  ASSUME NEW j \in Jobs, Moves(j), \A k \in Jobs : k # j => Alike(k)
  PROVE  Contract!Next
<1>1. PICK r, rr : r = [k \in Jobs |-> RentalOf(k)] /\ rr = [k \in Jobs |-> RentalOf(k)']
  OBVIOUS
<1>2. PICK p, pp : p = [k \in Jobs |-> ProgressOf(k)] /\ pp = [k \in Jobs |-> ProgressOf(k)']
  OBVIOUS
<1>3. PICK a, aa : a = [k \in Jobs |-> AccountOf(k)] /\ aa = [k \in Jobs |-> AccountOf(k)']
  OBVIOUS
<1>4. \A x : /\ RentalOf(j)' = x => rr = [r EXCEPT ![j] = x]
             /\ ProgressOf(j)' = x => pp = [p EXCEPT ![j] = x]
             /\ AccountOf(j)' = x => aa = [a EXCEPT ![j] = x]
  BY <1>1, <1>2, <1>3 DEF Alike
<1>5. /\ RentalOf(j)' = RentalOf(j) => rr = r
      /\ ProgressOf(j)' = ProgressOf(j) => pp = p
      /\ AccountOf(j)' = AccountOf(j) => aa = a
  BY <1>1, <1>2, <1>3 DEF Alike
<1>6. r[j] = RentalOf(j) /\ p[j] = ProgressOf(j) /\ a[j] = AccountOf(j)
  BY <1>1, <1>2, <1>3
<1>7. Contract!Rent(j) \/ Contract!Return(j) \/ Contract!Begin(j) \/ Contract!End(j)
      \/ Contract!Excuse(j) \/ Contract!Settle(j)
  BY <1>1, <1>2, <1>3, <1>4, <1>5, <1>6
  DEF Moves, Contract!Rent, Contract!Return, Contract!Begin, Contract!End, Contract!Excuse, Contract!Settle
<1> QED
  BY <1>7 DEF Contract!Next

\* What is left alone looks the same.
LEMMA SameLooksAlike ==
  ASSUME NEW k,
         machine'[k] = machine[k], address'[k] = address[k], execution'[k] = execution[k],
         evidence'[k] = evidence[k], k \in costed' <=> k \in costed, k \in journal' <=> k \in journal
  PROVE  Alike(k)
  BY DEF Alike, RentalOf, ProgressOf, AccountOf, Terminated

\* The end of a command closes at most the account of a build that does not run.
LEMMA NoteCloses ==
  ASSUME IInv, NEW j \in Jobs, NEW left \in SUBSET {"teardown", "unattempted"}, Noted(j, left)
  PROVE  \/ AccountOf(j)' = AccountOf(j)
         \/ AccountOf(j) = "open" /\ AccountOf(j)' = "free" /\ ProgressOf(j) = "waiting"
         \/ /\ AccountOf(j) = "open" /\ AccountOf(j)' = "charged" /\ ProgressOf(j) = "over"
            /\ "teardown" \in left
<1>1. /\ evidence[j] \in SUBSET Evidence /\ evidence'[j] \in SUBSET Evidence
      /\ build[j].attempted \in BOOLEAN
  BY DEF IInv, TypeOK, Noted
<1>2. /\ evidence[j] \cap {"unattempted", "unstarted"} # {} => build[j].stage = "done"
      /\ "receipt" \in evidence[j] => execution[j] = "receipt"
      /\ execution[j] # "no" => build[j].attempted
  BY DEF IInv, EvidenceInv, BuildInv
<1>3. CASE evidence'[j] = evidence[j]
  BY <1>3 DEF AccountOf, Terminated
<1>4. CASE /\ build[j].stage \in {"creating", "deleting"}
           /\ \A e \in Evidence : e \in evidence'[j] <=>
                \/ e \in evidence[j]
                \/ e \in left /\ (e = "unattempted" => ~build[j].attempted)
                \/ e = "unstarted" /\ ~build[j].attempted
  <2>1. evidence[j] \cap {"unattempted", "unstarted"} = {}
    BY <1>2, <1>4
  <2>2. CASE build[j].attempted
    <3>1. evidence'[j] \cap {"unattempted", "unstarted"} = {}
      BY <1>1, <1>4, <2>1, <2>2 DEF Evidence
    <3>2. /\ "receipt" \in evidence'[j] <=> "receipt" \in evidence[j]
          /\ "teardown" \in evidence'[j] <=> "teardown" \in evidence[j] \/ "teardown" \in left
      BY <1>4 DEF Evidence
    <3>3. "receipt" \in evidence[j] => ProgressOf(j) = "over"
      BY <1>2 DEF ProgressOf
    <3> QED
      BY <2>1, <3>1, <3>2, <3>3 DEF AccountOf, Terminated
  <2>3. CASE ~build[j].attempted
    <3>1. "unstarted" \in evidence'[j]
      BY <1>4, <2>3 DEF Evidence
    <3>2. ProgressOf(j) = "waiting" /\ "receipt" \notin evidence[j]
      BY <1>2, <2>3 DEF ProgressOf
    <3> QED
      BY <2>1, <3>1, <3>2 DEF AccountOf, Terminated
  <2> QED
    BY <2>2, <2>3
<1> QED
  BY <1>3, <1>4 DEF Noted

\* One step of the provider is one of the contract's, or none.
LEMMA EnvironmentContract ==
  ASSUME IInv, RentalInv, NEW j \in Jobs, Environment(j)
  PROVE  Contract!Next \/ UNCHANGED Contract!vars
<1> USE DEF IInv, TypeOK, MachineStates, providerVars, fileVars, coordinatorVars
<1>1. \A k \in Jobs : k # j => Alike(k)
  <2>1. ASSUME NEW k \in Jobs, k # j
        PROVE  /\ machine'[k] = machine[k] /\ address'[k] = address[k] /\ execution'[k] = execution[k]
               /\ evidence'[k] = evidence[k] /\ costed' = costed /\ journal' = journal
    BY <2>1 DEF Environment, RequestEnds, Expire, MachineGoes, DeletionFails, AddressReleased
  <2> QED
    BY <2>1, SameLooksAlike
<1>2. Moves(j) \/ Alike(j)
  <2>1. CASE RequestEnds(j)
    <3>1. machine[j] = "requested" /\ machine'[j] \in {"live", "absent"}
      BY <2>1 DEF RequestEnds
    <3>2. execution' = execution /\ evidence' = evidence
      BY <2>1 DEF RequestEnds
    <3> QED
      BY <3>1, <3>2 DEF Moves, Alike, RentalOf, ProgressOf, AccountOf, Terminated
  <2>2. CASE Expire(j)
    <3>1. UNCHANGED <<machine, address, execution, evidence, costed, journal>>
      BY <2>2 DEF Expire
    <3> QED
      BY <3>1, SameLooksAlike
  <2>3. CASE MachineGoes(j)
    <3>1. /\ machine[j] = "deleting" /\ machine'[j] = "gone" /\ j \in journal /\ journal' = journal
          /\ execution'[j] = IF execution[j] = "running" THEN "over" ELSE execution[j]
          /\ evidence' = evidence
      BY <2>3 DEF MachineGoes, MachineInv
    <3>2. AccountOf(j)' = AccountOf(j)
      BY <3>1 DEF AccountOf, Terminated
    <3>3. RentalOf(j) = "rented" /\ RentalOf(j)' = "returned"
      BY <3>1 DEF RentalOf
    <3>4. ProgressOf(j)' = IF ProgressOf(j) = "running" THEN "over" ELSE ProgressOf(j)
      BY <3>1 DEF ProgressOf
    <3> QED
      BY <3>2, <3>3, <3>4 DEF Moves
  <2>4. CASE DeletionFails(j)
    <3>1. machine[j] = "deleting" /\ machine'[j] = "live" /\ execution' = execution /\ evidence' = evidence
      BY <2>4 DEF DeletionFails
    <3> QED
      BY <3>1 DEF Alike, RentalOf, ProgressOf, AccountOf, Terminated
  <2>5. CASE AddressReleased(j)
    <3>1. /\ machine[j] = "gone" /\ machine' = machine /\ address[j] = "assigned" /\ j \in journal
          /\ journal' = journal /\ execution' = execution /\ evidence' = evidence
      BY <2>5 DEF AddressReleased, MachineInv
    <3> QED
      BY <3>1 DEF Alike, RentalOf, ProgressOf, AccountOf, Terminated
  <2> QED
    BY <2>1, <2>2, <2>3, <2>4, <2>5 DEF Environment
<1>3. CASE Moves(j)
  BY <1>1, <1>3, ContractSteps
<1>4. CASE Alike(j)
  BY <1>1, <1>4, ContractStutters
<1> QED
  BY <1>2, <1>3, <1>4

\* A coordinator's step, or one of the build on its machine.
LEMMA CoordinatorContract ==
  ASSUME IInv, RentalInv, NEW j \in Jobs, Coordinator(j)
  PROVE  Contract!Next \/ UNCHANGED Contract!vars
<1> USE DEF IInv, TypeOK, providerVars, fileVars, coordinatorVars
<1>1. \A k \in Jobs : k # j => Alike(k)
  <2>1. ASSUME NEW k \in Jobs, k # j
        PROVE  /\ machine'[k] = machine[k] /\ address'[k] = address[k] /\ execution'[k] = execution[k]
               /\ evidence'[k] = evidence[k] /\ costed' = costed /\ journal' = journal
    BY <2>1 DEF Coordinator, Start, SendBuild, StopUsing, CoordinatorLost, BuildBegins, BuildEnds
  <2> QED
    BY <2>1, SameLooksAlike
<1>2. Moves(j) \/ Alike(j)
  <2>1. CASE Start(j) \/ CoordinatorLost(j)
    <3>1. UNCHANGED <<machine, address, execution, evidence, costed, journal>>
      BY <2>1 DEF Start, CoordinatorLost
    <3> QED
      BY <3>1, SameLooksAlike
  <2>2. CASE SendBuild(j)
    <3>1. /\ execution[j] = "no" /\ execution'[j] = "sent"
          /\ UNCHANGED <<machine, address, evidence, costed, journal>>
      BY <2>2 DEF SendBuild
    <3> QED
      BY <3>1 DEF Alike, RentalOf, ProgressOf, AccountOf, Terminated
  <2>3. CASE StopUsing(j)
    <3>1. /\ evidence[j] = {} /\ evidence'[j] \subseteq {"receipt"}
          /\ UNCHANGED <<machine, address, execution, costed, journal>>
      BY <2>3 DEF StopUsing, BuildInv
    <3>2. AccountOf(j) = "open" /\ AccountOf(j)' = "open"
      BY <3>1 DEF AccountOf, Terminated
    <3> QED
      BY <3>1, <3>2 DEF Alike, RentalOf, ProgressOf
  <2>4. CASE BuildBegins(j)
    <3>1. /\ execution[j] = "sent" /\ execution'[j] = "running" /\ machine[j] \in {"live", "deleting"}
          /\ UNCHANGED <<machine, address, evidence, costed, journal>>
      BY <2>4 DEF BuildBegins, Listing
    <3>2. evidence[j] \cap {"unattempted", "unstarted"} = {} /\ "receipt" \notin evidence[j]
      BY <3>1 DEF EvidenceInv, BuildInv
    <3>3. AccountOf(j) = "open" /\ AccountOf(j)' = "open"
      BY <3>1, <3>2 DEF AccountOf, Terminated
    <3>4. RentalOf(j) = "rented" /\ RentalOf(j)' = "rented"
      BY <3>1 DEF RentalOf
    <3>5. ProgressOf(j) = "waiting" /\ ProgressOf(j)' = "running"
      BY <3>1 DEF ProgressOf
    <3> QED
      BY <3>3, <3>4, <3>5 DEF Moves
  <2>5. CASE BuildEnds(j)
    <3>1. /\ execution[j] = "running" /\ execution'[j] \in {"receipt", "over"}
          /\ UNCHANGED <<machine, address, evidence, costed, journal>>
      BY <2>5 DEF BuildEnds
    <3> QED
      BY <3>1 DEF Moves, RentalOf, ProgressOf, AccountOf, Terminated
  <2> QED
    BY <1>1, <2>1, <2>2, <2>3, <2>4, <2>5 DEF Coordinator
<1>3. CASE Moves(j)
  BY <1>1, <1>3, ContractSteps
<1>4. CASE Alike(j)
  BY <1>1, <1>4, ContractStutters
<1> QED
  BY <1>2, <1>3, <1>4

\* A create rents the machine, or excuses the build.
LEMMA CreateContract ==
  ASSUME IInv, RentalInv, NEW j \in Jobs, Create(j)
  PROVE  Contract!Next \/ UNCHANGED Contract!vars
<1> USE DEF providerVars, fileVars, coordinatorVars
<1>a. /\ machine \in [Jobs -> MachineStates] /\ address \in [Jobs -> {"none", "assigned", "free"}]
      /\ evidence \in [Jobs -> SUBSET Evidence]
  BY DEF IInv, TypeOK
<1>1. \A k \in Jobs : k # j => Alike(k)
  <2>1. CASE CreateAdmitted(j)
    BY <2>1, SameLooksAlike DEF CreateAdmitted
  <2>2. CASE CreateRefused(j)
    <3>1. Noted(j, {"unattempted"})
      BY <2>2, CommandEnds DEF CreateRefused, IInv
    <3>2. UNCHANGED <<machine, address, execution, costed, journal>>
      BY <2>2 DEF CreateRefused
    <3> QED
      BY <3>1, <3>2, SameLooksAlike DEF Noted
  <2>3. CASE CreateAnswered(j)
    <3>1. ASSUME NEW k \in Jobs, k # j
          PROVE  /\ machine'[k] = machine[k] /\ address'[k] = address[k] /\ execution'[k] = execution[k]
                 /\ evidence'[k] = evidence[k] /\ costed' = costed /\ journal' = journal
      BY <1>a, <2>3, <3>1 DEF CreateAnswered
    <3> QED
      BY <3>1, SameLooksAlike
  <2>4. CASE CreateUnanswered(j)
    <3>1. Noted(j, {"unattempted"})
      BY <2>4, CommandEnds DEF CreateUnanswered, IInv
    <3>2. ASSUME NEW k \in Jobs, k # j
          PROVE  machine'[k] = machine[k] /\ UNCHANGED <<address, execution, costed, journal>>
      BY <1>a, <2>4, <3>2 DEF CreateUnanswered
    <3> QED
      BY <3>1, <3>2, SameLooksAlike DEF Noted
  <2> QED
    BY <2>1, <2>2, <2>3, <2>4 DEF Create
<1>2. Moves(j) \/ Alike(j)
  <2>1. CASE CreateAdmitted(j)
    BY <2>1, SameLooksAlike DEF CreateAdmitted
  <2>2. CASE CreateRefused(j)
    <3>1. /\ \/ AccountOf(j)' = AccountOf(j)
             \/ AccountOf(j) = "open" /\ AccountOf(j)' = "free" /\ ProgressOf(j) = "waiting"
          /\ UNCHANGED <<machine, address, execution, costed, journal>>
      BY <2>2, CommandEnds, NoteCloses DEF CreateRefused, IInv
    <3> QED
      BY <3>1 DEF Moves, Alike, RentalOf, ProgressOf
  <2>3. CASE CreateAnswered(j)
    <3>1. /\ machine[j] = "absent" /\ machine'[j] = "live"
          /\ UNCHANGED <<execution, evidence, costed, journal>>
      BY <1>a, <2>3 DEF CreateAnswered, IInv, LockInv, BuildInv
    <3> QED
      BY <3>1 DEF Moves, RentalOf, ProgressOf, AccountOf, Terminated
  <2>4. CASE CreateUnanswered(j)
    <3>1. \/ AccountOf(j)' = AccountOf(j)
          \/ AccountOf(j) = "open" /\ AccountOf(j)' = "free" /\ ProgressOf(j) = "waiting"
      BY <2>4, CommandEnds, NoteCloses DEF CreateUnanswered, IInv
    <3>2. /\ machine[j] = "absent" /\ machine'[j] \in {"absent", "requested"}
          /\ UNCHANGED <<address, execution, costed, journal>>
      BY <1>a, <2>4 DEF CreateUnanswered, IInv, LockInv, BuildInv
    <3> QED
      BY <3>1, <3>2 DEF Moves, Alike, RentalOf, ProgressOf
  <2> QED
    BY <2>1, <2>2, <2>3, <2>4 DEF Create
<1>3. CASE Moves(j)
  BY <1>1, <1>3, ContractSteps
<1>4. CASE Alike(j)
  BY <1>1, <1>4, ContractStutters
<1> QED
  BY <1>2, <1>3, <1>4

\* Only the end of a removal settles anything.
LEMMA RemoveContract ==
  ASSUME IInv, RentalInv, NEW j \in Jobs, Remove(j) \/ Delete(j)
  PROVE  Contract!Next \/ UNCHANGED Contract!vars
<1> USE DEF providerVars, fileVars, coordinatorVars
<1>a. /\ machine \in [Jobs -> MachineStates] /\ address \in [Jobs -> {"none", "assigned", "free"}]
      /\ evidence \in [Jobs -> SUBSET Evidence]
  BY DEF IInv, TypeOK
<1>b. \A s : Removing(j, s) => lock # "free" /\ lock # "create" /\ at = j /\ step = s
  BY DEF Removing
<1>c. CASE UnlinkJournal(j)
  <2>1. /\ machine[j] = "gone" /\ address[j] = "none" /\ j \in costed /\ j \in journal
        /\ journal' = journal \ {j} /\ UNCHANGED <<machine, address, costed, execution>>
    BY <1>b, <1>c DEF UnlinkJournal, IInv, RemovalInv, RemovalSteps
  <2>2. Noted(j, {"teardown", "unattempted"}) \/ UNCHANGED evidence
    BY <1>c, CommandEnds DEF UnlinkJournal, AfterRemoval, IInv
  <2>3. \A k \in Jobs : k # j => Alike(k)
    <3>1. ASSUME NEW k \in Jobs, k # j
          PROVE  evidence'[k] = evidence[k] /\ (k \in journal' <=> k \in journal)
      BY <2>1, <2>2, <3>1 DEF Noted
    <3> QED
      BY <2>1, <3>1, SameLooksAlike
  <2>4. RentalOf(j) = "returned" /\ RentalOf(j)' = "settled" /\ ProgressOf(j)' = ProgressOf(j)
    BY <2>1 DEF RentalOf, ProgressOf
  <2>5. \/ AccountOf(j)' = AccountOf(j)
        \/ AccountOf(j) = "open" /\ AccountOf(j)' = "free" /\ ProgressOf(j) = "waiting"
        \/ AccountOf(j) = "open" /\ AccountOf(j)' = "charged" /\ ProgressOf(j) = "over"
    <3>1. CASE Noted(j, {"teardown", "unattempted"})
      BY <3>1, NoteCloses
    <3>2. CASE UNCHANGED evidence
      BY <3>2 DEF AccountOf, Terminated
    <3> QED
      BY <2>2, <3>1, <3>2
  <2>6. Moves(j)
    BY <2>4, <2>5 DEF Moves
  <2> QED
    BY <2>3, <2>6, ContractSteps
<1>d. CASE RemovalFails(j) \/ DeleteRefused(j)
  <2>1. UNCHANGED <<machine, address, execution, costed, journal>>
    BY <1>d DEF RemovalFails, DeleteRefused
  <2>2. Noted(j, {}) \/ UNCHANGED evidence
    BY <1>d, CommandEnds DEF RemovalFails, DeleteRefused, AfterRemoval, IInv
  <2>3. \A k \in Jobs : k # j => Alike(k)
    BY <2>1, <2>2, SameLooksAlike DEF Noted
  <2>4. \/ AccountOf(j)' = AccountOf(j)
        \/ AccountOf(j) = "open" /\ AccountOf(j)' = "free" /\ ProgressOf(j) = "waiting"
    <3>1. CASE Noted(j, {})
      BY <3>1, NoteCloses
    <3>2. CASE UNCHANGED evidence
      BY <3>2 DEF AccountOf, Terminated
    <3> QED
      BY <2>2, <3>1, <3>2
  <2>5. Moves(j) \/ Alike(j)
    BY <2>1, <2>4 DEF Moves, Alike, RentalOf, ProgressOf
  <2>6. CASE Moves(j)
    BY <2>3, <2>6, ContractSteps
  <2>7. CASE Alike(j)
    BY <2>3, <2>7, ContractStutters
  <2> QED
    BY <2>5, <2>6, <2>7
<1>e. CASE WriteJournal(j)
  <2>1. /\ machine[j] = "gone" => j \in journal
        /\ machine[j] \in {"live", "deleting", "gone"}
    BY <1>b, <1>e DEF WriteJournal, IInv, RemovalInv, RemovalSteps, RentalInv, Existing
  <2>2. journal' = journal \cup {j} /\ UNCHANGED <<machine, address, costed, execution, evidence>>
    BY <1>e DEF WriteJournal
  <2>3. Alike(j)
    BY <2>1, <2>2 DEF Alike, RentalOf, ProgressOf, AccountOf, Terminated
  <2>4. \A k \in Jobs : k # j => Alike(k)
    BY <2>2, SameLooksAlike
  <2> QED
    BY <2>3, <2>4, ContractStutters
<1>f. CASE DeleteMachine(j)
  <2>1. /\ machine[j] = "live" /\ machine'[j] = "deleting"
        /\ \A k \in Jobs : k # j => machine'[k] = machine[k]
        /\ UNCHANGED <<address, costed, journal, execution, evidence>>
    BY <1>a, <1>f DEF DeleteMachine
  <2>2. Alike(j)
    BY <2>1 DEF Alike, RentalOf, ProgressOf, AccountOf, Terminated
  <2>3. \A k \in Jobs : k # j => Alike(k)
    BY <2>1, SameLooksAlike
  <2> QED
    BY <2>2, <2>3, ContractStutters
<1>9. CASE CleanAddress(j)
  <2>1. /\ machine[j] = "gone" /\ j \in journal
        /\ \A k \in Jobs : k # j => address'[k] = address[k]
        /\ UNCHANGED <<machine, costed, journal, execution, evidence>>
    BY <1>a, <1>b, <1>9 DEF CleanAddress, IInv, RemovalInv, RemovalSteps
  <2>2. Alike(j)
    BY <2>1 DEF Alike, RentalOf, ProgressOf, AccountOf, Terminated
  <2>3. \A k \in Jobs : k # j => Alike(k)
    BY <2>1, SameLooksAlike
  <2> QED
    BY <2>2, <2>3, ContractStutters
<1>h. CASE WriteCost(j)
  <2>1. /\ machine[j] = "gone" /\ j \in journal /\ costed' = costed \cup {j}
        /\ UNCHANGED <<machine, address, journal, execution, evidence>>
    BY <1>b, <1>h DEF WriteCost, CostRecord, IInv, RemovalInv, RemovalSteps
  <2>2. Alike(j)
    BY <2>1 DEF Alike, RentalOf, ProgressOf, AccountOf, Terminated
  <2>3. \A k \in Jobs : k # j => Alike(k)
    BY <2>1, SameLooksAlike
  <2> QED
    BY <2>2, <2>3, ContractStutters
<1>i. CASE ConfirmDeletion(j) \/ DeleteBegins(j)
  <2>1. UNCHANGED <<machine, address, costed, journal, execution, evidence>>
    BY <1>i DEF ConfirmDeletion, DeleteBegins
  <2> QED
    BY <2>1, SameLooksAlike, ContractStutters
<1> QED
  BY <1>c, <1>d, <1>e, <1>f, <1>9, <1>h, <1>i DEF Remove, Delete

\* The builders keep the contract of module Rental: a machine is rented once and
\* its settlement is final, and a build runs once, on its machine, and is charged
\* for only when it is over (builders.py remove and reconcile, remote.py build).
THEOREM ContractKept == Spec => KeepsContract
<1>1. Init => Contract!Init
  <2> SUFFICES ASSUME Init PROVE Contract!Init
    OBVIOUS
  <2>1. \A j \in Jobs : machine[j] = "absent" /\ execution[j] = "no" /\ evidence[j] = {}
    BY DEF Init
  <2>2. \A j \in Jobs : RentalOf(j) = "none" /\ ProgressOf(j) = "waiting" /\ AccountOf(j) = "open"
    BY <2>1 DEF RentalOf, ProgressOf, AccountOf, Terminated
  <2> QED
    BY <2>2 DEF Contract!Init
<1>2. IInv /\ RentalInv /\ [Next]_vars => [Contract!Next]_Contract!vars
  <2> SUFFICES ASSUME IInv, RentalInv, [Next]_vars
               PROVE  Contract!Next \/ UNCHANGED Contract!vars
    OBVIOUS
  <2>1. CASE Reconcile \/ ReconcileKilled \/ UNCHANGED vars
    <3>1. UNCHANGED <<machine, address, costed, journal, execution, evidence>>
      BY <2>1
      DEF Reconcile, ReconcileBegins, ToJournals, ReconcileEnds, NextMachine, NextJournal,
          ReconcileKilled, vars, providerVars, fileVars, coordinatorVars
    <3> QED
      BY <3>1, SameLooksAlike, ContractStutters
  <2> QED
    BY <2>1, EnvironmentContract, CoordinatorContract, CreateContract, RemoveContract DEF Next
<1> QED
  BY <1>1, <1>2, RentalInitially, RentalKept, Invariant, PTL DEF Spec, KeepsContract, Contract!Spec

=============================================================================
