---------------------------- MODULE BuildExecution ----------------------------
(***************************************************************************)
(* One build on its machine: infra/builder/run.sh, the worker it starts    *)
(* (worker.py execute), the termination helper (worker.py terminate) that  *)
(* both its exit trap and the ten-minute timer run, systemd, and the       *)
(* connection of the coordinator (infra/remote.py build).                  *)
(***************************************************************************)
EXTENDS Naturals

VARIABLES
  script,    \* where run.sh is
  daemon,    \* whether the build daemon, or anything it started, runs
  worker,    \* where worker.py execute is
  slice,     \* whether small-cloud-build.slice has a control group
  doomed,    \* the processes of the group that were sent a kill signal
  began,     \* execution.json is there
  result,    \* output/result.json
  image,     \* output/image.tar
  timer,     \* sc-build-deadline; "early" if it elapsed before the worker began
  helper,    \* where each run of worker.py terminate is
  found,     \* whether it found a control group
  receipt,   \* output/accounting.json: its duration and who wrote it
  link,      \* the coordinator's connection
  fetched    \* the receipt that the coordinator has

scriptVars == <<script, timer>>
workerVars == <<worker, began, result, image>>
systemVars == <<daemon, slice, doomed>>
helperVars == <<helper, found, receipt>>
linkVars == <<link, fetched>>
vars == <<scriptVars, workerVars, systemVars, helperVars, linkVars>>

Helpers == {"trap", "timer"}
NoReceipt == [seconds |-> "none", by |-> "none"]
Receipts == [seconds : {"zero", "timed"}, by : Helpers] \cup {NoReceipt}
WorkerUp == worker \in {"started", "waiting", "building", "exporting", "exported"}
Populated == daemon \/ WorkerUp

TypeOK ==
  /\ script \in {"setup", "armed", "daemon", "waiting", "trap", "over"}
  /\ worker \in {"off", "started", "waiting", "building", "exporting", "exported", "ended"}
  /\ daemon \in BOOLEAN /\ slice \in BOOLEAN /\ doomed \subseteq {"daemon", "worker"}
  /\ began \in BOOLEAN
  /\ result \in {"none", "incomplete", "ok", "failed"}
  /\ image \in {"none", "partial", "complete"}
  /\ timer \in {"unset", "armed", "elapsed", "early"}
  /\ helper \in [Helpers -> {"off", "queued", "looking", "emptying", "over", "failed"}]
  /\ found \in [Helpers -> BOOLEAN]
  /\ receipt \in Receipts /\ fetched \in Receipts
  /\ link \in {"up", "down", "fetched", "deleted"}

Init ==
  /\ script = "setup" /\ timer = "unset"
  /\ worker = "off" /\ began = FALSE /\ result = "none" /\ image = "none"
  /\ daemon = FALSE /\ slice = FALSE /\ doomed = {}
  /\ helper = [h \in Helpers |-> "off"] /\ found = [h \in Helpers |-> FALSE]
  /\ receipt = NoReceipt
  /\ link = "up" /\ fetched = NoReceipt

\* The machine and all that runs on it.
OnMachine == link # "deleted"

(***************************************************************************)
(* run.sh                                                                  *)
(***************************************************************************)

\* The source is unpacked and the network set up; then the timer is set.
ArmTimer ==
  /\ OnMachine /\ script = "setup"
  /\ script' = "armed" /\ timer' = "armed"
  /\ UNCHANGED <<workerVars, systemVars, helperVars, linkVars>>

StartDaemon ==
  /\ OnMachine /\ script = "armed"
  /\ script' = "daemon" /\ daemon' = TRUE /\ slice' = TRUE
  /\ UNCHANGED <<timer, doomed, workerVars, helperVars, linkVars>>

StartWorker ==
  /\ OnMachine /\ script = "daemon"
  /\ script' = "waiting" /\ worker' = "started" /\ slice' = TRUE
  /\ UNCHANGED <<timer, began, result, image, daemon, doomed, helperVars, linkVars>>

\* A step of the script fails, the worker that it waits for has ended, or the
\* script is interrupted while it waits: the trap runs the termination helper.
Trap ==
  /\ OnMachine /\ script \in {"setup", "armed", "daemon", "waiting"}
  /\ script' = "trap" /\ helper' = [helper EXCEPT !["trap"] = "queued"]
  /\ UNCHANGED <<timer, workerVars, systemVars, found, receipt, linkVars>>

\* The script is killed, and with it the trap; what it started goes on.
ScriptKilled ==
  /\ OnMachine /\ script # "over" /\ script' = "over"
  /\ UNCHANGED <<timer, workerVars, systemVars, helperVars, linkVars>>

\* However the helper ended, the trap stops both services.
StopServices ==
  /\ OnMachine /\ script = "trap" /\ helper["trap"] \in {"over", "failed"}
  /\ script' = "over" /\ daemon' = FALSE
  /\ worker' = IF WorkerUp THEN "ended" ELSE worker
  /\ UNCHANGED <<timer, began, result, image, slice, doomed, helperVars, linkVars>>

(***************************************************************************)
(* worker.py execute, the daemon and systemd                               *)
(***************************************************************************)

Begin ==
  /\ OnMachine /\ worker = "started"
  /\ worker' = "waiting" /\ began' = TRUE
  /\ UNCHANGED <<scriptVars, result, image, systemVars, helperVars, linkVars>>

\* The daemon answers, and a result says that the execution did not complete.
Build ==
  /\ OnMachine /\ worker = "waiting" /\ daemon
  /\ worker' = "building" /\ result' = "incomplete"
  /\ UNCHANGED <<scriptVars, began, image, systemVars, helperVars, linkVars>>

\* The image is built, and its export begins.
Export ==
  /\ OnMachine /\ worker = "building" /\ daemon
  /\ worker' = "exporting" /\ image' = "partial"
  /\ UNCHANGED <<scriptVars, began, result, systemVars, helperVars, linkVars>>

Exported ==
  /\ OnMachine /\ worker = "exporting" /\ daemon
  /\ worker' = "exported" /\ image' = "complete"
  /\ UNCHANGED <<scriptVars, began, result, systemVars, helperVars, linkVars>>

\* A faulty variant that reports success once the image is built.
Built == worker \in {"building", "exported"}

\* The export has ended without an error.
Done == worker = "exported"

Succeed ==
  /\ OnMachine /\ Done
  /\ worker' = "ended" /\ result' = "ok"
  /\ UNCHANGED <<scriptVars, began, image, systemVars, helperVars, linkVars>>

\* An error at any point; also the output that nobody reads after a disconnect.
Fail ==
  /\ OnMachine /\ WorkerUp
  /\ worker' = "ended" /\ result' = "failed"
  /\ UNCHANGED <<scriptVars, began, image, systemVars, helperVars, linkVars>>

DaemonFails ==
  /\ OnMachine /\ daemon
  /\ daemon' = FALSE
  /\ UNCHANGED <<scriptVars, workerVars, slice, doomed, helperVars, linkVars>>

\* The kernel gets to a process that was sent a kill signal.
Perish(p) ==
  /\ OnMachine /\ p \in doomed
  /\ doomed' = doomed \ {p}
  /\ daemon' = (daemon /\ p # "daemon")
  /\ worker' = IF p = "worker" /\ WorkerUp THEN "ended" ELSE worker
  /\ UNCHANGED <<scriptVars, began, result, image, slice, helperVars, linkVars>>

\* systemd removes the control group of a slice without processes.
SliceCollected ==
  /\ OnMachine /\ slice /\ ~Populated
  /\ slice' = FALSE
  /\ UNCHANGED <<scriptVars, workerVars, daemon, doomed, helperVars, linkVars>>

(***************************************************************************)
(* worker.py terminate, one run at a time                                  *)
(***************************************************************************)

\* A faulty variant whose timer belongs to the session of the coordinator.
InSession == link = "up"

\* The timer is a unit of the machine, whoever is still connected to it.
TimerRuns == OnMachine

\* Ten minutes after the timer was set.
DeadlinePasses ==
  /\ TimerRuns /\ timer = "armed"
  /\ timer' = IF script \in {"armed", "daemon"} THEN "early" ELSE "elapsed"
  /\ helper' = [helper EXCEPT !["timer"] = "queued"]
  /\ UNCHANGED <<script, workerVars, systemVars, found, receipt, linkVars>>

Locked == \E h \in Helpers : helper[h] \in {"looking", "emptying"}

\* A faulty variant that times the build again.
Retime == FALSE

\* A receipt that is there is left alone.
HasReceipt == receipt # NoReceipt

\* The lock is taken; without a receipt the control group is looked up.
LookUp(h) ==
  /\ OnMachine /\ helper[h] = "queued" /\ ~Locked
  /\ helper' = [helper EXCEPT ![h] = IF HasReceipt THEN "over" ELSE "looking"]
  /\ found' = [found EXCEPT ![h] = slice]
  /\ UNCHANGED <<scriptVars, workerVars, systemVars, receipt, linkVars>>

\* A faulty variant for which an absent group is enough.
GroupGone == TRUE

NeverBegan == ~began

\* No control group and no execution: nothing ran.
NothingRan(h) ==
  /\ OnMachine /\ helper[h] = "looking" /\ ~found[h] /\ NeverBegan
  /\ receipt' = [seconds |-> "zero", by |-> h]
  /\ helper' = [helper EXCEPT ![h] = "over"]
  /\ UNCHANGED <<scriptVars, workerVars, systemVars, found, linkVars>>

\* Everything in the group is sent a kill signal.
Kill(h) ==
  /\ OnMachine /\ helper[h] = "looking" /\ found[h] /\ slice
  /\ doomed' = {p \in {"daemon", "worker"} : IF p = "daemon" THEN daemon ELSE WorkerUp}
  /\ helper' = [helper EXCEPT ![h] = "emptying"]
  /\ UNCHANGED <<scriptVars, workerVars, daemon, slice, found, receipt, linkVars>>

\* A faulty variant that does not wait for the group to empty.
NotAwaited == TRUE

Emptied == ~Populated

\* The group is empty: the duration of the execution, if it began, is final.
WriteReceipt(h) ==
  /\ OnMachine /\ helper[h] = "emptying" /\ Emptied
  /\ receipt' = [seconds |-> IF began THEN "timed" ELSE "zero", by |-> h]
  /\ helper' = [helper EXCEPT ![h] = "over"]
  /\ UNCHANGED <<scriptVars, workerVars, systemVars, found, linkVars>>

\* The group cannot be found or does not empty in time, or systemctl does not
\* answer: no receipt, and the result says that the build failed.
HelperFails(h) ==
  /\ OnMachine /\ helper[h] \in {"looking", "emptying"}
  /\ result' = "failed"
  /\ helper' = [helper EXCEPT ![h] = "failed"]
  /\ UNCHANGED <<scriptVars, worker, began, image, systemVars, found, receipt, linkVars>>

(***************************************************************************)
(* The coordinator's end of the connection                                 *)
(***************************************************************************)

\* The script ended, the connection broke, or eleven minutes passed.
Disconnect ==
  /\ link = "up"
  /\ link' = "down"
  /\ UNCHANGED <<scriptVars, workerVars, systemVars, helperVars, fetched>>

\* Whatever receipt there is then, or none if the machine does not answer.
Fetch ==
  /\ link = "down"
  /\ link' = "fetched" /\ fetched' \in {receipt, NoReceipt}
  /\ UNCHANGED <<scriptVars, workerVars, systemVars, helperVars>>

\* By the coordinator, which fetched first, or by the timer that deletes overdue
\* machines, whatever became of the coordinator.
Delete ==
  /\ OnMachine
  /\ link' = "deleted"
  /\ script' = "over" /\ daemon' = FALSE /\ slice' = FALSE /\ doomed' = {}
  /\ worker' = IF WorkerUp THEN "ended" ELSE worker
  /\ UNCHANGED <<timer, began, result, image, helperVars, fetched>>

Script == ArmTimer \/ StartDaemon \/ StartWorker \/ Trap \/ StopServices \/ ScriptKilled

Worker == Begin \/ Build \/ Export \/ Exported \/ Succeed \/ Fail

Helper(h) == LookUp(h) \/ NothingRan(h) \/ Kill(h) \/ WriteReceipt(h) \/ HelperFails(h)

Next ==
  \/ Script \/ Worker \/ DaemonFails \/ SliceCollected \/ DeadlinePasses
  \/ Disconnect \/ Fetch \/ Delete
  \/ \E p \in {"daemon", "worker"} : Perish(p)
  \/ \E h \in Helpers : Helper(h)

Spec == Init /\ [][Next]_vars

\* systemd runs the timer and the helper, and a kill signal takes effect;
\* nothing is assumed of the build, the script or the coordinator.
FairSpec ==
  /\ Spec /\ WF_vars(DeadlinePasses)
  /\ \A h \in Helpers : WF_vars(Helper(h))
  /\ \A p \in {"daemon", "worker"} : WF_vars(Perish(p))

(***************************************************************************)
(* What a receipt promises.                                                *)
(***************************************************************************)

\* A receipt says that nothing of the build runs or will run, unless the ten
\* minutes were over before the script came to start the worker.
ReceiptIsFinal ==
  receipt # NoReceipt /\ timer # "early" => ~Populated /\ script \notin {"armed", "daemon"}

\* A receipt of no seconds says that the build never executed, any other that
\* it did; the receipt that the coordinator has is the one on the machine.
ReceiptIsExact ==
  /\ receipt # NoReceipt /\ timer # "early" => (receipt.seconds = "timed" <=> began)
  /\ fetched # NoReceipt => fetched = receipt

\* Both runs of the helper leave the same receipt: the first one.
ReceiptWrittenOnce == [][receipt # NoReceipt => UNCHANGED receipt]_vars

\* A result that says so comes with a whole image, and no execution goes on
\* after it (worker.py execute).
SuccessIsWhole == result = "ok" => image = "complete" /\ ~WorkerUp

\* A worker that runs stops, also without its coordinator, unless a run of the
\* helper failed or the ten minutes were over before it was started.
BuildStops ==
  WorkerUp ~> (~WorkerUp \/ timer = "early" \/ \E h \in Helpers : helper[h] = "failed")

=============================================================================
