---------------------------- MODULE ExecutionProofs ----------------------------
(***************************************************************************)
(* Proofs about one build on its machine (BuildExecution): what a receipt  *)
(* and a result promise.  The argument is about the order of the script    *)
(* (nothing is started once the helper was called, unless the deadline     *)
(* came early), the helper's lock, and the lookup that found no group.     *)
(***************************************************************************)
EXTENDS BuildExecution, TLAPS

Preparing == script \in {"setup", "armed", "daemon"}

Active(h) == helper[h] \in {"looking", "emptying"}

\* The order of the script and of the worker.
Sequence ==
  /\ Preparing => worker = "off"
  /\ worker \in {"off", "started"} => ~began
  /\ worker \in {"waiting", "building", "exporting", "exported"} => began
  /\ Populated => slice
  /\ worker = "exported" => image = "complete"
  /\ result = "ok" => worker = "ended" /\ image = "complete"

\* Who calls the helper, and when.
Calls ==
  /\ helper["trap"] # "off" => script \in {"trap", "over"}
  /\ helper["timer"] # "off" => timer \in {"elapsed", "early"}
  /\ timer = "elapsed" => ~Preparing
  /\ script = "setup" => timer = "unset"

\* The lock of the helper; its holder has seen no receipt.
Turns ==
  /\ \A h, i \in Helpers : Active(h) /\ Active(i) => h = i
  /\ \A h \in Helpers : Active(h) => receipt = NoReceipt
  /\ receipt # NoReceipt => \E h \in Helpers : helper[h] = "over"

\* A group that was not there is not there later.
Looked ==
  \A h \in Helpers : helper[h] = "looking" /\ ~found[h] /\ timer # "early" => ~Populated

IInv == TypeOK /\ Sequence /\ Calls /\ Turns /\ Looked /\ ReceiptIsFinal /\ ReceiptIsExact

LEMMA Initially == Init => IInv
  BY DEF Init, TypeOK, Helpers, Receipts, NoReceipt, WorkerUp, Sequence, Preparing, Populated, Calls, Turns, Active, Looked, ReceiptIsFinal, ReceiptIsExact, IInv

LEMMA Inductive == IInv /\ [Next]_vars => IInv'
  <1> SUFFICES ASSUME IInv, [Next]_vars PROVE IInv'
    OBVIOUS
  <1> USE DEF IInv
  <1>1. CASE ArmTimer
    <2>1. TypeOK'
      BY <1>1 DEF ArmTimer, TypeOK, Helpers, Receipts, NoReceipt, WorkerUp, scriptVars,
          workerVars, systemVars, helperVars, linkVars
    <2>2. Sequence'
      BY <1>1 DEF ArmTimer, TypeOK, Sequence, Preparing, WorkerUp, Populated, scriptVars,
          workerVars, systemVars, helperVars, linkVars
    <2>3. Calls'
      BY <1>1 DEF ArmTimer, TypeOK, Calls, Preparing, Helpers, scriptVars, workerVars,
          systemVars, helperVars, linkVars
    <2>4. Looked'
      BY <1>1 DEF ArmTimer, TypeOK, Looked, Sequence, Calls, Preparing, Helpers, WorkerUp,
          Populated, scriptVars, workerVars, systemVars, helperVars, linkVars
    <2>5. ReceiptIsFinal'
      BY <1>1 DEF ArmTimer, TypeOK, ReceiptIsFinal, Sequence, Calls, Turns, Looked, Active,
          Preparing, Helpers, WorkerUp, Populated, NoReceipt, scriptVars, workerVars,
          systemVars, helperVars, linkVars
    <2>6. ReceiptIsExact'
      BY <1>1 DEF ArmTimer, TypeOK, ReceiptIsExact, ReceiptIsFinal, Sequence, Calls, Turns,
          Looked, Active, Preparing, Helpers, WorkerUp, Populated, NoReceipt, scriptVars,
          workerVars, systemVars, helperVars, linkVars
    <2>7. Turns'
      BY <1>1 DEF ArmTimer, Turns, Active, NoReceipt, scriptVars, workerVars, systemVars,
          helperVars, linkVars
    <2> QED
      BY <2>1, <2>2, <2>3, <2>4, <2>5, <2>6, <2>7 DEF IInv
  <1>2. CASE StartDaemon
    <2>1. TypeOK'
      BY <1>2 DEF StartDaemon, TypeOK, Helpers, Receipts, NoReceipt, WorkerUp, scriptVars,
          workerVars, systemVars, helperVars, linkVars
    <2>2. Sequence'
      BY <1>2 DEF StartDaemon, TypeOK, Sequence, Preparing, WorkerUp, Populated, scriptVars,
          workerVars, systemVars, helperVars, linkVars
    <2>3. Calls'
      BY <1>2 DEF StartDaemon, TypeOK, Calls, Preparing, Helpers, scriptVars, workerVars,
          systemVars, helperVars, linkVars
    <2>4. Looked'
      BY <1>2 DEF StartDaemon, TypeOK, Looked, Sequence, Calls, Preparing, Helpers, WorkerUp,
          Populated, scriptVars, workerVars, systemVars, helperVars, linkVars
    <2>5. ReceiptIsFinal'
      BY <1>2 DEF StartDaemon, TypeOK, ReceiptIsFinal, Sequence, Calls, Turns, Looked, Active,
          Preparing, Helpers, WorkerUp, Populated, NoReceipt, scriptVars, workerVars,
          systemVars, helperVars, linkVars
    <2>6. (Turns /\ ReceiptIsExact)'
      BY <1>2 DEF StartDaemon, Turns, Active, NoReceipt, ReceiptIsExact, scriptVars, workerVars,
          systemVars, helperVars, linkVars
    <2> QED
      BY <2>1, <2>2, <2>3, <2>4, <2>5, <2>6 DEF IInv
  <1>3. CASE StartWorker
    <2>1. TypeOK'
      BY <1>3 DEF StartWorker, TypeOK, Helpers, Receipts, NoReceipt, WorkerUp, scriptVars,
          workerVars, systemVars, helperVars, linkVars
    <2>2. Sequence'
      BY <1>3 DEF StartWorker, TypeOK, Sequence, Preparing, WorkerUp, Populated, scriptVars,
          workerVars, systemVars, helperVars, linkVars
    <2>3. Calls'
      BY <1>3 DEF StartWorker, TypeOK, Calls, Preparing, Helpers, scriptVars, workerVars,
          systemVars, helperVars, linkVars
    <2>4. Looked'
      BY <1>3 DEF StartWorker, TypeOK, Looked, Sequence, Calls, Preparing, Helpers, WorkerUp,
          Populated, scriptVars, workerVars, systemVars, helperVars, linkVars
    <2>5. ReceiptIsFinal'
      BY <1>3 DEF StartWorker, TypeOK, ReceiptIsFinal, Sequence, Calls, Turns, Looked, Active,
          Preparing, Helpers, WorkerUp, Populated, NoReceipt, scriptVars, workerVars,
          systemVars, helperVars, linkVars
    <2>6. (Turns /\ ReceiptIsExact)'
      BY <1>3 DEF StartWorker, Turns, Active, NoReceipt, ReceiptIsExact, scriptVars, workerVars,
          systemVars, helperVars, linkVars
    <2> QED
      BY <2>1, <2>2, <2>3, <2>4, <2>5, <2>6 DEF IInv
  <1>4. CASE Trap
    <2>1. TypeOK'
      BY <1>4 DEF Trap, TypeOK, Helpers, Receipts, NoReceipt, WorkerUp, scriptVars, workerVars,
          systemVars, helperVars, linkVars
    <2>2. Sequence'
      BY <1>4 DEF Trap, TypeOK, Sequence, Preparing, WorkerUp, Populated, scriptVars,
          workerVars, systemVars, helperVars, linkVars
    <2>3. Calls'
      BY <1>4 DEF Trap, TypeOK, Calls, Preparing, Helpers, scriptVars, workerVars, systemVars,
          helperVars, linkVars
    <2>4. Turns'
      BY <1>4 DEF Trap, TypeOK, Turns, Calls, Preparing, Active, Helpers, NoReceipt, scriptVars,
          workerVars, systemVars, helperVars, linkVars
    <2>5. Looked'
      BY <1>4 DEF Trap, TypeOK, Looked, Sequence, Calls, Preparing, Helpers, WorkerUp,
          Populated, scriptVars, workerVars, systemVars, helperVars, linkVars
    <2>6. ReceiptIsFinal'
      BY <1>4 DEF Trap, TypeOK, ReceiptIsFinal, Sequence, Calls, Turns, Looked, Active,
          Preparing, Helpers, WorkerUp, Populated, NoReceipt, scriptVars, workerVars,
          systemVars, helperVars, linkVars
    <2>7. ReceiptIsExact'
      BY <1>4 DEF Trap, ReceiptIsExact, NoReceipt, scriptVars, workerVars, systemVars,
          helperVars, linkVars
    <2> QED
      BY <2>1, <2>2, <2>3, <2>4, <2>5, <2>6, <2>7 DEF IInv
  <1>5. CASE StopServices
    <2>1. TypeOK'
      <3>1. (daemon \in BOOLEAN /\ slice \in BOOLEAN)'
        BY <1>5, Zenon DEF StopServices, TypeOK, systemVars
      <3> QED
        BY <1>5, <3>1 DEF StopServices, TypeOK, Helpers, Receipts, NoReceipt, WorkerUp,
            scriptVars, workerVars, systemVars, helperVars, linkVars
    <2>2. Sequence'
      BY <1>5 DEF StopServices, TypeOK, Sequence, Preparing, WorkerUp, Populated, scriptVars,
          workerVars, systemVars, helperVars, linkVars
    <2>3. Calls'
      BY <1>5 DEF StopServices, TypeOK, Calls, Preparing, Helpers, scriptVars, workerVars,
          systemVars, helperVars, linkVars
    <2>4. Looked'
      BY <1>5 DEF StopServices, TypeOK, Looked, Sequence, Calls, Preparing, Helpers, WorkerUp,
          Populated, scriptVars, workerVars, systemVars, helperVars, linkVars
    <2>5. ReceiptIsFinal'
      BY <1>5 DEF StopServices, TypeOK, ReceiptIsFinal, Sequence, Calls, Turns, Looked, Active,
          Preparing, Helpers, WorkerUp, Populated, NoReceipt, scriptVars, workerVars,
          systemVars, helperVars, linkVars
    <2>6. (Turns /\ ReceiptIsExact)'
      BY <1>5 DEF StopServices, Turns, Active, NoReceipt, ReceiptIsExact, scriptVars,
          workerVars, systemVars, helperVars, linkVars
    <2> QED
      BY <2>1, <2>2, <2>3, <2>4, <2>5, <2>6 DEF IInv
  <1>6. CASE Begin
    <2>1. TypeOK'
      BY <1>6 DEF Begin, TypeOK, Helpers, Receipts, NoReceipt, WorkerUp, scriptVars, workerVars,
          systemVars, helperVars, linkVars
    <2>2. Sequence'
      BY <1>6 DEF Begin, TypeOK, Sequence, Preparing, WorkerUp, Populated, scriptVars,
          workerVars, systemVars, helperVars, linkVars
    <2>3. Looked'
      BY <1>6 DEF Begin, TypeOK, Looked, Sequence, Calls, Preparing, Helpers, WorkerUp,
          Populated, scriptVars, workerVars, systemVars, helperVars, linkVars
    <2>4. ReceiptIsFinal'
      BY <1>6 DEF Begin, TypeOK, ReceiptIsFinal, Sequence, Calls, Turns, Looked, Active,
          Preparing, Helpers, WorkerUp, Populated, NoReceipt, scriptVars, workerVars,
          systemVars, helperVars, linkVars
    <2>5. ReceiptIsExact'
      BY <1>6 DEF Begin, TypeOK, ReceiptIsExact, ReceiptIsFinal, Sequence, Calls, Turns, Looked,
          Active, Preparing, Helpers, WorkerUp, Populated, NoReceipt, scriptVars, workerVars,
          systemVars, helperVars, linkVars
    <2>6. (Calls /\ Turns)'
      BY <1>6 DEF Begin, Calls, Preparing, Turns, Active, NoReceipt, scriptVars, workerVars,
          systemVars, helperVars, linkVars
    <2> QED
      BY <2>1, <2>2, <2>3, <2>4, <2>5, <2>6 DEF IInv
  <1>7. CASE Build
    <2>1. TypeOK'
      BY <1>7 DEF Build, TypeOK, Helpers, Receipts, NoReceipt, WorkerUp, scriptVars, workerVars,
          systemVars, helperVars, linkVars
    <2>2. Sequence'
      BY <1>7 DEF Build, TypeOK, Sequence, Preparing, WorkerUp, Populated, scriptVars,
          workerVars, systemVars, helperVars, linkVars
    <2>3. Looked'
      BY <1>7 DEF Build, TypeOK, Looked, Sequence, Calls, Preparing, Helpers, WorkerUp,
          Populated, scriptVars, workerVars, systemVars, helperVars, linkVars
    <2>4. ReceiptIsFinal'
      BY <1>7 DEF Build, TypeOK, ReceiptIsFinal, Sequence, Calls, Turns, Looked, Active,
          Preparing, Helpers, WorkerUp, Populated, NoReceipt, scriptVars, workerVars,
          systemVars, helperVars, linkVars
    <2>5. (Calls /\ Turns /\ ReceiptIsExact)'
      BY <1>7 DEF Build, Calls, Preparing, Turns, Active, NoReceipt, ReceiptIsExact, scriptVars,
          workerVars, systemVars, helperVars, linkVars
    <2> QED
      BY <2>1, <2>2, <2>3, <2>4, <2>5 DEF IInv
  <1>8. CASE Export
    <2>1. TypeOK'
      BY <1>8 DEF Export, TypeOK, Helpers, Receipts, NoReceipt, WorkerUp, scriptVars,
          workerVars, systemVars, helperVars, linkVars
    <2>2. Sequence'
      BY <1>8 DEF Export, TypeOK, Sequence, Preparing, WorkerUp, Populated, scriptVars,
          workerVars, systemVars, helperVars, linkVars
    <2>3. Looked'
      BY <1>8 DEF Export, TypeOK, Looked, Sequence, Calls, Preparing, Helpers, WorkerUp,
          Populated, scriptVars, workerVars, systemVars, helperVars, linkVars
    <2>4. ReceiptIsFinal'
      BY <1>8 DEF Export, TypeOK, ReceiptIsFinal, Sequence, Calls, Turns, Looked, Active,
          Preparing, Helpers, WorkerUp, Populated, NoReceipt, scriptVars, workerVars,
          systemVars, helperVars, linkVars
    <2>5. (Calls /\ Turns /\ ReceiptIsExact)'
      BY <1>8 DEF Export, Calls, Preparing, Turns, Active, NoReceipt, ReceiptIsExact,
          scriptVars, workerVars, systemVars, helperVars, linkVars
    <2> QED
      BY <2>1, <2>2, <2>3, <2>4, <2>5 DEF IInv
  <1>9. CASE Exported
    <2>1. TypeOK'
      BY <1>9 DEF Exported, TypeOK, Helpers, Receipts, NoReceipt, WorkerUp, scriptVars,
          workerVars, systemVars, helperVars, linkVars
    <2>2. Sequence'
      BY <1>9 DEF Exported, TypeOK, Sequence, Preparing, WorkerUp, Populated, scriptVars,
          workerVars, systemVars, helperVars, linkVars
    <2>3. Looked'
      BY <1>9 DEF Exported, TypeOK, Looked, Sequence, Calls, Preparing, Helpers, WorkerUp,
          Populated, scriptVars, workerVars, systemVars, helperVars, linkVars
    <2>4. ReceiptIsFinal'
      BY <1>9 DEF Exported, TypeOK, ReceiptIsFinal, Sequence, Calls, Turns, Looked, Active,
          Preparing, Helpers, WorkerUp, Populated, NoReceipt, scriptVars, workerVars,
          systemVars, helperVars, linkVars
    <2>5. (Calls /\ Turns /\ ReceiptIsExact)'
      BY <1>9 DEF Exported, Calls, Preparing, Turns, Active, NoReceipt, ReceiptIsExact,
          scriptVars, workerVars, systemVars, helperVars, linkVars
    <2> QED
      BY <2>1, <2>2, <2>3, <2>4, <2>5 DEF IInv
  <1>10. CASE Succeed
    <2>1. TypeOK'
      BY <1>10 DEF Succeed, Done, TypeOK, Helpers, Receipts, NoReceipt, WorkerUp, scriptVars,
          workerVars, systemVars, helperVars, linkVars
    <2>2. Sequence'
      BY <1>10 DEF Succeed, Done, TypeOK, Sequence, Preparing, WorkerUp, Populated, scriptVars,
          workerVars, systemVars, helperVars, linkVars
    <2>3. Looked'
      BY <1>10 DEF Succeed, Done, TypeOK, Looked, Sequence, Calls, Preparing, Helpers, WorkerUp,
          Populated, scriptVars, workerVars, systemVars, helperVars, linkVars
    <2>4. ReceiptIsFinal'
      BY <1>10 DEF Succeed, Done, TypeOK, ReceiptIsFinal, Sequence, Calls, Turns, Looked,
          Active, Preparing, Helpers, WorkerUp, Populated, NoReceipt, scriptVars, workerVars,
          systemVars, helperVars, linkVars
    <2>5. (Calls /\ Turns /\ ReceiptIsExact)'
      BY <1>10 DEF Succeed, Calls, Preparing, Turns, Active, NoReceipt, ReceiptIsExact,
          scriptVars, workerVars, systemVars, helperVars, linkVars
    <2> QED
      BY <2>1, <2>2, <2>3, <2>4, <2>5 DEF IInv
  <1>11. CASE Fail
    <2>1. TypeOK'
      BY <1>11 DEF Fail, TypeOK, Helpers, Receipts, NoReceipt, WorkerUp, scriptVars, workerVars,
          systemVars, helperVars, linkVars
    <2>2. Sequence'
      BY <1>11 DEF Fail, TypeOK, Sequence, Preparing, WorkerUp, Populated, scriptVars,
          workerVars, systemVars, helperVars, linkVars
    <2>3. Looked'
      BY <1>11 DEF Fail, TypeOK, Looked, Sequence, Calls, Preparing, Helpers, WorkerUp,
          Populated, scriptVars, workerVars, systemVars, helperVars, linkVars
    <2>4. ReceiptIsFinal'
      BY <1>11 DEF Fail, TypeOK, ReceiptIsFinal, Sequence, Calls, Turns, Looked, Active,
          Preparing, Helpers, WorkerUp, Populated, NoReceipt, scriptVars, workerVars,
          systemVars, helperVars, linkVars
    <2>5. (Calls /\ Turns /\ ReceiptIsExact)'
      BY <1>11 DEF Fail, Calls, Preparing, Turns, Active, NoReceipt, ReceiptIsExact, scriptVars,
          workerVars, systemVars, helperVars, linkVars
    <2> QED
      BY <2>1, <2>2, <2>3, <2>4, <2>5 DEF IInv
  <1>12. CASE DaemonFails
    <2>1. TypeOK'
      <3>1. (daemon \in BOOLEAN /\ slice \in BOOLEAN)'
        BY <1>12, Zenon DEF DaemonFails, TypeOK, systemVars
      <3> QED
        BY <1>12, <3>1 DEF DaemonFails, TypeOK, Helpers, Receipts, NoReceipt, WorkerUp,
            scriptVars, workerVars, systemVars, helperVars, linkVars
    <2>2. Sequence'
      BY <1>12 DEF DaemonFails, TypeOK, Sequence, Preparing, WorkerUp, Populated, scriptVars,
          workerVars, systemVars, helperVars, linkVars
    <2>3. Looked'
      BY <1>12 DEF DaemonFails, TypeOK, Looked, Sequence, Calls, Preparing, Helpers, WorkerUp,
          Populated, scriptVars, workerVars, systemVars, helperVars, linkVars
    <2>4. ReceiptIsFinal'
      BY <1>12 DEF DaemonFails, TypeOK, ReceiptIsFinal, Sequence, Calls, Turns, Looked, Active,
          Preparing, Helpers, WorkerUp, Populated, NoReceipt, scriptVars, workerVars,
          systemVars, helperVars, linkVars
    <2>5. (Calls /\ Turns /\ ReceiptIsExact)'
      BY <1>12 DEF DaemonFails, Calls, Preparing, Turns, Active, NoReceipt, ReceiptIsExact,
          scriptVars, workerVars, systemVars, helperVars, linkVars
    <2> QED
      BY <2>1, <2>2, <2>3, <2>4, <2>5 DEF IInv
  <1>13. CASE SliceCollected
    <2>1. TypeOK'
      <3>1. (daemon \in BOOLEAN /\ slice \in BOOLEAN)'
        BY <1>13, Zenon DEF SliceCollected, TypeOK, systemVars
      <3> QED
        BY <1>13, <3>1 DEF SliceCollected, TypeOK, Helpers, Receipts, NoReceipt, WorkerUp,
            scriptVars, workerVars, systemVars, helperVars, linkVars
    <2>2. Sequence'
      BY <1>13 DEF SliceCollected, TypeOK, Sequence, Preparing, WorkerUp, Populated, scriptVars,
          workerVars, systemVars, helperVars, linkVars
    <2>3. (Calls /\ Turns /\ Looked /\ ReceiptIsFinal /\ ReceiptIsExact)'
      BY <1>13 DEF SliceCollected, Calls, Preparing, Turns, Active, NoReceipt, Looked, WorkerUp,
          Populated, ReceiptIsFinal, ReceiptIsExact, scriptVars, workerVars, systemVars,
          helperVars, linkVars
    <2> QED
      BY <2>1, <2>2, <2>3 DEF IInv
  <1>14. CASE DeadlinePasses
    <2>1. TypeOK'
      BY <1>14 DEF DeadlinePasses, TimerRuns, TypeOK, Helpers, Receipts, NoReceipt, WorkerUp,
          scriptVars, workerVars, systemVars, helperVars, linkVars
    <2>2. Calls'
      BY <1>14 DEF DeadlinePasses, TimerRuns, TypeOK, Calls, Preparing, Helpers, scriptVars,
          workerVars, systemVars, helperVars, linkVars
    <2>3. Turns'
      BY <1>14 DEF DeadlinePasses, TimerRuns, TypeOK, Turns, Calls, Preparing, Active, Helpers,
          NoReceipt, scriptVars, workerVars, systemVars, helperVars, linkVars
    <2>4. Looked'
      BY <1>14 DEF DeadlinePasses, TimerRuns, TypeOK, Looked, Sequence, Calls, Preparing,
          Helpers, WorkerUp, Populated, scriptVars, workerVars, systemVars, helperVars, linkVars
    <2>5. ReceiptIsFinal'
      BY <1>14 DEF DeadlinePasses, TimerRuns, TypeOK, ReceiptIsFinal, Sequence, Calls, Turns,
          Looked, Active, Preparing, Helpers, WorkerUp, Populated, NoReceipt, scriptVars,
          workerVars, systemVars, helperVars, linkVars
    <2>6. ReceiptIsExact'
      BY <1>14 DEF DeadlinePasses, TimerRuns, TypeOK, ReceiptIsExact, ReceiptIsFinal, Sequence,
          Calls, Turns, Looked, Active, Preparing, Helpers, WorkerUp, Populated, NoReceipt,
          scriptVars, workerVars, systemVars, helperVars, linkVars
    <2>7. Sequence'
      BY <1>14 DEF DeadlinePasses, Sequence, Preparing, WorkerUp, Populated, scriptVars,
          workerVars, systemVars, helperVars, linkVars
    <2> QED
      BY <2>1, <2>2, <2>3, <2>4, <2>5, <2>6, <2>7 DEF IInv
  <1>15. CASE Disconnect
    <2>1. TypeOK'
      BY <1>15 DEF Disconnect, TypeOK, Helpers, Receipts, NoReceipt, WorkerUp, scriptVars,
          workerVars, systemVars, helperVars, linkVars
    <2>2. (Sequence /\ Calls /\ Turns /\ Looked /\ ReceiptIsFinal /\ ReceiptIsExact)'
      BY <1>15 DEF Disconnect, Sequence, Preparing, WorkerUp, Populated, Calls, Turns, Active,
          NoReceipt, Looked, ReceiptIsFinal, ReceiptIsExact, scriptVars, workerVars, systemVars,
          helperVars, linkVars
    <2> QED
      BY <2>1, <2>2 DEF IInv
  <1>16. CASE Fetch
    <2>1. TypeOK'
      BY <1>16 DEF Fetch, TypeOK, Helpers, Receipts, NoReceipt, WorkerUp, scriptVars,
          workerVars, systemVars, helperVars, linkVars
    <2>2. ReceiptIsExact'
      BY <1>16 DEF Fetch, TypeOK, ReceiptIsExact, ReceiptIsFinal, Sequence, Calls, Turns,
          Looked, Active, Preparing, Helpers, WorkerUp, Populated, NoReceipt, scriptVars,
          workerVars, systemVars, helperVars, linkVars
    <2>3. (Sequence /\ Calls /\ Turns /\ Looked /\ ReceiptIsFinal)'
      BY <1>16 DEF Fetch, Sequence, Preparing, WorkerUp, Populated, Calls, Turns, Active,
          NoReceipt, Looked, ReceiptIsFinal, scriptVars, workerVars, systemVars, helperVars,
          linkVars
    <2> QED
      BY <2>1, <2>2, <2>3 DEF IInv
  <1>17. CASE Delete
    <2>1. TypeOK'
      <3>1. (daemon \in BOOLEAN /\ slice \in BOOLEAN)'
        BY <1>17, Zenon DEF Delete, TypeOK, systemVars
      <3> QED
        BY <1>17, <3>1 DEF Delete, TypeOK, Helpers, Receipts, NoReceipt, WorkerUp, scriptVars,
            workerVars, systemVars, helperVars, linkVars
    <2>2. Sequence'
      BY <1>17 DEF Delete, TypeOK, Sequence, Preparing, WorkerUp, Populated, scriptVars,
          workerVars, systemVars, helperVars, linkVars
    <2>3. Calls'
      BY <1>17 DEF Delete, TypeOK, Calls, Preparing, Helpers, scriptVars, workerVars,
          systemVars, helperVars, linkVars
    <2>4. Looked'
      BY <1>17 DEF Delete, TypeOK, Looked, Sequence, Calls, Preparing, Helpers, WorkerUp,
          Populated, scriptVars, workerVars, systemVars, helperVars, linkVars
    <2>5. ReceiptIsFinal'
      BY <1>17 DEF Delete, TypeOK, ReceiptIsFinal, Sequence, Calls, Turns, Looked, Active,
          Preparing, Helpers, WorkerUp, Populated, NoReceipt, scriptVars, workerVars,
          systemVars, helperVars, linkVars
    <2>6. (Turns /\ ReceiptIsExact)'
      BY <1>17 DEF Delete, Turns, Active, NoReceipt, ReceiptIsExact, scriptVars, workerVars,
          systemVars, helperVars, linkVars
    <2> QED
      BY <2>1, <2>2, <2>3, <2>4, <2>5, <2>6 DEF IInv
  <1>18. ASSUME NEW p \in {"daemon", "worker"}, Perish(p) PROVE IInv'
    <2>1. TypeOK'
      BY <1>18 DEF Perish, TypeOK, Helpers, Receipts, NoReceipt, WorkerUp, scriptVars,
          workerVars, systemVars, helperVars, linkVars
    <2>2. Sequence'
      BY <1>18 DEF Perish, TypeOK, Sequence, Preparing, WorkerUp, Populated, scriptVars,
          workerVars, systemVars, helperVars, linkVars
    <2>3. Looked'
      BY <1>18 DEF Perish, TypeOK, Looked, Sequence, Calls, Preparing, Helpers, WorkerUp,
          Populated, scriptVars, workerVars, systemVars, helperVars, linkVars
    <2>4. ReceiptIsFinal'
      BY <1>18 DEF Perish, TypeOK, ReceiptIsFinal, Sequence, Calls, Turns, Looked, Active,
          Preparing, Helpers, WorkerUp, Populated, NoReceipt, scriptVars, workerVars,
          systemVars, helperVars, linkVars
    <2>5. (Calls /\ Turns /\ ReceiptIsExact)'
      BY <1>18 DEF Perish, Calls, Preparing, Turns, Active, NoReceipt, ReceiptIsExact,
          scriptVars, workerVars, systemVars, helperVars, linkVars
    <2> QED
      BY <2>1, <2>2, <2>3, <2>4, <2>5 DEF IInv
  <1>19. ASSUME NEW h \in Helpers, LookUp(h) PROVE IInv'
    <2>1. TypeOK'
      BY <1>19 DEF LookUp, HasReceipt, Locked, TypeOK, Helpers, Receipts, NoReceipt, WorkerUp,
          scriptVars, workerVars, systemVars, helperVars, linkVars
    <2>2. Calls'
      BY <1>19 DEF LookUp, HasReceipt, Locked, TypeOK, Calls, Preparing, Helpers, scriptVars,
          workerVars, systemVars, helperVars, linkVars
    <2>3. Turns'
      BY <1>19 DEF LookUp, HasReceipt, Locked, TypeOK, Turns, Calls, Preparing, Active, Helpers,
          NoReceipt, scriptVars, workerVars, systemVars, helperVars, linkVars
    <2>4. Looked'
      BY <1>19 DEF LookUp, HasReceipt, Locked, TypeOK, Looked, Sequence, Calls, Preparing,
          Helpers, WorkerUp, Populated, scriptVars, workerVars, systemVars, helperVars, linkVars
    <2>5. (Sequence /\ ReceiptIsFinal /\ ReceiptIsExact)'
      BY <1>19 DEF LookUp, Sequence, Preparing, WorkerUp, Populated, ReceiptIsFinal, NoReceipt,
          ReceiptIsExact, scriptVars, workerVars, systemVars, helperVars, linkVars
    <2> QED
      BY <2>1, <2>2, <2>3, <2>4, <2>5 DEF IInv
  <1>20. ASSUME NEW h \in Helpers, NothingRan(h) PROVE IInv'
    <2>1. TypeOK'
      BY <1>20 DEF NothingRan, NeverBegan, TypeOK, Helpers, Receipts, NoReceipt, WorkerUp,
          scriptVars, workerVars, systemVars, helperVars, linkVars
    <2>2. Calls'
      BY <1>20 DEF NothingRan, NeverBegan, TypeOK, Calls, Preparing, Helpers, scriptVars,
          workerVars, systemVars, helperVars, linkVars
    <2>3. Turns'
      BY <1>20 DEF NothingRan, NeverBegan, TypeOK, Turns, Calls, Preparing, Active, Helpers,
          NoReceipt, scriptVars, workerVars, systemVars, helperVars, linkVars
    <2>4. Looked'
      BY <1>20 DEF NothingRan, NeverBegan, TypeOK, Looked, Sequence, Calls, Preparing, Helpers,
          WorkerUp, Populated, scriptVars, workerVars, systemVars, helperVars, linkVars
    <2>5. ReceiptIsFinal'
      BY <1>20 DEF NothingRan, NeverBegan, TypeOK, ReceiptIsFinal, Sequence, Calls, Turns,
          Looked, Active, Preparing, Helpers, WorkerUp, Populated, NoReceipt, scriptVars,
          workerVars, systemVars, helperVars, linkVars
    <2>6. ReceiptIsExact'
      BY <1>20 DEF NothingRan, NeverBegan, TypeOK, ReceiptIsExact, ReceiptIsFinal, Sequence,
          Calls, Turns, Looked, Active, Preparing, Helpers, WorkerUp, Populated, NoReceipt,
          scriptVars, workerVars, systemVars, helperVars, linkVars
    <2>7. Sequence'
      BY <1>20 DEF NothingRan, Sequence, Preparing, WorkerUp, Populated, scriptVars, workerVars,
          systemVars, helperVars, linkVars
    <2> QED
      BY <2>1, <2>2, <2>3, <2>4, <2>5, <2>6, <2>7 DEF IInv
  <1>21. ASSUME NEW h \in Helpers, Kill(h) PROVE IInv'
    <2>1. TypeOK'
      BY <1>21 DEF Kill, TypeOK, Helpers, Receipts, NoReceipt, WorkerUp, scriptVars, workerVars,
          systemVars, helperVars, linkVars
    <2>2. Calls'
      BY <1>21 DEF Kill, TypeOK, Calls, Preparing, Helpers, scriptVars, workerVars, systemVars,
          helperVars, linkVars
    <2>3. Turns'
      BY <1>21 DEF Kill, TypeOK, Turns, Calls, Preparing, Active, Helpers, NoReceipt,
          scriptVars, workerVars, systemVars, helperVars, linkVars
    <2>4. Looked'
      BY <1>21 DEF Kill, TypeOK, Looked, Sequence, Calls, Preparing, Helpers, WorkerUp,
          Populated, scriptVars, workerVars, systemVars, helperVars, linkVars
    <2>5. (Sequence /\ ReceiptIsFinal /\ ReceiptIsExact)'
      BY <1>21 DEF Kill, Sequence, Preparing, WorkerUp, Populated, ReceiptIsFinal, NoReceipt,
          ReceiptIsExact, scriptVars, workerVars, systemVars, helperVars, linkVars
    <2> QED
      BY <2>1, <2>2, <2>3, <2>4, <2>5 DEF IInv
  <1>22. ASSUME NEW h \in Helpers, WriteReceipt(h) PROVE IInv'
    <2>1. TypeOK'
      BY <1>22 DEF WriteReceipt, Emptied, TypeOK, Helpers, Receipts, NoReceipt, WorkerUp,
          scriptVars, workerVars, systemVars, helperVars, linkVars
    <2>2. Calls'
      BY <1>22 DEF WriteReceipt, Emptied, TypeOK, Calls, Preparing, Helpers, scriptVars,
          workerVars, systemVars, helperVars, linkVars
    <2>3. Turns'
      BY <1>22 DEF WriteReceipt, Emptied, TypeOK, Turns, Calls, Preparing, Active, Helpers,
          NoReceipt, scriptVars, workerVars, systemVars, helperVars, linkVars
    <2>4. Looked'
      BY <1>22 DEF WriteReceipt, Emptied, TypeOK, Looked, Sequence, Calls, Preparing, Helpers,
          WorkerUp, Populated, scriptVars, workerVars, systemVars, helperVars, linkVars
    <2>5. ReceiptIsFinal'
      BY <1>22 DEF WriteReceipt, Emptied, TypeOK, ReceiptIsFinal, Sequence, Calls, Turns,
          Looked, Active, Preparing, Helpers, WorkerUp, Populated, NoReceipt, scriptVars,
          workerVars, systemVars, helperVars, linkVars
    <2>6. ReceiptIsExact'
      BY <1>22 DEF WriteReceipt, Emptied, TypeOK, ReceiptIsExact, ReceiptIsFinal, Sequence,
          Calls, Turns, Looked, Active, Preparing, Helpers, WorkerUp, Populated, NoReceipt,
          scriptVars, workerVars, systemVars, helperVars, linkVars
    <2>7. Sequence'
      BY <1>22 DEF WriteReceipt, Sequence, Preparing, WorkerUp, Populated, scriptVars,
          workerVars, systemVars, helperVars, linkVars
    <2> QED
      BY <2>1, <2>2, <2>3, <2>4, <2>5, <2>6, <2>7 DEF IInv
  <1>23. ASSUME NEW h \in Helpers, HelperFails(h) PROVE IInv'
    <2>1. TypeOK'
      BY <1>23 DEF HelperFails, TypeOK, Helpers, Receipts, NoReceipt, WorkerUp, scriptVars,
          workerVars, systemVars, helperVars, linkVars
    <2>2. Sequence'
      BY <1>23 DEF HelperFails, TypeOK, Sequence, Preparing, WorkerUp, Populated, scriptVars,
          workerVars, systemVars, helperVars, linkVars
    <2>3. Calls'
      BY <1>23 DEF HelperFails, TypeOK, Calls, Preparing, Helpers, scriptVars, workerVars,
          systemVars, helperVars, linkVars
    <2>4. Turns'
      BY <1>23 DEF HelperFails, TypeOK, Turns, Calls, Preparing, Active, Helpers, NoReceipt,
          scriptVars, workerVars, systemVars, helperVars, linkVars
    <2>5. Looked'
      BY <1>23 DEF HelperFails, TypeOK, Looked, Sequence, Calls, Preparing, Helpers, WorkerUp,
          Populated, scriptVars, workerVars, systemVars, helperVars, linkVars
    <2>6. (ReceiptIsFinal /\ ReceiptIsExact)'
      BY <1>23 DEF HelperFails, ReceiptIsFinal, WorkerUp, Populated, NoReceipt, ReceiptIsExact,
          scriptVars, workerVars, systemVars, helperVars, linkVars
    <2> QED
      BY <2>1, <2>2, <2>3, <2>4, <2>5, <2>6 DEF IInv
  <1>24. CASE UNCHANGED vars
    BY <1>24 DEF TypeOK, Helpers, Receipts, NoReceipt, WorkerUp, Sequence, Preparing, Populated,
        Calls, Turns, Active, Looked, ReceiptIsFinal, ReceiptIsExact, IInv, vars, scriptVars,
        workerVars, systemVars, helperVars, linkVars
  <1>25. CASE ScriptKilled
    <2>1. (TypeOK /\ Sequence)'
      BY <1>25 DEF ScriptKilled, TypeOK, Sequence, Preparing, WorkerUp, Populated, scriptVars,
          workerVars, systemVars, helperVars, linkVars
    <2>2. (Calls /\ Turns)'
      BY <1>25 DEF ScriptKilled, TypeOK, Calls, Turns, Active, Preparing, helperVars
    <2>3. (Looked /\ ReceiptIsFinal /\ ReceiptIsExact)'
      BY <1>25 DEF ScriptKilled, Looked, ReceiptIsFinal, ReceiptIsExact, Populated, WorkerUp,
          workerVars, systemVars, helperVars, linkVars
    <2> QED
      BY <2>1, <2>2, <2>3 DEF IInv
  <1> QED
    BY <1>1, <1>2, <1>3, <1>4, <1>5, <1>6, <1>7, <1>8, <1>9, <1>10, <1>11, <1>12, <1>13, <1>14,
        <1>15, <1>16, <1>17, <1>18, <1>19, <1>20, <1>21, <1>22, <1>23, <1>24, <1>25
    DEF Next, Script,
        Worker, Helper

\* TypeOK holds: every variable of BuildExecution has its type.
THEOREM Invariant == Spec => []IInv
  BY Initially, Inductive, PTL DEF Spec

\* ReceiptIsFinal holds: once the helper has written a receipt nothing of the
\* build runs or is started (worker.py terminate).
THEOREM ReceiptsAreTrue == Spec => []ReceiptIsFinal
  <1>1. IInv => ReceiptIsFinal
    BY DEF IInv
  <1> QED
    BY Invariant, <1>1, PTL

\* ReceiptIsExact holds: a receipt says whether the build executed, and the
\* coordinator has no other than the one on the machine.
THEOREM ReceiptsAreExact == Spec => []ReceiptIsExact
  <1>1. IInv => ReceiptIsExact
    BY DEF IInv
  <1> QED
    BY Invariant, <1>1, PTL

\* SuccessIsWhole holds: a result that reports success is written after the
\* image was exported in full, by a worker that then ends (worker.py execute).
THEOREM SuccessesAreWhole == Spec => []SuccessIsWhole
  <1>1. IInv => SuccessIsWhole
    BY DEF IInv, Sequence, SuccessIsWhole, WorkerUp
  <1> QED
    BY Invariant, <1>1, PTL

\* ReceiptWrittenOnce holds: the lock of the helper and its look for a receipt
\* keep the trap and the timer from writing over each other.
THEOREM ReceiptsStay == Spec => ReceiptWrittenOnce
  <1>1. IInv /\ [Next]_vars => [receipt # NoReceipt => UNCHANGED receipt]_vars
    <2> SUFFICES ASSUME IInv, Next, receipt # NoReceipt PROVE UNCHANGED receipt
      OBVIOUS
    <2>1. \A h \in Helpers : ~Active(h)
      BY DEF IInv, Turns
    <2> QED
      BY <2>1 DEF Active, Next, Script, Worker, Helper, ArmTimer, StartDaemon, StartWorker,
          Trap, StopServices, ScriptKilled, Begin, Build, Export, Exported, Succeed, Fail, DaemonFails,
          SliceCollected, DeadlinePasses, Disconnect, Fetch, Delete, Perish, LookUp, NothingRan,
          Kill, WriteReceipt, HelperFails, helperVars
  <1> QED
    BY Invariant, <1>1, PTL DEF Spec, ReceiptWrittenOnce

=============================================================================
