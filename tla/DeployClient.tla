------------------------------ MODULE DeployClient ------------------------------
(***************************************************************************)
(* small-cloud app deploy, from the submission to the exit of the command  *)
(* (identity/cli.py execute and Client.request, identity/completion.py),   *)
(* against a service whose answers can be late or lost (identity/http.py,  *)
(* publishing.py deploy and operation).  The command is run several times  *)
(* with one request ID, each time with the source of that moment.          *)
(***************************************************************************)
EXTENDS Naturals

CONSTANTS
  Archives,   \* the archives that the runs can upload
  MaxRuns     \* bound: the runs, one after the other

Runs == 1..MaxRuns

VARIABLES
  archive,     \* what each run uploads
  copy,        \* where each run's request is
  reply,       \* the service's answer to it
  slot,        \* whose upload the service receives: "own", "other" or None
  operation,   \* the operation of the request ID, which is its receipt too
  admitted,    \* the runs whose request was admitted as a new operation
  otherBuild,  \* the creator has another build that has not ended
  authorized,  \* the credential and the creator's privilege
  phase,       \* where each run is
  read,        \* the answer to its status request
  seen,        \* the last state it was told
  outcome      \* how it ended

serviceVars == <<slot, operation, admitted, otherBuild, authorized>>
requestVars == <<archive, copy, reply>>
clientVars == <<phase, read, seen, outcome>>
deployVars == <<serviceVars, requestVars, clientVars>>

None == "none"
NoOperation == [archive |-> None, state |-> None]
Final == {"succeeded", "failed"}
Unfinished == operation.state \in {"accepted", "working", "operator"}

NoReply == [kind |-> None, known |-> FALSE]
Pending == "pending"
NoOutcome == [kind |-> Pending, continues |-> TRUE]

DeployInit ==
  /\ archive = [r \in Runs |-> None] /\ copy = [r \in Runs |-> None]
  /\ reply = [r \in Runs |-> NoReply]
  /\ slot = None /\ operation = NoOperation /\ admitted = {}
  /\ otherBuild \in BOOLEAN /\ authorized = TRUE
  /\ phase = [r \in Runs |-> "idle"] /\ read = [r \in Runs |-> None]
  /\ seen = [r \in Runs |-> None] /\ outcome = [r \in Runs |-> NoOutcome]

(***************************************************************************)
(* The request                                                             *)
(***************************************************************************)

Submit(r) ==
  /\ phase[r] = "idle" /\ \A q \in Runs : q < r => phase[q] = "over"
  /\ phase' = [phase EXCEPT ![r] = "submitting"]
  /\ \E a \in Archives : archive' = [archive EXCEPT ![r] = a]
  /\ copy' = [copy EXCEPT ![r] = "sent"]
  /\ UNCHANGED <<reply, serviceVars, read, seen, outcome>>

Answer(r, kind) ==
  reply' = [reply EXCEPT ![r] = [kind |-> kind, known |-> operation # NoOperation]]

\* One upload at a time; the slot is taken before the receipt is looked for.
Upload(r) ==
  /\ copy[r] = "sent"
  /\ \/ /\ authorized /\ slot = None /\ slot' = "own"
        /\ copy' = [copy EXCEPT ![r] = "uploading"] /\ UNCHANGED reply
     \/ /\ ~authorized \/ slot # None
        /\ copy' = [copy EXCEPT ![r] = "over"]
        /\ Answer(r, IF authorized THEN "no slot" ELSE "forbidden") /\ UNCHANGED slot
  /\ UNCHANGED <<archive, operation, admitted, otherBuild, authorized, clientVars>>

Receipt(r) == IF operation.archive = archive[r] THEN "accepted" ELSE "conflict"

\* The creator has a build already.
Busy == otherBuild \/ Unfinished

\* A faulty variant that looks for a build in progress first.
BusyDecision(r) ==
  IF ~authorized THEN "forbidden"
  ELSE IF Busy THEN "busy"
  ELSE IF operation # NoOperation THEN Receipt(r) ELSE "accepted"

\* The receipt of the request ID comes before the build that is in progress.
Decision(r) ==
  IF ~authorized THEN "forbidden"
  ELSE IF operation # NoOperation THEN Receipt(r)
  ELSE IF Busy THEN "busy" ELSE "accepted"

\* Publishing.deploy, in one transaction.
Admit(r) ==
  /\ copy[r] = "uploading" /\ copy' = [copy EXCEPT ![r] = "answering"]
  /\ Answer(r, Decision(r))
  /\ IF Decision(r) = "accepted" /\ operation = NoOperation
     THEN /\ operation' = [archive |-> archive[r], state |-> "accepted"]
          /\ admitted' = admitted \cup {r}
     ELSE UNCHANGED <<operation, admitted>>
  /\ UNCHANGED <<archive, slot, otherBuild, authorized, clientVars>>

\* The answer is sent, and the slot released.
Respond(r) ==
  /\ copy[r] = "answering" /\ copy' = [copy EXCEPT ![r] = "over"] /\ slot' = None
  /\ UNCHANGED <<archive, reply, operation, admitted, otherBuild, authorized, clientVars>>

\* The connection breaks: a request that has not arrived whole is dropped, and an
\* answer does not arrive.
LoseConnection(r) ==
  /\ copy[r] \in {"sent", "uploading", "answering"}
  /\ copy[r] = "answering" => phase[r] = "submitting"
  /\ copy' = [copy EXCEPT ![r] = "over"]
  /\ reply' = [reply EXCEPT ![r] = NoReply]
  /\ slot' = IF copy[r] = "sent" THEN slot ELSE None
  /\ UNCHANGED <<archive, operation, admitted, otherBuild, authorized, clientVars>>

(***************************************************************************)
(* The service                                                             *)
(***************************************************************************)

\* Uploads of others.
OtherUpload ==
  /\ slot' = IF slot = "other" THEN None ELSE "other"
  /\ slot \in {None, "other"}
  /\ UNCHANGED <<operation, admitted, otherBuild, authorized, requestVars, clientVars>>

\* Another build of the creator is admitted, or ends.
OtherBuild ==
  /\ otherBuild \/ ~Unfinished
  /\ otherBuild' = ~otherBuild
  /\ UNCHANGED <<slot, operation, admitted, authorized, requestVars, clientVars>>

Revoke ==
  /\ authorized /\ authorized' = FALSE
  /\ UNCHANGED <<slot, operation, admitted, otherBuild, requestVars, clientVars>>

\* The publishing worker, and the operator for what it leaves to one.
Progress ==
  /\ \E to \in {"working", "operator"} \cup Final :
       /\ <<operation.state, to>> \in ({"accepted"} \X {"working"})
            \cup ({"working"} \X {"operator"}) \cup ({"working", "operator"} \X Final)
       /\ operation' = [operation EXCEPT !.state = to]
  /\ UNCHANGED <<slot, admitted, otherBuild, authorized, requestVars, clientVars>>

(***************************************************************************)
(* The command                                                             *)
(***************************************************************************)

End(r, kind, continues) ==
  /\ phase' = [phase EXCEPT ![r] = "over"]
  /\ outcome' = [outcome EXCEPT ![r] = [kind |-> kind, continues |-> continues]]

\* The answer arrives before the command gives up.
ReceiveReply(r) ==
  /\ phase[r] = "submitting" /\ reply[r].kind # None
  /\ IF reply[r].kind = "accepted"
     THEN /\ seen' = [seen EXCEPT ![r] = "accepted"]
          /\ \/ phase' = [phase EXCEPT ![r] = "waiting"] /\ UNCHANGED outcome
             \/ End(r, "accepted", TRUE)      \* --no-wait
     ELSE End(r, reply[r].kind, FALSE) /\ UNCHANGED seen
  /\ UNCHANGED <<serviceVars, requestVars, read>>

\* The connection failed or timed out, or Ctrl-C: the request may still be on its way.
GiveUp(r) ==
  /\ phase[r] = "submitting" /\ End(r, "unknown", TRUE)
  /\ UNCHANGED <<serviceVars, requestVars, read, seen>>

\* A status request is answered; the answer may get lost.
ServeRead(r) ==
  /\ phase[r] = "waiting" /\ read[r] = None
  /\ \E answer \in {"lost", IF authorized THEN operation.state ELSE "denied"} :
       read' = [read EXCEPT ![r] = answer]
  /\ UNCHANGED <<serviceVars, requestVars, phase, seen, outcome>>

Continuing(state) == state \notin Final

\* wait_for_completion: a lost answer is asked for again; one that comes in time is
\* the state from then on.  Ctrl-C may come between that and the exit; once the
\* wait has returned, the caller takes the finished work for work that continues.
ReceiveRead(r) ==
  /\ phase[r] = "waiting" /\ read[r] # None
  /\ read' = [read EXCEPT ![r] = None]
  /\ seen' = [seen EXCEPT ![r] = IF read[r] \in {"lost", "denied"} THEN @ ELSE read[r]]
  /\ \/ read[r] \in {"lost", "accepted", "working"} /\ UNCHANGED <<phase, outcome>>
     \/ read[r] = "denied" /\ End(r, "denied", Continuing(seen[r]))
     \/ read[r] = "succeeded" /\ (End(r, "succeeded", FALSE) \/ End(r, "interrupted", TRUE))
     \/ read[r] \in {"failed", "operator"} /\ End(r, "failed", Continuing(read[r]))
     \/ read[r] \in Final \cup {"operator"} /\ End(r, "interrupted", Continuing(read[r]))
  /\ UNCHANGED <<serviceVars, requestVars>>

\* The time to wait is over, or Ctrl-C; an answer on its way is not waited for.
StopWaiting(r) ==
  /\ phase[r] = "waiting"
  /\ \E kind \in {"timeout", "interrupted"} : End(r, kind, Continuing(seen[r]))
  /\ UNCHANGED <<serviceVars, requestVars, read, seen>>

DeployNext ==
  \/ \E r \in Runs :
       \/ Submit(r) \/ Upload(r) \/ Admit(r) \/ Respond(r) \/ LoseConnection(r)
       \/ ReceiveReply(r) \/ GiveUp(r) \/ ServeRead(r) \/ ReceiveRead(r) \/ StopWaiting(r)
  \/ OtherUpload \/ OtherBuild \/ Revoke \/ Progress

DeploySpec == DeployInit /\ [][DeployNext]_deployVars

-----------------------------------------------------------------------------
(***************************************************************************)
(* Properties                                                              *)
(***************************************************************************)

Own(r) == operation.archive = archive[r]

\* What the command reports is so, whatever became of the requests of this run and
\* of earlier ones: success and failure are those of the operation that builds this
\* source, an accepted or continuing operation is there, a conflict is one, a
\* creator who is told to be busy has nothing from this request ID, and work that is
\* said to be over is over (cli.py:121-141, completion.py:61-110, publishing.py:68-79).
OutcomeIsTrue ==
  \A r \in Runs :
    LET kind == outcome[r].kind
    IN  /\ kind \in {"succeeded", "failed", "accepted", "timeout", "interrupted", "denied"}
             => operation # NoOperation /\ Own(r)
        /\ kind = "succeeded" => operation.state = "succeeded"
        /\ kind = "failed" => operation.state \in {"failed", "operator"} \/ seen[r] = "operator"
        /\ kind \in {"failed", "interrupted", "timeout", "denied"} /\ ~outcome[r].continues
             => operation.state = seen[r] /\ seen[r] \in Final
        /\ kind = "conflict" => operation # NoOperation /\ ~Own(r)
        /\ kind = "busy" => ~reply[r].known
        /\ kind \in {"busy", "no slot", "forbidden", "conflict"} => r \notin admitted
=============================================================================
