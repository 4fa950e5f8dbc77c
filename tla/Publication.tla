----------------------------- MODULE Publication -----------------------------
(***************************************************************************)
(* What the platform promises about operations and selected releases, with *)
(* no builder, host, route or process in it.  An admitted operation ends   *)
(* once.  Only a deployment selects a release; from then on it can only    *)
(* succeed (or wait for the operator), and an operation that fails leaves  *)
(* the selected release as it found it.                                    *)
(***************************************************************************)
EXTENDS Naturals

CONSTANTS Apps, NoApp, Ops, NoOp

VARIABLES
  selected,    \* the release each app serves, or would serve when started
  status,      \* how far each operation is
  subject      \* the app of each operation

vars == <<selected, status, subject>>

Init ==
  /\ selected = [a \in Apps |-> NoOp]
  /\ status = [o \in Ops |-> "none"]
  /\ subject = [o \in Ops |-> NoApp]

\* An operation is admitted on an app that has none open.
Accept(o, a) ==
  /\ status[o] = "none"
  /\ \A p \in Ops : subject[p] = a => status[p] \in {"succeeded", "failed"}
  /\ status' = [status EXCEPT ![o] = "open"]
  /\ subject' = [subject EXCEPT ![o] = a]
  /\ UNCHANGED selected

\* A deployment's release is selected.
Select(o) ==
  /\ status[o] = "open"
  /\ status' = [status EXCEPT ![o] = "selected"]
  /\ selected' = [selected EXCEPT ![subject[o]] = o]
  /\ UNCHANGED subject

Succeed(o) ==
  /\ status[o] \in {"open", "selected"}
  /\ status' = [status EXCEPT ![o] = "succeeded"]
  /\ UNCHANGED <<selected, subject>>

Fail(o) ==
  /\ status[o] = "open"
  /\ status' = [status EXCEPT ![o] = "failed"]
  /\ UNCHANGED <<selected, subject>>

Next ==
  \E o \in Ops :
    \/ \E a \in Apps : Accept(o, a)
    \/ Select(o) \/ Succeed(o) \/ Fail(o)

Spec == Init /\ [][Next]_vars

=============================================================================
