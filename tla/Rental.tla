------------------------------- MODULE Rental -------------------------------
(***************************************************************************)
(* What the builders promise about the machine and the account of a build, *)
(* with no command, lock, file or coordinator in it.  A machine is rented  *)
(* once, and what is settled after its return is never opened again.  A    *)
(* build runs on its rented machine only, once, and not after it was found *)
(* never to have run; that, or that it was charged for, is said once, and  *)
(* charged is only what is over, when the machine has been returned.       *)
(***************************************************************************)
CONSTANT Jobs

VARIABLES
  rental,    \* "none", "rented", "returned", or "settled"
  progress,  \* "waiting", "running", or "over"
  account    \* "open", "free", or "charged"

vars == <<rental, progress, account>>

Init ==
  /\ rental = [j \in Jobs |-> "none"]
  /\ progress = [j \in Jobs |-> "waiting"]
  /\ account = [j \in Jobs |-> "open"]

Rent(j) ==
  /\ rental[j] = "none"
  /\ rental' = [rental EXCEPT ![j] = "rented"]
  /\ UNCHANGED <<progress, account>>

\* The machine goes, and whatever runs on it.
Return(j) ==
  /\ rental[j] = "rented"
  /\ rental' = [rental EXCEPT ![j] = "returned"]
  /\ progress' = IF progress[j] = "running" THEN [progress EXCEPT ![j] = "over"] ELSE progress
  /\ UNCHANGED account

Begin(j) ==
  /\ rental[j] = "rented" /\ progress[j] = "waiting" /\ account[j] = "open"
  /\ progress' = [progress EXCEPT ![j] = "running"]
  /\ UNCHANGED <<rental, account>>

End(j) ==
  /\ progress[j] = "running"
  /\ progress' = [progress EXCEPT ![j] = "over"]
  /\ UNCHANGED <<rental, account>>

\* It is said that the build never ran.
Excuse(j) ==
  /\ progress[j] = "waiting" /\ account[j] = "open"
  /\ account' = [account EXCEPT ![j] = "free"]
  /\ UNCHANGED <<rental, progress>>

\* The returned machine is settled, and its build with it, unless that never is:
\* its evidence may be lost.
Settle(j) ==
  /\ rental[j] = "returned"
  /\ rental' = [rental EXCEPT ![j] = "settled"]
  /\ \/ UNCHANGED account
     \/ progress[j] = "waiting" /\ account[j] = "open" /\ account' = [account EXCEPT ![j] = "free"]
     \/ progress[j] = "over" /\ account[j] = "open" /\ account' = [account EXCEPT ![j] = "charged"]
  /\ UNCHANGED progress

Next ==
  \E j \in Jobs : Rent(j) \/ Return(j) \/ Begin(j) \/ End(j) \/ Excuse(j) \/ Settle(j)

Spec == Init /\ [][Next]_vars

=============================================================================
