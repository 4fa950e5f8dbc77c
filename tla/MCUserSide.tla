------------------------------- MODULE MCUserSide -------------------------------
(***************************************************************************)
(* The components that a user meets, on small instances for TLC: the       *)
(* packaging of the source, the deploy command, an app's log and its       *)
(* redaction, and who may use an app.  They share no state, so that each   *)
(* behaviour is one of one of them, and their states add up.               *)
(***************************************************************************)
EXTENDS SourcePackage, DeployClient, Diagnostics, Redactor, AppAccess

ASSUME UserSideAssumption ==
  /\ MaxEdits \in Nat /\ MaxRuns \in Nat
  /\ Volume \in Nat /\ Sizes \subseteq 1..Volume /\ 1 \in Sizes /\ PageLimit \in Nat \ {0}
  /\ Newline \in Bytes /\ SecretValues \subseteq Seq(Bytes) \ {<<>>} /\ MaxBytes \in Nat
  /\ Owner \in [Apps -> Users] /\ MaxFlows \in Nat

VARIABLE component   \* the one that this behaviour is of

vars == <<component, packageVars, deployVars, logVars, redactionVars, accessVars>>

MCOwner == [a \in Apps |-> "owner"]

MCSecretValues == {<<"a", "b">>, <<"a", "b", "a">>, <<"a", "n", "b">>}

Init ==
  /\ component \in {"package", "deploy", "log", "redaction", "access"}
  /\ PackageInit /\ (component # "package" => files[Ignore] = NoFile)
  /\ DeployInit /\ (component # "deploy" => ~otherBuild)
  /\ LogInit /\ AccessInit
  /\ IF component = "redaction" THEN RedactionInit
     ELSE /\ source = "build" /\ text = <<>> /\ known = <<>>
          /\ arrived = 0 /\ held = 1 /\ shown = {} /\ closed = FALSE

Next ==
  /\ UNCHANGED component
  /\ \/ /\ component = "package" /\ PackageNext
        /\ UNCHANGED <<deployVars, logVars, redactionVars, accessVars>>
     \/ /\ component = "deploy" /\ DeployNext
        /\ UNCHANGED <<packageVars, logVars, redactionVars, accessVars>>
     \/ /\ component = "log" /\ LogNext
        /\ UNCHANGED <<packageVars, deployVars, redactionVars, accessVars>>
     \/ /\ component = "redaction" /\ RedactionNext
        /\ UNCHANGED <<packageVars, deployVars, logVars, accessVars>>
     \/ /\ component = "access" /\ AccessNext
        /\ UNCHANGED <<packageVars, deployVars, logVars, redactionVars>>

Spec == Init /\ [][Next]_vars

=============================================================================
