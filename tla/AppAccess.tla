-------------------------------- MODULE AppAccess --------------------------------
(***************************************************************************)
(* Who uses an app, and with which authority: the sign-in of a browser to  *)
(* an app (identity/gateway.py callback and route), and what its owner     *)
(* shares (identity/publishing.py share, identity/app_secrets.py change).  *)
(* A row of app_oauth and the session that comes of it have one number.    *)
(***************************************************************************)
EXTENDS Naturals

CONSTANTS
  Apps, Browsers,
  Users,       \* the admitted users, each with a Google account
  Owner,       \* Owner[a]
  SecretNames, \* the names of secrets
  MaxFlows     \* bound: the sign-ins that are begun

VARIABLES
  flows,       \* app_oauth, with the account that its callback was made with
  flowCookie,  \* the flow cookie of each browser at each app, or 0
  cookie,      \* its session cookie there
  sessions,    \* app_sessions
  scope,       \* apps.sharing_scope
  secrets      \* app_secrets, with whether the owner acknowledged what sharing them means

signInVars == <<flows, flowCookie, cookie, sessions>>
sharingVars == <<scope, secrets>>
accessVars == <<signInVars, sharingVars>>

Flows == 1..MaxFlows
NoFlow == [stage |-> "none"]
NoSession == [state |-> "none"]

AccessInit ==
  /\ flows = [f \in Flows |-> NoFlow] /\ sessions = [f \in Flows |-> NoSession]
  /\ flowCookie = [b \in Browsers |-> [a \in Apps |-> 0]]
  /\ cookie = [b \in Browsers |-> [a \in Apps |-> 0]]
  /\ scope = [a \in Apps |-> "creator-only"]
  /\ secrets = [a \in Apps |-> [n \in SecretNames |-> "none"]]

(***************************************************************************)
(* Sign-in                                                                 *)
(***************************************************************************)

\* check_access
Accessible(app, user) == user = Owner[app] \/ scope[app] = "workspace-wide"

SignedIn(b, app) ==
  LET s == cookie[b][app] IN s # 0 /\ sessions[s].state = "live" /\ sessions[s].app = app

\* A browser without a session asks for a page of the app and is sent to Google.
Visit(b, app) ==
  /\ ~SignedIn(b, app)
  /\ \E f \in Flows :
       /\ flows[f] = NoFlow /\ \A g \in 1..f - 1 : flows[g] # NoFlow
       /\ flows' = [flows EXCEPT ![f] = [stage |-> "open", browser |-> b, app |-> app]]
       /\ flowCookie' = [flowCookie EXCEPT ![b][app] = f]
  /\ UNCHANGED <<cookie, sessions, sharingVars>>

\* Google sends whichever browser the address was opened in back to the callback,
\* with whichever account it is signed in there.  The flow is pending before the
\* account is bound, so that a second callback finds none.
Callback(f) ==
  /\ flows[f].stage = "open"
  /\ \E user \in Users :
       flows' = [flows EXCEPT ![f] = [stage |-> "pending", browser |-> @.browser,
                                      app |-> @.app, account |-> user]]
  /\ UNCHANGED <<flowCookie, cookie, sessions, sharingVars>>

\* The second transaction of the callback, once the account is bound.  A user without
\* access is refused, and the flow stays pending.  Whether its time is over is not
\* asked again: then there is a session that no browser gets.
Issue(f) ==
  /\ flows[f].stage \in {"pending", "late"} /\ Accessible(flows[f].app, flows[f].account)
  /\ flows' = [flows EXCEPT ![f].stage = IF @ = "pending" THEN "handed" ELSE "expired"]
  /\ sessions' = [sessions EXCEPT ![f] =
       [state |-> "live", app |-> flows[f].app, user |-> flows[f].account]]
  /\ UNCHANGED <<flowCookie, cookie, sharingVars>>

\* A faulty variant that takes the code of the link for enough.
HandedTo(f, b, app) == flows[f].stage = "handed" /\ flows[f].app = app

\* The link with the code must be opened where the flow began.
FinishesOwn(f, b, app) ==
  flows[f].stage = "handed" /\ flows[f].app = app /\ flowCookie[b][app] = f

FinishSignIn(f, b, app) ==
  /\ FinishesOwn(f, b, app)
  /\ flows' = [flows EXCEPT ![f].stage = "finished"]
  /\ cookie' = [cookie EXCEPT ![b][app] = f]
  /\ UNCHANGED <<flowCookie, sessions, sharingVars>>

\* Ten minutes are over; its callback may be on its way.
FlowExpires(f) ==
  /\ flows[f].stage \in {"open", "pending", "handed"}
  /\ flows' = [flows EXCEPT ![f].stage = IF @ = "pending" THEN "late" ELSE "expired"]
  /\ UNCHANGED <<flowCookie, cookie, sessions, sharingVars>>

\* Twelve hours are over.
SessionExpires(f) ==
  /\ sessions[f].state = "live"
  /\ sessions' = [sessions EXCEPT ![f].state = "expired"]
  /\ UNCHANGED <<flows, flowCookie, cookie, sharingVars>>

(***************************************************************************)
(* Sharing: a request that is refused, or has its receipt, does nothing    *)
(***************************************************************************)

HasSecrets(app) == \E n \in SecretNames : secrets[app][n] # "none"

\* Publishing.share: an acknowledgement is about all the secrets there are.
Share(app, to, acknowledged) ==
  /\ to = "workspace-wide" /\ HasSecrets(app) => acknowledged
  /\ scope' = [scope EXCEPT ![app] = to]
  /\ secrets' = [secrets EXCEPT ![app] =
       [n \in SecretNames |-> IF @[n] # "none" /\ acknowledged THEN "acknowledged" ELSE @[n]]]
  /\ UNCHANGED signInVars

MaySet(app, name, acknowledged) == scope[app] = "workspace-wide" => acknowledged

\* Vault.change with "set"; that no operation is in progress is part of Publishing.
SetSecret(app, name, acknowledged) ==
  /\ MaySet(app, name, acknowledged)
  /\ secrets' = [secrets EXCEPT ![app][name] =
       IF acknowledged THEN "acknowledged" ELSE "unacknowledged"]
  /\ UNCHANGED <<signInVars, scope>>

DeleteSecret(app, name) ==
  /\ secrets' = [secrets EXCEPT ![app][name] = "none"]
  /\ UNCHANGED <<signInVars, scope>>

AccessNext ==
  \/ \E b \in Browsers, app \in Apps : Visit(b, app)
  \/ \E f \in Flows :
       \/ Callback(f) \/ Issue(f) \/ FlowExpires(f) \/ SessionExpires(f)
       \/ \E b \in Browsers, app \in Apps : FinishSignIn(f, b, app)
  \/ \E app \in Apps, acknowledged \in BOOLEAN :
       \/ \E to \in {"creator-only", "workspace-wide"} : Share(app, to, acknowledged)
       \/ \E n \in SecretNames : SetSecret(app, n, acknowledged) \/ DeleteSecret(app, n)

AccessSpec == AccessInit /\ [][AccessNext]_accessVars

-----------------------------------------------------------------------------
(***************************************************************************)
(* Properties                                                              *)
(***************************************************************************)

\* A session that a browser can use came of a sign-in that this browser began at this
\* app, it is the user's whose account Google vouched for, and no other browser
\* holds it.
SessionsAreOwn ==
  \A b \in Browsers, app \in Apps :
    SignedIn(b, app) =>
      LET s == cookie[b][app]
      IN  /\ flows[s].browser = b /\ flows[s].app = app
          /\ sessions[s].user = flows[s].account
          /\ \A c \in Browsers, other \in Apps :
               cookie[c][other] = s => c = b /\ other = app

\* Members only use values of which the owner acknowledged it, in whatever order the
\* app is shared, hidden and shared again and its secrets are set, replaced and removed.
SharedIsAcknowledged ==
  \A app \in Apps, n \in SecretNames :
    scope[app] = "workspace-wide" => secrets[app][n] \in {"none", "acknowledged"}

\* Whoever uses an app is who signed in there, and has the authority that its owner
\* gave away (gateway.py:45-123, publishing.py:127-160, app_secrets.py:111).
AuthorityIsMeant == SessionsAreOwn /\ SharedIsAcknowledged

=============================================================================
