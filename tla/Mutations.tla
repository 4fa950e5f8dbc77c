------------------------------ MODULE Mutations ------------------------------
(***************************************************************************)
(* The requests that change identities (identity/store.py mutate), each    *)
(* with a request ID: it may be delivered at any time and again, and its   *)
(* receipt is kept for seven days.                                         *)
(***************************************************************************)
EXTENDS Identity

CONSTANTS
  Requests,       \* request IDs
  MaxWorkspaces   \* a bound

ASSUME MutationAssumption == MaxWorkspaces \in Nat

VARIABLES
  requests,   \* the operation, its credential, its workspace, its argument
  receipts,   \* the requests whose result is kept
  forgotten,  \* those whose receipt has expired
  effects     \* how often each took effect

mutationVars == <<requests, receipts, forgotten, effects>>

Kinds == {"logout", "revoke", "create", "select", "add", "grant"}
Unsent == [kind |-> "none", credential |-> 0, workspace |-> 0, argument |-> Nothing]
Ordinals == 1..MaxWorkspaces

MutationTypeOK ==
  /\ requests \in [Requests -> [kind : Kinds \cup {"none"}, credential : 0..Len(credentials),
                                workspace : 0..Len(workspaces), argument : Emails \cup {Nothing} \cup Nat]]
  /\ receipts \subseteq Requests /\ forgotten \subseteq Requests
  /\ effects \in [Requests -> Nat]

MutationInit ==
  /\ requests = [r \in Requests |-> Unsent]
  /\ receipts = {} /\ forgotten = {}
  /\ effects = [r \in Requests |-> 0]

\* What a user asks for: an email, a workspace or a user; administration
\* names its workspace.
Arguments(kind) ==
  CASE kind \in {"logout", "revoke"} -> {Nothing}
    [] kind \in {"create", "add"} -> Emails
    [] kind = "select" -> Ordinals
    [] kind = "grant" -> DOMAIN users

\* A request ID is used for one request.
Send(r, c, kind) ==
  /\ requests[r] = Unsent
  /\ \E a \in Arguments(kind), w \in IF kind \in {"add", "grant"} THEN DOMAIN workspaces ELSE {0} :
       requests' = [requests EXCEPT ![r] = [kind |-> kind, credential |-> c, workspace |-> w, argument |-> a]]
  /\ UNCHANGED <<identityVars, receipts, forgotten, effects>>

Actor(r) == credentials[requests[r].credential].user
Accepted(r) == Authentic(requests[r].credential)

\* A request of the kind whose result is not known; the others are answered
\* with the receipt, or refused, and change nothing.
Fresh(r, kind) == requests[r].kind = kind /\ r \notin receipts

Done(r) ==
  /\ receipts' = receipts \cup {r}
  /\ effects' = [effects EXCEPT ![r] = @ + 1]
  /\ UNCHANGED <<requests, forgotten>>

\* Leaving is allowed with a credential that is revoked or has expired.
Logout(r) ==
  /\ Fresh(r, "logout") /\ Revoke({requests[r].credential}) /\ Done(r)
  /\ UNCHANGED <<users, workspaces, memberships>>

\* A faulty variant that lets a revoked credential do so.
LetIn(r) == TRUE

\* Revoking all is not, unless the receipt tells that it was done.
MayRevoke(r) == Accepted(r)

RevokeAll(r) ==
  /\ Fresh(r, "revoke") /\ MayRevoke(r)
  /\ Revoke({c \in DOMAIN credentials : credentials[c].user = Actor(r)}) /\ Done(r)
  /\ UNCHANGED <<users, workspaces, memberships>>

\* By the platform's administrator; the limit counts the grants before it.
CreateWorkspace(r) ==
  /\ Fresh(r, "create") /\ Accepted(r) /\ Actor(r) = Operator
  /\ Len(workspaces) < MaxWorkspaces
  /\ CreatorRoom
  /\ Admit(Len(workspaces) + 1, requests[r].argument, Roles) /\ Done(r)
  /\ UNCHANGED credentials

\* A faulty variant that looks for the workspace only.
Exists(u, w) == w \in DOMAIN workspaces

MaySelect(u, w) == w \in DOMAIN workspaces /\ Has(w, u, "member")

SelectWorkspace(r) ==
  /\ Fresh(r, "select") /\ Accepted(r) /\ MaySelect(Actor(r), requests[r].argument)
  /\ users' = [users EXCEPT ![Actor(r)].home = requests[r].argument] /\ Done(r)
  /\ UNCHANGED <<workspaces, memberships, credentials>>

Administers(r) == \A role \in {"member", "administrator"} : Has(requests[r].workspace, Actor(r), role)

AddMember(r) ==
  /\ Fresh(r, "add") /\ Accepted(r) /\ Administers(r)
  /\ Admit(requests[r].workspace, requests[r].argument, {"member"}) /\ Done(r)
  /\ UNCHANGED credentials

\* A member who has signed in, within the limit unless the grant is there.
GrantCreator(r) ==
  LET w == requests[r].workspace  u == requests[r].argument IN
  /\ Fresh(r, "grant") /\ Accepted(r) /\ Administers(r)
  /\ Has(w, u, "member") /\ users[u].subject # Nothing
  /\ Has(w, u, "creator") \/ CreatorRoom
  /\ memberships' = memberships \cup {<<w, u, "creator">>} /\ Done(r)
  /\ UNCHANGED <<users, workspaces, credentials>>

\* Seven days pass.
ReceiptExpires(r) ==
  /\ r \in receipts \ forgotten
  /\ receipts' = receipts \ {r} /\ forgotten' = forgotten \cup {r}
  /\ UNCHANGED <<identityVars, requests, effects>>

Handle(r) ==
  \/ Logout(r) \/ RevokeAll(r) \/ CreateWorkspace(r)
  \/ SelectWorkspace(r) \/ AddMember(r) \/ GrantCreator(r)

=============================================================================
