------------------------------- MODULE Accounts -------------------------------
(***************************************************************************)
(* The identity service: sign-ins and requests that change identities, on  *)
(* one store.                                                              *)
(***************************************************************************)
EXTENDS SignIn, Mutations

vars == <<identityVars, signInVars, mutationVars>>

TypeOK == IdentityTypeOK /\ SignInTypeOK /\ MutationTypeOK

Init == IdentityInit /\ SignInInit /\ MutationInit

\* The credentials that are saved on some machine.
Saved(c) == credentials[c].login = Nothing \/ clients[credentials[c].login].at = "saved"

Next ==
  \/ SignInNext /\ UNCHANGED mutationVars
  \/ \E c \in DOMAIN credentials : CredentialExpires(c) /\ UNCHANGED <<signInVars, mutationVars>>
  \/ \E r \in Requests, kind \in Kinds :
       \E c \in {d \in DOMAIN credentials : Saved(d)} : Send(r, c, kind) /\ UNCHANGED signInVars
  \/ \E r \in Requests : (Handle(r) \/ ReceiptExpires(r)) /\ UNCHANGED signInVars

Spec == Init /\ [][Next]_vars

-----------------------------------------------------------------------------

IssuedBy(l) == {c \in DOMAIN credentials : credentials[c].login = l}

\* The row of a login with its credential, and its client, as the promise reads them.
StageOf(l) ==
  CASE logins[l].stage = "none" -> "new"
    [] logins[l].stage = "pending" -> IF logins[l].shown = 0 THEN "open" ELSE "agreed"
    [] OTHER -> "closed"

LoginOf(l) ==
  LET issued == IssuedBy(l) IN
  IF issued = {} THEN [is |-> StageOf(l), by |-> logins[l].shown]
  ELSE LET c == CHOOSE d \in issued : TRUE IN
       [is |-> IF Authentic(c) THEN "live" ELSE "ended", by |-> credentials[c].user]

ClientOf(l) ==
  CASE clients[l].at \in {"saving", "undoing", "unconfirmed"} -> "holding"
    [] clients[l].at = "saved" -> "saved"
    [] clients[l].at = "revoked" -> "gave up"
    [] OTHER -> "without"

Delegated ==
  INSTANCE Delegation
    WITH Nobody <- 0,
         login <- [l \in Logins |-> LoginOf(l)],
         client <- [l \in Logins |-> ClientOf(l)]

\* Sign-ins keep the promise of module Delegation: one person, whom the approval
\* form named, agrees to a login, once; it gives the authority of that person, once,
\* to its client; authority that ended stays so, and all of a person's ends at once
\* when he revokes it: "stale forms from a previous account cannot approve under
\* the new identity" (docs/contracts.md).
DelegatesOnce == Delegated!Spec

\* A credential that a login delivered is for the user whom the approval form
\* named when it was opened, although the session of the browser may have
\* changed since: "stale forms from a previous account cannot approve under
\* the new identity" (docs/contracts.md).
ApprovedAsShown ==
  \A c \in DOMAIN credentials :
    credentials[c].login # Nothing => credentials[c].user = logins[credentials[c].login].shown

\* A session belongs to a user whom the account that opened it is bound to,
\* wherever email addresses have moved: "subsequent email changes cannot change
\* account ownership" (docs/contracts.md).
SessionsKeepTheirAccount ==
  \A s \in DOMAIN sessions : users[sessions[s].user].subject = sessions[s].account

\* Polls may be repeated, late, or unheard: a login delivers one credential at
\* most, the client that was sent one was sent that, and it is over once the
\* client reports it revoked.
DeliveredOnce ==
  \A l \in Logins :
    LET issued == IssuedBy(l) IN
    /\ Cardinality(issued) <= 1
    /\ clients[l].at \in {"saving", "undoing", "saved", "revoked", "unconfirmed"}
         => issued = {clients[l].credential}
    /\ clients[l].at = "revoked" => \A c \in issued : ~Authentic(c)

\* A request takes effect once while its receipt is kept, and once more at
\* most when it is sent again after seven days; "revoke all" never does that,
\* so that a late copy cannot end sessions that came after it.
TakesEffectOnce ==
  \A r \in Requests :
    effects[r] <= IF requests[r].kind # "revoke" /\ r \in forgotten THEN 2 ELSE 1

\* What the migration demands of the tables when the service starts again
\* (identity/workspaces.py), whatever requests they served: each owner is an
\* administrator of the workspace, each saved workspace has its user.
RestartSucceeds ==
  /\ \A w \in DOMAIN workspaces : Has(w, workspaces[w], "member") /\ Has(w, workspaces[w], "administrator")
  /\ \A u \in DOMAIN users : Has(users[u].home, u, "member")

\* New workspaces and grants, over all workspaces, stay within the creators.
CreatorsWithinLimit == Cardinality(Creators) <= CreatorLimit

=============================================================================
