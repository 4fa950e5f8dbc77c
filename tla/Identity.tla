------------------------------- MODULE Identity -------------------------------
(***************************************************************************)
(* The identity store of identity/store.py: the rows for users, workspaces,*)
(* memberships and CLI credentials, and what its transactions share.  A    *)
(* row is its position in its table; user 1 is the operator of bootstrap,  *)
(* workspace 1 the initial workspace.                                      *)
(***************************************************************************)
EXTENDS Naturals, Sequences, FiniteSets

CONSTANTS
  Emails,          \* email addresses
  OperatorEmail,   \* the one that bootstrap was given
  Accounts,        \* Google accounts, known by their subject
  OperatorAccount, \* the one of the operator
  Logins,          \* CLI logins, known by their poll secret
  Nothing,         \* NULL
  CreatorLimit     \* five creator grants

ASSUME IdentityAssumption ==
  /\ OperatorEmail \in Emails /\ OperatorAccount \in Accounts
  /\ Nothing \notin Emails \cup Accounts \cup Logins
  /\ CreatorLimit \in Nat \ {0}

VARIABLES
  users,        \* admission email, current email, subject, saved workspace
  workspaces,   \* the owner of each
  memberships,  \* <<workspace, user, role>>
  credentials   \* user, the login it was issued for, state

identityVars == <<users, workspaces, memberships, credentials>>

Operator == 1
Roles == {"member", "creator", "administrator"}
User == [admission : Emails, email : Emails, subject : Accounts \cup {Nothing}, home : Nat]
Credential == [user : Nat, login : Logins \cup {Nothing}, state : {"live", "revoked", "expired"}]

IdentityTypeOK ==
  /\ users \in Seq(User) /\ \A u \in DOMAIN users : users[u].home \in DOMAIN workspaces
  /\ workspaces \in Seq(Nat) /\ \A w \in DOMAIN workspaces : workspaces[w] \in DOMAIN users
  /\ memberships \subseteq (DOMAIN workspaces) \X (DOMAIN users) \X Roles
  /\ credentials \in Seq(Credential)
  /\ \A c \in DOMAIN credentials : credentials[c].user \in DOMAIN users

\* bootstrap ran, and the operator has signed in on one machine.
IdentityInit ==
  /\ users = <<[admission |-> OperatorEmail, email |-> OperatorEmail,
                subject |-> OperatorAccount, home |-> 1]>>
  /\ workspaces = <<Operator>>
  /\ memberships = {<<1, Operator, role>> : role \in Roles}
  /\ credentials = <<[user |-> Operator, login |-> Nothing, state |-> "live"]>>

Has(w, u, role) == <<w, u, role>> \in memberships
Admitted(u) == \E w \in DOMAIN workspaces : Has(w, u, "member")
Authentic(c) == credentials[c].state = "live"
Creators == {m \in memberships : m[3] = "creator"}

\* A faulty variant that counts one grant too late.
RoomForAnother == Cardinality(Creators) <= CreatorLimit

CreatorRoom == Cardinality(Creators) < CreatorLimit

\* Those whom an email names: by admission or as their current address.
Named(e) == {u \in DOMAIN users : e \in {users[u].admission, users[u].email}}

\* admit: the user whom the email names, or a new one; refused if it names two.
Admit(w, e, roles) ==
  /\ Cardinality(Named(e)) <= 1
  /\ \E u \in (IF Named(e) = {} THEN {Len(users) + 1} ELSE Named(e)) :
       /\ memberships' = memberships \cup {<<w, u, role>> : role \in roles}
       /\ workspaces' = IF w \in DOMAIN workspaces THEN workspaces ELSE Append(workspaces, u)
  /\ users' = IF Named(e) = {}
              THEN Append(users, [admission |-> e, email |-> e, subject |-> Nothing, home |-> w])
              ELSE users

Issue(u, l) == credentials' = Append(credentials, [user |-> u, login |-> l, state |-> "live"])

Revoke(cs) ==
  credentials' = [c \in DOMAIN credentials |->
                    IF c \in cs THEN [credentials[c] EXCEPT !.state = "revoked"] ELSE credentials[c]]

\* Thirty days pass.
CredentialExpires(c) ==
  /\ Authentic(c)
  /\ credentials' = [credentials EXCEPT ![c].state = "expired"]
  /\ UNCHANGED <<users, workspaces, memberships>>

=============================================================================
