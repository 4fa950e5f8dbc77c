---------------------------- MODULE AccountsProofs ----------------------------
(***************************************************************************)
(* Invariants of Accounts for every set of emails, accounts, logins,       *)
(* browsers and requests, and every limit.  Tables only grow, and what a   *)
(* row says of its user, login or account stays (Growth); the rest follows *)
(* from what an open form, a login and a request still promise.            *)
(***************************************************************************)
EXTENDS Accounts, SequenceTheorems, FiniteSetTheorems, TLAPS

(***************************************************************************)
(* Tables                                                                  *)
(***************************************************************************)

\* A row is added at the end of a table (the inserts of store.py).
LEMMA RowAdded ==
  ASSUME NEW S, NEW t \in Seq(S), NEW e \in S
  PROVE  /\ Append(t, e) \in Seq(S)
         /\ Len(t) \in Nat /\ Len(Append(t, e)) = Len(t) + 1
         /\ DOMAIN t = 1..Len(t) /\ DOMAIN Append(t, e) = 1..Len(t) + 1
         /\ \A i \in DOMAIN t : Append(t, e)[i] = t[i]
         /\ Append(t, e)[Len(t) + 1] = e
  BY AppendProperties, LenProperties

\* Rows of a table are changed (the updates of store.py).
LEMMA RowsChanged ==
  ASSUME NEW S, NEW t \in Seq(S), NEW u \in [DOMAIN t -> S]
  PROVE  u \in Seq(S) /\ DOMAIN u = DOMAIN t /\ Len(u) = Len(t)
  <1>1. Len(t) \in Nat /\ DOMAIN t = 1..Len(t)
    BY LenProperties
  <1>2. u \in Seq(S)
    BY <1>1, SeqDef
  <1>3. Len(u) \in Nat /\ 1..Len(u) = 1..Len(t)
    BY <1>1, <1>2, LenProperties
  <1> QED
    BY <1>1, <1>2, <1>3

\* Tables only grow, and rows keep what others rely on.
IdentityGrows ==
  /\ DOMAIN users \subseteq DOMAIN users' /\ Len(users) <= Len(users')
  /\ DOMAIN workspaces \subseteq DOMAIN workspaces' /\ Len(workspaces) <= Len(workspaces')
  /\ \A w \in DOMAIN workspaces : workspaces'[w] = workspaces[w]
  /\ memberships \subseteq memberships'
  /\ DOMAIN credentials \subseteq DOMAIN credentials' /\ Len(credentials) <= Len(credentials')
  /\ \A c \in DOMAIN credentials :
       /\ credentials'[c].user = credentials[c].user
       /\ credentials'[c].login = credentials[c].login
       /\ ~Authentic(c) => ~Authentic(c)'

\* Nothing grows when the identity store is left alone.
LEMMA Unchanged ==
  ASSUME IdentityTypeOK, UNCHANGED identityVars
  PROVE  IdentityTypeOK' /\ IdentityGrows
  BY LenProperties
    DEF IdentityTypeOK, IdentityGrows, identityVars, Authentic, User, Credential, Roles

\* A credential is issued for a user and a login.
LEMMA IssueGrows ==
  ASSUME IdentityTypeOK, NEW u \in DOMAIN users, NEW l \in Logins, Issue(u, l),
         UNCHANGED <<users, workspaces, memberships>>
  PROVE  IdentityTypeOK' /\ IdentityGrows
  <1> DEFINE row == [user |-> u, login |-> l, state |-> "live"]
  <1>1. row \in Credential
    BY LenProperties DEF Credential, IdentityTypeOK
  <1>2. credentials' = Append(credentials, row)
    BY DEF Issue
  <1> HIDE DEF row
  <1>3. /\ credentials' \in Seq(Credential)
        /\ Len(credentials) \in Nat /\ Len(credentials') = Len(credentials) + 1
        /\ DOMAIN credentials = 1..Len(credentials) /\ DOMAIN credentials' = 1..Len(credentials) + 1
        /\ \A c \in DOMAIN credentials : credentials'[c] = credentials[c]
        /\ credentials'[Len(credentials) + 1] = row
    <2>1. credentials \in Seq(Credential)
      BY DEF IdentityTypeOK
    <2> QED
      BY <1>1, <1>2, <2>1, RowAdded
  <1>4. row.user = u
    BY DEF row
  <1>5. Len(users) \in Nat /\ Len(workspaces) \in Nat
    BY LenProperties DEF IdentityTypeOK
  <1>6. IdentityTypeOK'
    <2>1. \A c \in DOMAIN credentials' : credentials'[c].user \in DOMAIN users'
      <3> SUFFICES ASSUME NEW c \in DOMAIN credentials' PROVE credentials'[c].user \in DOMAIN users
        OBVIOUS
      <3>1. CASE c \in DOMAIN credentials
        BY <1>3, <3>1 DEF IdentityTypeOK
      <3>2. CASE c = Len(credentials) + 1
        BY <1>3, <1>4, <3>2
      <3> QED
        BY <1>3, <3>1, <3>2
    <2> QED
      BY <1>3, <2>1 DEF IdentityTypeOK
  <1>7. \A c \in DOMAIN credentials : ~Authentic(c) => ~Authentic(c)'
    BY <1>3 DEF Authentic
  <1>8. IdentityGrows
    BY <1>3, <1>5, <1>7 DEF IdentityGrows
  <1> QED
    BY <1>6, <1>8

\* Credentials are revoked or expire; none comes back to life.
LEMMA StatesChange ==
  ASSUME IdentityTypeOK, NEW f \in [DOMAIN credentials -> {"live", "revoked", "expired"}],
         credentials' = [c \in DOMAIN credentials |-> [credentials[c] EXCEPT !.state = f[c]]],
         \A c \in DOMAIN credentials : f[c] = "live" => credentials[c].state = "live",
         UNCHANGED <<users, workspaces, memberships>>
  PROVE  IdentityTypeOK' /\ IdentityGrows
  <1>1. credentials \in [DOMAIN credentials -> Credential]
    BY LenProperties DEF IdentityTypeOK
  <1>2. credentials' \in [DOMAIN credentials -> Credential]
    BY <1>1 DEF Credential
  <1>3. /\ credentials' \in Seq(Credential)
        /\ DOMAIN credentials' = DOMAIN credentials /\ Len(credentials') = Len(credentials)
    BY <1>2, RowsChanged DEF IdentityTypeOK
  <1>4. Len(users) \in Nat /\ Len(workspaces) \in Nat /\ Len(credentials) \in Nat
    BY LenProperties DEF IdentityTypeOK
  <1>5. \A c \in DOMAIN credentials :
           /\ credentials'[c].user = credentials[c].user
           /\ credentials'[c].login = credentials[c].login
           /\ ~Authentic(c) => ~Authentic(c)'
    BY <1>1 DEF Credential, Authentic
  <1>6. IdentityTypeOK'
    BY <1>3, <1>5 DEF IdentityTypeOK
  <1>7. Len(credentials) <= Len(credentials') /\ Len(users) <= Len(users') /\ Len(workspaces) <= Len(workspaces')
    BY <1>3, <1>4
  <1>8. IdentityGrows
    BY <1>3, <1>5, <1>7 DEF IdentityGrows
  <1> QED
    BY <1>6, <1>8

\* Some credentials are revoked.
LEMMA RevokeGrows ==
  ASSUME IdentityTypeOK, NEW cs, Revoke(cs), UNCHANGED <<users, workspaces, memberships>>
  PROVE  IdentityTypeOK' /\ IdentityGrows
  <1> DEFINE f == [c \in DOMAIN credentials |-> IF c \in cs THEN "revoked" ELSE credentials[c].state]
  <1>1. credentials \in [DOMAIN credentials -> Credential]
    BY LenProperties DEF IdentityTypeOK
  <1>2. f \in [DOMAIN credentials -> {"live", "revoked", "expired"}]
    BY <1>1 DEF Credential
  <1>3. \A c \in DOMAIN credentials : credentials[c] = [credentials[c] EXCEPT !.state = credentials[c].state]
    BY <1>1 DEF Credential
  <1>4. credentials' = [c \in DOMAIN credentials |-> [credentials[c] EXCEPT !.state = f[c]]]
    BY <1>3 DEF Revoke
  <1>5. \A c \in DOMAIN credentials : f[c] = "live" => credentials[c].state = "live"
    OBVIOUS
  <1> QED
    BY <1>2, <1>4, <1>5, StatesChange

\* One credential expires.
LEMMA ExpiryGrows ==
  ASSUME IdentityTypeOK, NEW c \in DOMAIN credentials, CredentialExpires(c)
  PROVE  IdentityTypeOK' /\ IdentityGrows
  <1> DEFINE f == [d \in DOMAIN credentials |-> IF d = c THEN "expired" ELSE credentials[d].state]
  <1>1. credentials \in [DOMAIN credentials -> Credential]
    BY LenProperties DEF IdentityTypeOK
  <1>2. f \in [DOMAIN credentials -> {"live", "revoked", "expired"}]
    BY <1>1 DEF Credential
  <1>3. \A d \in DOMAIN credentials : credentials[d] = [credentials[d] EXCEPT !.state = credentials[d].state]
    BY <1>1 DEF Credential
  <1>4. credentials' = [d \in DOMAIN credentials |-> [credentials[d] EXCEPT !.state = f[d]]]
    BY <1>1, <1>3 DEF CredentialExpires
  <1>5. \A d \in DOMAIN credentials : f[d] = "live" => credentials[d].state = "live"
    OBVIOUS
  <1> QED
    BY <1>2, <1>4, <1>5, StatesChange DEF CredentialExpires

\* A user's row is updated: by bind_google or by workspaces/select.
LEMMA UpdateGrows ==
  ASSUME IdentityTypeOK, users' \in [DOMAIN users -> User],
         \A u \in DOMAIN users : users'[u].home \in DOMAIN workspaces,
         UNCHANGED <<workspaces, memberships, credentials>>
  PROVE  IdentityTypeOK' /\ IdentityGrows
  <1>1. users' \in Seq(User) /\ DOMAIN users' = DOMAIN users /\ Len(users') = Len(users)
    BY RowsChanged DEF IdentityTypeOK
  <1>2. Len(users) \in Nat /\ Len(workspaces) \in Nat /\ Len(credentials) \in Nat
    BY LenProperties DEF IdentityTypeOK
  <1>3. IdentityTypeOK'
    BY <1>1 DEF IdentityTypeOK
  <1>4. IdentityGrows
    BY <1>1, <1>2 DEF IdentityGrows, Authentic
  <1> QED
    BY <1>3, <1>4

\* What an admission of the user u changes: a new user is at home in w.
Admits(u, w, roles) ==
  /\ memberships' = memberships \cup {<<w, u, role>> : role \in roles}
  /\ w \notin DOMAIN workspaces => workspaces'[w] = u
  /\ \A v \in DOMAIN users' : v \in DOMAIN users \/ (v = u /\ users'[v].home = w)
  /\ \A v \in DOMAIN users : users'[v] = users[v]

\* An admission keeps the tables well formed, whether the email names a user or not.
LEMMA AdmitGrows ==
  ASSUME IdentityTypeOK, NEW e \in Emails, NEW roles \in SUBSET Roles,
         NEW w \in (DOMAIN workspaces) \cup {Len(workspaces) + 1},
         Admit(w, e, roles), "member" \in roles, UNCHANGED credentials
  PROVE  /\ IdentityTypeOK' /\ IdentityGrows
         /\ DOMAIN workspaces' = DOMAIN workspaces \cup {w}
         /\ \E u : Admits(u, w, roles)
  <1>1. /\ Len(users) \in Nat /\ Len(workspaces) \in Nat /\ Len(credentials) \in Nat
        /\ DOMAIN users = 1..Len(users) /\ DOMAIN workspaces = 1..Len(workspaces)
    BY LenProperties DEF IdentityTypeOK
  <1>2. PICK u \in (IF Named(e) = {} THEN {Len(users) + 1} ELSE Named(e)) :
          /\ memberships' = memberships \cup {<<w, u, role>> : role \in roles}
          /\ workspaces' = IF w \in DOMAIN workspaces THEN workspaces ELSE Append(workspaces, u)
    BY DEF Admit
  <1> DEFINE row == [admission |-> e, email |-> e, subject |-> Nothing, home |-> w]
  <1>3. row \in User /\ row.home = w
    BY <1>1 DEF User
  <1>4. users' = IF Named(e) = {} THEN Append(users, row) ELSE users
    BY DEF Admit
  <1> HIDE DEF row
  <1>5. Named(e) \subseteq DOMAIN users
    BY DEF Named
  <1>6. /\ users' \in Seq(User) /\ DOMAIN users \subseteq DOMAIN users' /\ Len(users) <= Len(users')
        /\ u \in DOMAIN users' /\ u \in Nat
        /\ \A v \in DOMAIN users : users'[v] = users[v]
        /\ \A v \in DOMAIN users' : v \in DOMAIN users \/ (v = u /\ users'[v] = row)
    <2>1. users \in Seq(User)
      BY DEF IdentityTypeOK
    <2>2. CASE Named(e) = {}
      <3>1. u = Len(users) + 1 /\ users' = Append(users, row)
        BY <1>2, <1>4, <2>2
      <3>2. /\ users' \in Seq(User) /\ DOMAIN users' = 1..Len(users) + 1
            /\ \A v \in DOMAIN users : users'[v] = users[v]
            /\ users'[Len(users) + 1] = row
            /\ Len(users') = Len(users) + 1
        BY <1>3, <2>1, <3>1, RowAdded
      <3>3. DOMAIN users \subseteq DOMAIN users' /\ Len(users) <= Len(users') /\ u \in DOMAIN users' /\ u \in Nat
        BY <1>1, <3>1, <3>2
      <3>4. \A v \in DOMAIN users' : v \in DOMAIN users \/ (v = u /\ users'[v] = row)
        <4>1. DOMAIN users' = (DOMAIN users) \cup {u}
          BY <1>1, <3>1, <3>2
        <4>2. users'[u] = row
          BY <3>1, <3>2
        <4> QED
          BY <4>1, <4>2
      <3> QED
        BY <3>2, <3>3, <3>4
    <2>3. CASE Named(e) # {}
      <3>1. u \in DOMAIN users /\ users' = users
        BY <1>2, <1>4, <1>5, <2>3
      <3>2. users' \in Seq(User) /\ DOMAIN users' = DOMAIN users /\ Len(users') = Len(users)
        BY <2>1, <3>1
      <3>3. u \in DOMAIN users' /\ u \in Nat /\ Len(users) <= Len(users')
        BY <1>1, <3>1
      <3> QED
        BY <3>1, <3>2, <3>3
    <2> QED
      BY <2>2, <2>3
  <1>7. /\ workspaces' \in Seq(Nat) /\ DOMAIN workspaces' = DOMAIN workspaces \cup {w}
        /\ Len(workspaces) <= Len(workspaces')
        /\ \A x \in DOMAIN workspaces : workspaces'[x] = workspaces[x]
        /\ w \notin DOMAIN workspaces => workspaces'[w] = u
    <2>1. workspaces \in Seq(Nat)
      BY DEF IdentityTypeOK
    <2>2. CASE w \in DOMAIN workspaces
      BY <1>1, <1>2, <2>1, <2>2
    <2>3. CASE w \notin DOMAIN workspaces
      <3>1. w = Len(workspaces) + 1 /\ workspaces' = Append(workspaces, u)
        BY <1>2, <2>3
      <3>2. /\ workspaces' \in Seq(Nat) /\ DOMAIN workspaces' = 1..Len(workspaces) + 1
            /\ \A x \in DOMAIN workspaces : workspaces'[x] = workspaces[x]
            /\ workspaces'[Len(workspaces) + 1] = u
            /\ Len(workspaces') = Len(workspaces) + 1
        BY <1>6, <2>1, <3>1, RowAdded
      <3> QED
        BY <1>1, <3>1, <3>2
    <2> QED
      BY <2>2, <2>3
  <1>8. memberships' \subseteq (DOMAIN workspaces') \X (DOMAIN users') \X Roles
    <2>1. memberships \subseteq (DOMAIN workspaces') \X (DOMAIN users') \X Roles
      BY <1>6, <1>7 DEF IdentityTypeOK
    <2>2. \A role \in roles : <<w, u, role>> \in (DOMAIN workspaces') \X (DOMAIN users') \X Roles
      BY <1>6, <1>7
    <2> QED
      BY <1>2, <2>1, <2>2
  <1>9. \A v \in DOMAIN users' : users'[v].home \in DOMAIN workspaces'
    BY <1>3, <1>6, <1>7 DEF IdentityTypeOK
  <1>10. \A x \in DOMAIN workspaces' : workspaces'[x] \in DOMAIN users'
    BY <1>6, <1>7 DEF IdentityTypeOK
  <1>11. \A c \in DOMAIN credentials' : credentials'[c].user \in DOMAIN users'
    BY <1>6 DEF IdentityTypeOK
  <1>12. IdentityTypeOK'
    <2>1. credentials' \in Seq(Credential)
      BY DEF IdentityTypeOK
    <2> QED
      BY <1>6, <1>7, <1>8, <1>9, <1>10, <1>11, <2>1 DEF IdentityTypeOK
  <1>13. IdentityGrows
    BY <1>1, <1>2, <1>6, <1>7 DEF IdentityGrows, Authentic
  <1>14. Admits(u, w, roles)
    BY <1>2, <1>3, <1>6, <1>7 DEF Admits
  <1> QED
    BY <1>7, <1>12, <1>13, <1>14

(***************************************************************************)
(* What a request carries                                                  *)
(***************************************************************************)

\* Requests that admit name an email, and all carry a credential that exists.
RequestsInv ==
  \A r \in Requests :
    /\ requests[r].kind \in {"create", "add"} => requests[r].argument \in Emails
    /\ requests[r].kind # "none" => requests[r].credential \in DOMAIN credentials

\* Every step keeps the identity store well formed, and its tables only grow.
LEMMA IdentityStep ==
  ASSUME TypeOK, RequestsInv, [Next]_vars
  PROVE  IdentityTypeOK' /\ IdentityGrows
  <1> DEFINE Goal == IdentityTypeOK' /\ IdentityGrows
  <1>1. ASSUME NEW l \in Logins, UNCHANGED mutationVars,
                StartLogin(l) \/ Ask(l) \/ StopAsking(l) \/ AttemptExpires(l) \/ PollRefused(l)
                \/ PollPending(l) \/ LoginExpires(l) \/ Save(l) \/ NotConfirmed(l) \/ Killed(l)
         PROVE Goal
    BY <1>1, Unchanged DEF
      StartLogin, Ask, StopAsking, AttemptExpires, PollRefused, PollPending, LoginExpires, Save,
      NotConfirmed, Killed, TypeOK
  <1>2. ASSUME NEW l \in Logins, Deliver(l), UNCHANGED mutationVars PROVE Goal
    <2>1. logins[l].user \in DOMAIN users
      BY <1>2, LenProperties DEF Deliver, TypeOK, SignInTypeOK, IdentityTypeOK
    <2> QED
      BY <1>2, <2>1, IssueGrows DEF Deliver, TypeOK
  <1>3. ASSUME NEW l \in Logins, RevokeUnsaved(l), UNCHANGED mutationVars PROVE Goal
    BY <1>3, RevokeGrows DEF RevokeUnsaved, TypeOK
  <1>4. ASSUME NEW b \in Browsers, NEW f \in Logins \cup {Directory}, Visit(b, f),
               UNCHANGED mutationVars
        PROVE  Goal
    BY <1>4, Unchanged DEF Visit, TypeOK
  <1>5. ASSUME NEW b \in Browsers, NEW g \in Accounts, Callback(b, g), UNCHANGED mutationVars
        PROVE  Goal
    BY <1>5, Unchanged DEF Callback, TypeOK
  <1>6. ASSUME NEW b \in Browsers, NEW l \in Logins, OpenForm(b, l), UNCHANGED mutationVars
        PROVE  Goal
    BY <1>6, Unchanged DEF OpenForm, TypeOK
  <1>7. ASSUME NEW b \in Browsers, BindRefused(b) \/ Approve(b), UNCHANGED mutationVars PROVE Goal
    BY <1>7, Unchanged DEF BindRefused, Approve, TypeOK
  <1>8. ASSUME NEW b \in Browsers, Bind(b), UNCHANGED mutationVars PROVE Goal
    <2> DEFINE claims == browsers[b].callback
    <2>1. PICK u \in Claimed(claims) :
            users' = [users EXCEPT ![u].subject = claims.account, ![u].email = claims.email]
      BY <1>8 DEF Bind
    <2>2. claims \in Callbacks /\ users \in [DOMAIN users -> User]
      BY <1>8, LenProperties DEF Bind, TypeOK, SignInTypeOK, IdentityTypeOK
    <2>3. claims.account \in Accounts /\ claims.email \in Emails
      BY <2>2 DEF Callbacks
    <2>4. users' \in [DOMAIN users -> User] /\ \A v \in DOMAIN users : users'[v].home = users[v].home
      BY <2>1, <2>2, <2>3 DEF User
    <2> QED
      BY <1>8, <2>4, UpdateGrows DEF Bind, TypeOK, IdentityTypeOK
  <1>9. ASSUME NEW s \in DOMAIN sessions, SessionExpires(s), UNCHANGED mutationVars PROVE Goal
    BY <1>9, Unchanged DEF SessionExpires, TypeOK
  <1>10. ASSUME NEW g \in Accounts, NEW e \in Emails, EmailMoves(g, e), UNCHANGED mutationVars
         PROVE  Goal
    BY <1>10, Unchanged DEF EmailMoves, TypeOK
  <1>11. ASSUME NEW c \in DOMAIN credentials, CredentialExpires(c), UNCHANGED <<signInVars, mutationVars>>
         PROVE Goal
    BY <1>11, ExpiryGrows DEF TypeOK
  <1>12. ASSUME NEW r \in Requests, NEW kind \in Kinds, NEW c \in DOMAIN credentials, Send(r, c, kind),
                UNCHANGED signInVars
         PROVE Goal
    BY <1>12, Unchanged DEF Send, TypeOK
  <1>13. ASSUME NEW r \in Requests, UNCHANGED signInVars,
                ReceiptExpires(r)
         PROVE Goal
    BY <1>13, Unchanged DEF ReceiptExpires, TypeOK
  <1>14. ASSUME NEW r \in Requests, Logout(r), UNCHANGED signInVars PROVE Goal
    BY <1>14, RevokeGrows DEF Logout, TypeOK
  <1>15. ASSUME NEW r \in Requests, RevokeAll(r), UNCHANGED signInVars PROVE Goal
    BY <1>15, RevokeGrows DEF RevokeAll, TypeOK
  <1>16. ASSUME NEW r \in Requests, CreateWorkspace(r), UNCHANGED signInVars PROVE Goal
    <2>1. requests[r].argument \in Emails
      BY <1>16 DEF CreateWorkspace, Fresh, RequestsInv
    <2> QED
      BY <1>16, <2>1, AdmitGrows DEF CreateWorkspace, TypeOK, Roles
  <1>17. ASSUME NEW r \in Requests, SelectWorkspace(r), UNCHANGED signInVars PROVE Goal
    <2> DEFINE u == Actor(r) w == requests[r].argument
    <2>1. u \in DOMAIN users /\ w \in DOMAIN workspaces /\ w \in Nat
      <3>1. <<w, u, "member">> \in memberships
        BY <1>17 DEF SelectWorkspace, MaySelect, Has
      <3>2. <<w, u, "member">> \in (DOMAIN workspaces) \X (DOMAIN users) \X Roles
        BY <3>1 DEF TypeOK, IdentityTypeOK
      <3>3. Len(workspaces) \in Nat /\ DOMAIN workspaces = 1..Len(workspaces)
        BY LenProperties DEF TypeOK, IdentityTypeOK
      <3> QED
        BY <3>2, <3>3
    <2>2. users \in [DOMAIN users -> User]
      BY LenProperties DEF TypeOK, IdentityTypeOK
    <2>3. users' = [users EXCEPT ![u].home = w]
      BY <1>17 DEF SelectWorkspace
    <2>4. users' \in [DOMAIN users -> User]
      BY <2>1, <2>2, <2>3 DEF User
    <2>5. \A v \in DOMAIN users : users'[v].home \in DOMAIN workspaces
      BY <2>1, <2>2, <2>3 DEF User, TypeOK, IdentityTypeOK
    <2> QED
      BY <1>17, <2>4, <2>5, UpdateGrows DEF SelectWorkspace, TypeOK
  <1>18. ASSUME NEW r \in Requests, AddMember(r), UNCHANGED signInVars PROVE Goal
    <2>1. requests[r].argument \in Emails
      BY <1>18 DEF AddMember, Fresh, RequestsInv
    <2>2. requests[r].workspace \in DOMAIN workspaces
      BY <1>18 DEF AddMember, Administers, Has, TypeOK, IdentityTypeOK
    <2> QED
      BY <1>18, <2>1, <2>2, AdmitGrows DEF AddMember, TypeOK, Roles
  <1>19. ASSUME NEW r \in Requests, GrantCreator(r), UNCHANGED signInVars PROVE Goal
    <2> DEFINE u == requests[r].argument w == requests[r].workspace
    <2>1. <<w, u, "member">> \in memberships
      BY <1>19 DEF GrantCreator, Has
    <2>2. w \in DOMAIN workspaces /\ u \in DOMAIN users
      BY <2>1 DEF TypeOK, IdentityTypeOK
    <2>3. memberships' = memberships \cup {<<w, u, "creator">>}
      BY <1>19 DEF GrantCreator
    <2>4. memberships' \subseteq (DOMAIN workspaces) \X (DOMAIN users) \X Roles
      <3>1. <<w, u, "creator">> \in (DOMAIN workspaces) \X (DOMAIN users) \X Roles
        BY <2>2 DEF Roles
      <3> QED
        BY <2>3, <3>1 DEF TypeOK, IdentityTypeOK
    <2>5. Len(users) \in Nat /\ Len(workspaces) \in Nat /\ Len(credentials) \in Nat
      BY LenProperties DEF TypeOK, IdentityTypeOK
    <2>6. UNCHANGED <<users, workspaces, credentials>>
      BY <1>19 DEF GrantCreator
    <2>7. IdentityTypeOK'
      BY <2>4, <2>6 DEF TypeOK, IdentityTypeOK
    <2>8. IdentityGrows
      BY <2>3, <2>5, <2>6 DEF IdentityGrows, Authentic
    <2> QED
      BY <2>7, <2>8
  <1>20. ASSUME UNCHANGED vars PROVE Goal
    BY <1>20, Unchanged DEF vars, TypeOK, identityVars
  <1> QED
    BY <1>1, <1>2, <1>3, <1>4, <1>5, <1>6, <1>7, <1>8, <1>9, <1>10, <1>11, <1>12, <1>13, <1>14,
       <1>15, <1>16, <1>17, <1>18, <1>19, <1>20
      DEF Next, SignInNext, Client, Browser, World, Handle

\* Sessions keep their user and their account.
SessionsGrow ==
  /\ DOMAIN sessions \subseteq DOMAIN sessions' /\ Len(sessions) <= Len(sessions')
  /\ \A s \in DOMAIN sessions :
       sessions'[s].user = sessions[s].user /\ sessions'[s].account = sessions[s].account

\* Sessions are added or expire; each keeps its user and its account.
LEMMA SessionStep ==
  ASSUME TypeOK, [Next]_vars
  PROVE  /\ sessions' \in Seq(Session) /\ SessionsGrow
         /\ \A s \in DOMAIN sessions' : sessions'[s].user \in DOMAIN users
  <1> DEFINE Goal == /\ sessions' \in Seq(Session) /\ SessionsGrow
                     /\ \A s \in DOMAIN sessions' : sessions'[s].user \in DOMAIN users
  <1>a. sessions \in Seq(Session)
    BY DEF TypeOK, SignInTypeOK
  <1>b. Len(sessions) \in Nat /\ DOMAIN sessions = 1..Len(sessions)
    BY <1>a, LenProperties
  <1>c. ASSUME UNCHANGED sessions PROVE Goal
    <2>1. SessionsGrow
      BY <1>b, <1>c DEF SessionsGrow
    <2> QED
      BY <1>a, <1>c, <2>1 DEF TypeOK, SignInTypeOK
  <1> HIDE DEF Goal
  <1>1. ASSUME NEW l \in Logins, UNCHANGED mutationVars,
                StartLogin(l) \/ Ask(l) \/ StopAsking(l) \/ AttemptExpires(l) \/ PollRefused(l)
                \/ PollPending(l)
                \/ Deliver(l) \/ LoginExpires(l) \/ Save(l) \/ RevokeUnsaved(l) \/ NotConfirmed(l)
                \/ Killed(l)
         PROVE Goal
    BY <1>1, <1>c DEF
      StartLogin, Ask, StopAsking, AttemptExpires, PollRefused, PollPending, Deliver,
      LoginExpires, Save, RevokeUnsaved, NotConfirmed, Killed, signInVars
  <1>2. ASSUME NEW b \in Browsers, NEW f \in Logins \cup {Directory}, Visit(b, f),
               UNCHANGED mutationVars
        PROVE  Goal
    BY <1>2, <1>c DEF Visit, signInVars
  <1>3. ASSUME NEW b \in Browsers, NEW g \in Accounts, Callback(b, g), UNCHANGED mutationVars
        PROVE  Goal
    BY <1>3, <1>c DEF Callback, signInVars
  <1>4. ASSUME NEW b \in Browsers, NEW l \in Logins, OpenForm(b, l), UNCHANGED mutationVars
        PROVE  Goal
    BY <1>4, <1>c DEF OpenForm, signInVars
  <1>5. ASSUME NEW b \in Browsers, BindRefused(b) \/ Approve(b), UNCHANGED mutationVars PROVE Goal
    BY <1>5, <1>c DEF BindRefused, Approve, signInVars
  <1>6. ASSUME NEW b \in Browsers, Bind(b), UNCHANGED mutationVars PROVE Goal
    <2> DEFINE claims == browsers[b].callback
               cookie == browsers[b].cookie
    <2>1. CASE UNCHANGED sessions
      BY <1>c, <2>1
    <2>2. CASE sessions' # sessions
      <3>1. PICK u \in Claimed(claims) :
              sessions' = Append(sessions, [user |-> u, account |-> claims.account, live |-> TRUE])
        BY <1>6, <2>2 DEF Bind
      <3> DEFINE row == [user |-> u, account |-> claims.account, live |-> TRUE]
      <3>2. claims \in Callbacks
        BY <1>6 DEF Bind, TypeOK, SignInTypeOK
      <3>3. claims.account \in Accounts
        BY <3>2 DEF Callbacks
      <3>4. u \in DOMAIN users /\ u \in Nat
        <4>1. u \in DOMAIN users
          BY DEF Claimed, Bound, Awaiting
        <4>2. DOMAIN users = 1..Len(users) /\ Len(users) \in Nat
          BY LenProperties DEF TypeOK, IdentityTypeOK
        <4> QED
          BY <4>1, <4>2
      <3>5. row \in Session /\ row.user = u
        BY <3>3, <3>4 DEF Session
      <3> HIDE DEF row
      <3>6. sessions' = Append(sessions, row)
        BY <3>1 DEF row
      <3>7. /\ sessions' \in Seq(Session)
            /\ DOMAIN sessions' = 1..Len(sessions) + 1 /\ Len(sessions') = Len(sessions) + 1
            /\ \A s \in DOMAIN sessions : sessions'[s] = sessions[s]
            /\ sessions'[Len(sessions) + 1] = row
        BY <1>a, <3>5, <3>6, RowAdded
      <3>8. \A s \in DOMAIN sessions' : sessions'[s].user \in DOMAIN users
        <4>1. DOMAIN sessions' = DOMAIN sessions \cup {Len(sessions) + 1}
          BY <1>b, <3>7
        <4> QED
          BY <3>4, <3>5, <3>7, <4>1 DEF TypeOK, SignInTypeOK
      <3>9. SessionsGrow
        BY <1>b, <3>7 DEF SessionsGrow
      <3> QED
        BY <3>7, <3>8, <3>9 DEF Goal
    <2> QED
      BY <2>1, <2>2
  <1>7. ASSUME NEW s \in DOMAIN sessions, SessionExpires(s), UNCHANGED mutationVars PROVE Goal
    <2>1. sessions \in [DOMAIN sessions -> Session]
      BY LenProperties DEF TypeOK, SignInTypeOK
    <2>2. sessions' = [sessions EXCEPT ![s].live = FALSE]
      BY <1>7 DEF SessionExpires
    <2>3. sessions' \in [DOMAIN sessions -> Session]
      BY <2>1, <2>2 DEF Session
    <2>4. sessions' \in Seq(Session) /\ DOMAIN sessions' = DOMAIN sessions /\ Len(sessions') = Len(sessions)
      BY <1>a, <2>3, RowsChanged
    <2>5. \A t \in DOMAIN sessions :
            sessions'[t].user = sessions[t].user /\ sessions'[t].account = sessions[t].account
      BY <2>1, <2>2 DEF Session
    <2>6. SessionsGrow
      BY <1>b, <2>4, <2>5 DEF SessionsGrow
    <2>7. \A t \in DOMAIN sessions' : sessions'[t].user \in DOMAIN users
      BY <2>4, <2>5 DEF TypeOK, SignInTypeOK
    <2> QED
      BY <2>4, <2>5, <2>6, <2>7 DEF Goal
  <1>8. ASSUME NEW g \in Accounts, NEW e \in Emails, EmailMoves(g, e), UNCHANGED mutationVars
        PROVE  Goal
    BY <1>8, <1>c DEF EmailMoves, signInVars
  <1>9. ASSUME NEW c \in DOMAIN credentials, CredentialExpires(c), UNCHANGED <<signInVars, mutationVars>>
         PROVE Goal
    BY <1>9, <1>c DEF CredentialExpires, signInVars
  <1>10. ASSUME NEW r \in Requests, NEW kind \in Kinds, NEW c \in DOMAIN credentials, Send(r, c, kind),
                UNCHANGED signInVars
         PROVE Goal
    BY <1>10, <1>c DEF Send, signInVars
  <1>11. ASSUME NEW r \in Requests, UNCHANGED signInVars,
                Logout(r) \/ RevokeAll(r) \/ CreateWorkspace(r) \/ SelectWorkspace(r)
                \/ AddMember(r) \/ GrantCreator(r) \/ ReceiptExpires(r)
         PROVE Goal
    BY <1>11, <1>c DEF
      Logout, RevokeAll, CreateWorkspace, SelectWorkspace, AddMember, GrantCreator,
      ReceiptExpires, signInVars
  <1>12. ASSUME UNCHANGED vars PROVE Goal
    <2>1. UNCHANGED sessions
      BY <1>12 DEF vars, signInVars
    <2> QED
      BY <2>1, <1>c
  <1> QED
    BY <1>1, <1>2, <1>3, <1>4, <1>5, <1>6, <1>7, <1>8, <1>9, <1>10, <1>11, <1>12
      DEF Next, SignInNext, Client, Browser, World, Handle, Goal

\* What the tables of the sign-ins, without the sessions, have in common.
SignInRows ==
  /\ logins \in [Logins -> [stage : {"none", "pending", "consumed", "expired"},
                            user : 0..Len(users), shown : 0..Len(users)]]
  /\ clients \in [Logins -> [at : ClientStates, credential : 0..Len(credentials)]]
  /\ polls \in [Logins -> 0..2]
  /\ browsers \in [Browsers -> [flow : Logins \cup {Directory, Nothing}, callback : Callbacks \cup {Nothing},
                                cookie : 0..Len(sessions), page : Forms \cup {Nothing}]]
  /\ mailbox \in [Accounts -> Emails \cup {Nothing}]
  /\ moves \in 0..MaxMoves

\* Tables may grow under these rows.
LEMMA RowsFrame ==
  ASSUME TypeOK, SignInRows, IdentityGrows, SessionsGrow, IdentityTypeOK', sessions' \in Seq(Session),
         UNCHANGED <<logins, clients, polls, browsers, mailbox, moves>>
  PROVE  SignInRows'
  <1>1. /\ Len(users) \in Nat /\ Len(credentials) \in Nat /\ Len(sessions) \in Nat
        /\ Len(users') \in Nat /\ Len(credentials') \in Nat /\ Len(sessions') \in Nat
    BY LenProperties DEF TypeOK, IdentityTypeOK, SignInTypeOK
  <1>2. 0..Len(users) \subseteq 0..Len(users') /\ 0..Len(credentials) \subseteq 0..Len(credentials')
        /\ 0..Len(sessions) \subseteq 0..Len(sessions')
    BY <1>1 DEF IdentityGrows, SessionsGrow
  <1> QED
    BY <1>2 DEF SignInRows

\* The client of a login changes its state.
LEMMA ClientStep ==
  ASSUME SignInRows, NEW l \in Logins, NEW s \in ClientStates, At(l, s)
  PROVE  clients' \in [Logins -> [at : ClientStates, credential : 0..Len(credentials)]]
  <1>1. clients \in [Logins -> [at : ClientStates, credential : 0..Len(credentials)]]
    BY DEF SignInRows
  <1>2. [clients[l] EXCEPT !.at = s] \in [at : ClientStates, credential : 0..Len(credentials)]
    BY <1>1
  <1>3. clients' = [clients EXCEPT ![l] = [clients[l] EXCEPT !.at = s]]
    BY <1>1 DEF At
  <1> QED
    BY <1>1, <1>2, <1>3

\* An answer to a poll leaves the client and the polls well formed.
LEMMA AnswerStep ==
  ASSUME SignInRows, NEW l \in Logins, NEW s \in ClientStates, NEW n \in Nat, NEW c \in 0..n,
         0..Len(credentials) \subseteq 0..n, Answer(l, s, c)
  PROVE  /\ clients' \in [Logins -> [at : ClientStates, credential : 0..n]]
         /\ polls' \in [Logins -> 0..2]
  <1>1. clients \in [Logins -> [at : ClientStates, credential : 0..n]] /\ polls \in [Logins -> 0..2]
    BY DEF SignInRows
  <1>2. [at |-> s, credential |-> c] \in [at : ClientStates, credential : 0..n]
    OBVIOUS
  <1>3. polls' \in [Logins -> 0..2]
    BY <1>1 DEF Answer
  <1>4. clients' = clients \/ clients' = [clients EXCEPT ![l] = [at |-> s, credential |-> c]]
    BY DEF Answer
  <1> QED
    BY <1>1, <1>2, <1>3, <1>4

\* The stages of a login.
Stages == {"none", "pending", "consumed", "expired"}

\* A login passes to another stage.
LEMMA StageStep ==
  ASSUME SignInRows, NEW l \in Logins, NEW s \in Stages, logins' = [logins EXCEPT ![l].stage = s]
  PROVE  logins' \in [Logins -> [stage : Stages, user : 0..Len(users), shown : 0..Len(users)]]
  <1>1. logins \in [Logins -> [stage : Stages, user : 0..Len(users), shown : 0..Len(users)]]
    BY DEF SignInRows, Stages
  <1>2. [logins[l] EXCEPT !.stage = s] \in [stage : Stages, user : 0..Len(users), shown : 0..Len(users)]
    BY <1>1
  <1>3. logins' = [logins EXCEPT ![l] = [logins[l] EXCEPT !.stage = s]]
    BY <1>1
  <1> QED
    BY <1>1, <1>2, <1>3

\* An open form names the user of the session that it was opened in.
FormsInv ==
  \A b \in Browsers :
    LET page == browsers[b].page IN
    page # Nothing => page.session \in DOMAIN sessions /\ page.user = sessions[page.session].user

\* Every step keeps the rows of the sign-ins well formed.
LEMMA RowsStep ==
  ASSUME TypeOK, RequestsInv, FormsInv, [Next]_vars
  PROVE  SignInRows'
  <1>1. IdentityTypeOK' /\ IdentityGrows /\ sessions' \in Seq(Session) /\ SessionsGrow
    BY IdentityStep, SessionStep
  <1>2. SignInRows
    BY DEF TypeOK, SignInTypeOK, SignInRows
  <1>3. /\ Len(users) \in Nat /\ Len(credentials) \in Nat /\ Len(sessions) \in Nat
        /\ Len(users') \in Nat /\ Len(credentials') \in Nat /\ Len(sessions') \in Nat
        /\ DOMAIN users = 1..Len(users) /\ DOMAIN sessions = 1..Len(sessions)
    BY <1>1, LenProperties DEF TypeOK, IdentityTypeOK, SignInTypeOK
  <1>4. ASSUME NEW l \in Logins, StartLogin(l), UNCHANGED mutationVars PROVE SignInRows'
    <2>1. "waiting" \in ClientStates /\ "pending" \in Stages
      BY DEF ClientStates, Stages
    <2>2. clients' \in [Logins -> [at : ClientStates, credential : 0..Len(credentials)]]
      BY <1>4, <1>2, <2>1, ClientStep DEF StartLogin
    <2>3. logins' \in [Logins -> [stage : Stages, user : 0..Len(users), shown : 0..Len(users)]]
      BY <1>4, <1>2, <2>1, StageStep DEF StartLogin
    <2> QED
      BY <1>4, <1>2, <2>2, <2>3 DEF StartLogin, SignInRows, identityVars, Stages
  <1>5. ASSUME NEW l \in Logins, Ask(l), UNCHANGED mutationVars PROVE SignInRows'
    <2>1. "asking" \in ClientStates
      BY DEF ClientStates
    <2>2. clients' \in [Logins -> [at : ClientStates, credential : 0..Len(credentials)]]
      BY <1>5, <1>2, <2>1, ClientStep DEF Ask
    <2>3. polls' \in [Logins -> 0..2]
      <3>1. polls \in [Logins -> 0..2] /\ polls[l] < 2 /\ polls' = [polls EXCEPT ![l] = polls[l] + 1]
        BY <1>5, <1>2 DEF Ask, SignInRows
      <3>2. polls[l] \in 0..2 /\ polls[l] + 1 \in 0..2
        BY <3>1
      <3> QED
        BY <3>1, <3>2
    <2> QED
      BY <1>5, <1>2, <2>2, <2>3 DEF Ask, SignInRows, identityVars
  <1>6. ASSUME NEW l \in Logins, StopAsking(l), UNCHANGED mutationVars PROVE SignInRows'
    BY <1>6, <1>2, ZenonT(40) DEF StopAsking, At, ClientStates, SignInRows, identityVars
  <1>7. ASSUME NEW l \in Logins, AttemptExpires(l), UNCHANGED mutationVars PROVE SignInRows'
    BY <1>7, <1>2, ZenonT(40) DEF AttemptExpires, At, ClientStates, SignInRows, identityVars
  <1>8. ASSUME NEW l \in Logins, PollRefused(l), UNCHANGED mutationVars PROVE SignInRows'
    <2>1. "over" \in ClientStates
      BY DEF ClientStates
    <2>2. /\ clients' \in [Logins -> [at : ClientStates, credential : 0..Len(credentials)]]
          /\ polls' \in [Logins -> 0..2]
      BY <1>8, <1>2, <1>3, <2>1, AnswerStep DEF PollRefused
    <2> QED
      BY <1>8, <1>2, <2>2 DEF PollRefused, SignInRows, identityVars
  <1>9. ASSUME NEW l \in Logins, PollPending(l), UNCHANGED mutationVars PROVE SignInRows'
    <2>1. "waiting" \in ClientStates
      BY DEF ClientStates
    <2>2. /\ clients' \in [Logins -> [at : ClientStates, credential : 0..Len(credentials)]]
          /\ polls' \in [Logins -> 0..2]
      BY <1>9, <1>2, <1>3, <2>1, AnswerStep DEF PollPending
    <2> QED
      BY <1>9, <1>2, <2>2 DEF PollPending, SignInRows, identityVars
  <1>10. ASSUME NEW l \in Logins, Deliver(l), UNCHANGED mutationVars PROVE SignInRows'
    <2>1. DOMAIN credentials' = 1..Len(credentials) + 1 /\ Len(credentials') = Len(credentials) + 1
      <3>1. logins[l].user \in DOMAIN users /\ logins[l].user \in Nat
        BY <1>10, <1>3, LenProperties DEF Deliver, TypeOK, SignInTypeOK, IdentityTypeOK
      <3>2. [user |-> logins[l].user, login |-> l, state |-> "live"] \in Credential
        BY <3>1 DEF Credential
      <3>3. credentials \in Seq(Credential)
        BY DEF TypeOK, IdentityTypeOK
      <3> QED
        BY <1>10, <3>2, <3>3, RowAdded DEF Deliver, Issue
    <2>2. "saving" \in ClientStates /\ Len(credentials) + 1 \in 0..Len(credentials')
          /\ 0..Len(credentials) \subseteq 0..Len(credentials')
      BY <1>3, <2>1 DEF ClientStates
    <2>3. /\ clients' \in [Logins -> [at : ClientStates, credential : 0..Len(credentials')]]
          /\ polls' \in [Logins -> 0..2]
      BY <1>10, <1>2, <1>3, <2>2, AnswerStep DEF Deliver
    <2>4. logins' \in [Logins -> [stage : {"none", "pending", "consumed", "expired"},
                                 user : 0..Len(users), shown : 0..Len(users)]]
      BY <1>10, <1>2, ZenonT(40) DEF Deliver, Consume, SignInRows
    <2> QED
      BY <1>10, <1>2, <2>3, <2>4 DEF Deliver, SignInRows
  <1>11. ASSUME NEW l \in Logins, LoginExpires(l), UNCHANGED mutationVars PROVE SignInRows'
    <2>1. logins' \in [Logins -> [stage : Stages, user : 0..Len(users), shown : 0..Len(users)]]
      BY <1>11, <1>2, StageStep DEF LoginExpires, Stages
    <2> QED
      BY <1>11, <1>2, <2>1 DEF LoginExpires, SignInRows, identityVars, Stages
  <1>12. ASSUME NEW l \in Logins, Save(l), UNCHANGED mutationVars PROVE SignInRows'
    <2>1. {"saved", "undoing"} \subseteq ClientStates
      BY DEF ClientStates
    <2>2. clients' \in [Logins -> [at : ClientStates, credential : 0..Len(credentials)]]
      BY <1>12, <1>2, <2>1, ClientStep DEF Save
    <2> QED
      BY <1>12, <1>2, <2>2 DEF Save, SignInRows, identityVars
  <1>13. ASSUME NEW l \in Logins, RevokeUnsaved(l), UNCHANGED mutationVars PROVE SignInRows'
    <2>1. clients' \in [Logins -> [at : ClientStates, credential : 0..Len(credentials)]]
      <3>1. PICK s \in {"revoked", "unconfirmed"} : At(l, s)
        BY <1>13 DEF RevokeUnsaved
      <3>2. s \in ClientStates
        BY DEF ClientStates
      <3> QED
        BY <1>2, <3>1, <3>2, ClientStep
    <2>2. 0..Len(credentials) \subseteq 0..Len(credentials')
      BY <1>1, <1>3 DEF IdentityGrows
    <2> QED
      BY <1>13, <1>2, <2>1, <2>2 DEF RevokeUnsaved, SignInRows
  <1>14. ASSUME NEW l \in Logins, NotConfirmed(l), UNCHANGED mutationVars PROVE SignInRows'
    BY <1>14, <1>2, ZenonT(40) DEF NotConfirmed, At, ClientStates, SignInRows, identityVars
  <1>15. ASSUME NEW l \in Logins, Killed(l), UNCHANGED mutationVars PROVE SignInRows'
    <2>1. "waiting" \in ClientStates
      BY DEF ClientStates
    <2>2. [at |-> "waiting", credential |-> 0] \in [at : ClientStates, credential : 0..Len(credentials)]
      BY <1>3, <2>1
    <2>3. clients' \in [Logins -> [at : ClientStates, credential : 0..Len(credentials)]]
      BY <1>15, <1>2, <2>2 DEF Killed, SignInRows
    <2> QED
      BY <1>15, <1>2, <2>3 DEF Killed, SignInRows, identityVars
  <1>16. ASSUME NEW b \in Browsers, NEW f \in Logins \cup {Directory}, Visit(b, f),
                UNCHANGED mutationVars
         PROVE  SignInRows'
    BY <1>16, <1>2, ZenonT(40) DEF Visit, SignInRows, identityVars
  <1>17. ASSUME NEW b \in Browsers, NEW g \in Accounts, Callback(b, g), UNCHANGED mutationVars
         PROVE  SignInRows'
    <2>1. [account |-> g, email |-> mailbox[g]] \in Callbacks
      BY <1>17, <1>2 DEF Callback, Callbacks, SignInRows
    <2>2. browsers' \in [Browsers -> [flow : Logins \cup {Directory, Nothing}, callback : Callbacks \cup {Nothing},
                                     cookie : 0..Len(sessions), page : Forms \cup {Nothing}]]
      <3>1. CASE browsers' = [browsers EXCEPT ![b].flow = Nothing]
        BY <1>2, <3>1, ZenonT(40) DEF SignInRows
      <3>2. CASE browsers' = [browsers EXCEPT ![b].flow = Nothing,
                                              ![b].callback = [account |-> g, email |-> mailbox[g]]]
        <4> DEFINE claims == [account |-> g, email |-> mailbox[g]]
        <4>1. claims \in Callbacks
          BY <2>1
        <4> HIDE DEF claims
        <4>2. browsers' = [browsers EXCEPT ![b].flow = Nothing, ![b].callback = claims]
          BY <3>2 DEF claims
        <4> QED
          BY <1>2, <4>1, <4>2, ZenonT(40) DEF SignInRows
      <3> QED
        BY <1>17, <3>1, <3>2 DEF Callback
    <2> QED
      BY <1>17, <1>2, <2>2 DEF Callback, SignInRows, identityVars
  <1>18. ASSUME NEW b \in Browsers, NEW l \in Logins, OpenForm(b, l), UNCHANGED mutationVars
         PROVE  SignInRows'
    <2> DEFINE cookie == browsers[b].cookie
    <2>1. cookie \in DOMAIN sessions /\ cookie \in Nat
      BY <1>18, <1>2, <1>3 DEF OpenForm, Approvable, BrowserUser, SignInRows
    <2>2. sessions[cookie].user \in Nat
      BY <2>1, <1>3 DEF TypeOK, SignInTypeOK
    <2>3. [login |-> l, session |-> cookie, user |-> sessions[cookie].user] \in Forms
      BY <2>1, <2>2 DEF Forms
    <2>4. browsers' \in [Browsers -> [flow : Logins \cup {Directory, Nothing}, callback : Callbacks \cup {Nothing},
                                     cookie : 0..Len(sessions), page : Forms \cup {Nothing}]]
      BY <1>18, <1>2, <2>3, ZenonT(40) DEF OpenForm, SignInRows
    <2> QED
      BY <1>18, <1>2, <2>4 DEF OpenForm, SignInRows, identityVars
  <1>19. ASSUME NEW b \in Browsers, Bind(b), UNCHANGED mutationVars PROVE SignInRows'
    <2>1. browsers' \in [Browsers -> [flow : Logins \cup {Directory, Nothing}, callback : Callbacks \cup {Nothing},
                                     cookie : 0..Len(sessions'), page : Forms \cup {Nothing}]]
      <3>1. CASE UNCHANGED sessions /\ browsers' = [browsers EXCEPT ![b].callback = Nothing]
        BY <1>2, <3>1, ZenonT(40) DEF SignInRows
      <3>2. CASE /\ Len(sessions') = Len(sessions) + 1
                 /\ browsers' = [browsers EXCEPT ![b].callback = Nothing, ![b].cookie = Len(sessions) + 1]
        <4>1. 0..Len(sessions) \subseteq 0..Len(sessions') /\ Len(sessions) + 1 \in 0..Len(sessions')
          BY <1>3, <3>2
        <4> QED
          BY <1>2, <3>2, <4>1, ZenonT(40) DEF SignInRows
      <3>3. \A e : Len(Append(sessions, e)) = Len(sessions) + 1
        <4> TAKE e
        <4>1. sessions \in Seq(Session \cup {e})
          BY SeqMonotonic DEF TypeOK, SignInTypeOK
        <4> QED
          BY <4>1, RowAdded
      <3> QED
        BY <1>19, <3>1, <3>2, <3>3 DEF Bind
    <2>2. UNCHANGED <<credentials, logins, clients, polls, mailbox, moves>>
      BY <1>19 DEF Bind
    <2>3. 0..Len(users) \subseteq 0..Len(users')
      BY <1>1, <1>3 DEF IdentityGrows
    <2> QED
      BY <1>2, <2>1, <2>2, <2>3 DEF SignInRows
  <1>20. ASSUME NEW b \in Browsers, BindRefused(b), UNCHANGED mutationVars PROVE SignInRows'
    BY <1>20, <1>2, ZenonT(40) DEF BindRefused, SignInRows, identityVars
  <1>21. ASSUME NEW b \in Browsers, Approve(b), UNCHANGED mutationVars PROVE SignInRows'
    <2> DEFINE page == browsers[b].page
               cookie == browsers[b].cookie
    <2>1. cookie \in DOMAIN sessions /\ page.login \in Logins
      BY <1>21, <1>2, <1>3 DEF Approve, Approvable, BrowserUser, SignInRows, Forms
    <2>2. sessions[cookie].user \in 0..Len(users)
      BY <2>1, <1>3 DEF TypeOK, SignInTypeOK
    <2>3. page.user \in 0..Len(users)
      <3>1. page.session \in DOMAIN sessions /\ page.user = sessions[page.session].user
        BY <1>21 DEF Approve, FormsInv
      <3> QED
        BY <1>3, <3>1 DEF TypeOK, SignInTypeOK
    <2>4. logins' \in [Logins -> [stage : {"none", "pending", "consumed", "expired"},
                                 user : 0..Len(users), shown : 0..Len(users)]]
      <3> DEFINE u == sessions[cookie].user
                 v == page.user
                 k == page.login
      <3>1. logins' = [logins EXCEPT ![k].user = u, ![k].shown = v]
        BY <1>21 DEF Approve
      <3>2. u \in 0..Len(users) /\ v \in 0..Len(users) /\ k \in Logins
        BY <2>1, <2>2, <2>3
      <3>3. logins \in [Logins -> [stage : {"none", "pending", "consumed", "expired"},
                                  user : 0..Len(users), shown : 0..Len(users)]]
        BY <1>2 DEF SignInRows
      <3> HIDE DEF u, v, k
      <3>4. [logins[k] EXCEPT !.user = u, !.shown = v] \in
               [stage : {"none", "pending", "consumed", "expired"}, user : 0..Len(users), shown : 0..Len(users)]
        BY <3>2, <3>3
      <3>5. logins' = [logins EXCEPT ![k] = [logins[k] EXCEPT !.user = u, !.shown = v]]
        BY <3>1, <3>2, <3>3
      <3> QED
        BY <3>2, <3>3, <3>4, <3>5
    <2> QED
      BY <1>21, <1>2, <2>4 DEF Approve, SignInRows, identityVars
  <1>22. ASSUME NEW s \in DOMAIN sessions, SessionExpires(s), UNCHANGED mutationVars
         PROVE  SignInRows'
    BY <1>22, <1>1, <1>2, RowsFrame DEF SessionExpires, signInVars
  <1>23. ASSUME NEW g \in Accounts, NEW e \in Emails, EmailMoves(g, e), UNCHANGED mutationVars
         PROVE  SignInRows'
    <2>1. mailbox' \in [Accounts -> Emails \cup {Nothing}]
      BY <1>23, <1>2 DEF EmailMoves, SignInRows
    <2>2. moves' \in 0..MaxMoves
      BY <1>23, <1>2, SignInAssumption DEF EmailMoves, SignInRows
    <2> QED
      BY <1>23, <1>2, <2>1, <2>2 DEF EmailMoves, SignInRows, identityVars
  <1>24. ASSUME NEW c \in DOMAIN credentials, CredentialExpires(c), UNCHANGED <<signInVars, mutationVars>>
         PROVE SignInRows'
    BY <1>24, <1>1, <1>2, RowsFrame DEF CredentialExpires, signInVars
  <1>25. ASSUME NEW r \in Requests, NEW kind \in Kinds, NEW c \in DOMAIN credentials, Send(r, c, kind),
                UNCHANGED signInVars
         PROVE SignInRows'
    BY <1>25, <1>1, <1>2, RowsFrame DEF Send, signInVars
  <1>26. ASSUME NEW r \in Requests, UNCHANGED signInVars,
                Logout(r) \/ RevokeAll(r) \/ CreateWorkspace(r) \/ SelectWorkspace(r)
                \/ AddMember(r) \/ GrantCreator(r) \/ ReceiptExpires(r)
         PROVE SignInRows'
    BY <1>26, <1>1, <1>2, RowsFrame DEF
      Logout, RevokeAll, CreateWorkspace, SelectWorkspace, AddMember, GrantCreator,
      ReceiptExpires, signInVars
  <1>27. ASSUME UNCHANGED vars PROVE SignInRows'
    BY <1>27, <1>1, <1>2, RowsFrame DEF vars, signInVars
  <1> QED
    BY <1>4, <1>5, <1>6, <1>7, <1>8, <1>9, <1>10, <1>11, <1>12, <1>13, <1>14, <1>15, <1>16, <1>17,
       <1>18, <1>19, <1>20, <1>21, <1>22, <1>23, <1>24, <1>25, <1>26, <1>27
      DEF Next, SignInNext, Client, Browser, World, Handle

(***************************************************************************)
(* Types                                                                   *)
(***************************************************************************)

\* A step that sends no request keeps what the requests carry.
LEMMA RequestsFrame ==
  ASSUME TypeOK, RequestsInv, IdentityGrows, IdentityTypeOK', UNCHANGED requests,
         receipts' \subseteq Requests, forgotten' \subseteq Requests, effects' \in [Requests -> Nat]
  PROVE  MutationTypeOK' /\ RequestsInv'
  <1>1. /\ Len(workspaces) \in Nat /\ Len(workspaces') \in Nat
        /\ Len(credentials) \in Nat /\ Len(credentials') \in Nat
    BY LenProperties DEF TypeOK, IdentityTypeOK
  <1>2. 0..Len(workspaces) \subseteq 0..Len(workspaces') /\ 0..Len(credentials) \subseteq 0..Len(credentials')
    BY <1>1 DEF IdentityGrows
  <1>3. requests' \in [Requests -> [kind : Kinds \cup {"none"}, credential : 0..Len(credentials'),
                                    workspace : 0..Len(workspaces'), argument : Emails \cup {Nothing} \cup Nat]]
    BY <1>2 DEF TypeOK, MutationTypeOK
  <1> QED
    BY <1>3 DEF MutationTypeOK, RequestsInv, IdentityGrows

\* A request that is sent carries a credential and a fitting argument.
LEMMA RequestSent ==
  ASSUME TypeOK, RequestsInv, NEW r \in Requests, NEW kind \in Kinds, NEW c \in DOMAIN credentials,
         Send(r, c, kind)
  PROVE  MutationTypeOK' /\ RequestsInv'
  <1>1. /\ DOMAIN credentials = 1..Len(credentials) /\ DOMAIN workspaces = 1..Len(workspaces)
        /\ DOMAIN users = 1..Len(users)
        /\ Len(credentials) \in Nat /\ Len(workspaces) \in Nat /\ Len(users) \in Nat
    BY LenProperties DEF TypeOK, IdentityTypeOK
  <1>2. PICK a \in Arguments(kind), w \in (IF kind \in {"add", "grant"} THEN DOMAIN workspaces ELSE {0}) :
          requests' = [requests EXCEPT ![r] = [kind |-> kind, credential |-> c, workspace |-> w, argument |-> a]]
    BY DEF Send
  <1>3. a \in Emails \cup {Nothing} \cup Nat /\ (kind \in {"create", "add"} => a \in Emails)
    BY <1>1, <1>2, MutationAssumption DEF Arguments, Kinds, Ordinals
  <1> DEFINE row == [kind |-> kind, credential |-> c, workspace |-> w, argument |-> a]
  <1>4. row \in [kind : Kinds \cup {"none"}, credential : 0..Len(credentials),
                 workspace : 0..Len(workspaces), argument : Emails \cup {Nothing} \cup Nat]
    BY <1>1, <1>2, <1>3
  <1>5. row.kind = kind /\ row.credential = c /\ row.argument = a
    OBVIOUS
  <1>6. requests' = [requests EXCEPT ![r] = row]
    BY <1>2
  <1> HIDE DEF row
  <1>7. UNCHANGED <<users, workspaces, credentials, receipts, forgotten, effects>>
    BY DEF Send, identityVars
  <1>8. MutationTypeOK'
    BY <1>4, <1>6, <1>7 DEF TypeOK, MutationTypeOK
  <1>9. \A q \in Requests : requests'[q] = IF q = r THEN row ELSE requests[q]
    BY <1>6 DEF TypeOK, MutationTypeOK
  <1>10. RequestsInv'
    BY <1>3, <1>5, <1>7, <1>9 DEF RequestsInv
  <1> QED
    BY <1>8, <1>10

\* Every step keeps the requests, their receipts and effects well formed.
LEMMA MutationStep ==
  ASSUME TypeOK, RequestsInv, [Next]_vars
  PROVE  MutationTypeOK' /\ RequestsInv'
  <1>1. IdentityTypeOK' /\ IdentityGrows
    BY IdentityStep
  <1>2. CASE UNCHANGED mutationVars
    BY <1>1, <1>2, RequestsFrame DEF mutationVars, TypeOK, MutationTypeOK
  <1>3. ASSUME NEW r \in Requests, NEW kind \in Kinds, NEW c \in DOMAIN credentials, Send(r, c, kind)
        PROVE  MutationTypeOK' /\ RequestsInv'
    BY <1>3, RequestSent
  <1>4. ASSUME NEW r \in Requests, Handle(r)
        PROVE  MutationTypeOK' /\ RequestsInv'
    <2>1. Done(r)
      BY <1>4
        DEF Handle, Logout, RevokeAll, CreateWorkspace, SelectWorkspace, AddMember, GrantCreator
    <2>2. receipts' \subseteq Requests /\ effects' \in [Requests -> Nat] /\ UNCHANGED <<requests, forgotten>>
      BY <2>1 DEF Done, TypeOK, MutationTypeOK
    <2> QED
      BY <1>1, <2>2, RequestsFrame DEF TypeOK, MutationTypeOK
  <1>5. ASSUME NEW r \in Requests, ReceiptExpires(r)
        PROVE  MutationTypeOK' /\ RequestsInv'
    BY <1>1, <1>5, RequestsFrame DEF ReceiptExpires, TypeOK, MutationTypeOK
  <1>6. CASE UNCHANGED vars
    BY <1>2, <1>6 DEF vars
  <1> QED
    BY <1>2, <1>3, <1>4, <1>5, <1>6 DEF Next

\* Every step keeps the type invariant.
LEMMA TypeStep ==
  ASSUME TypeOK, RequestsInv, FormsInv, [Next]_vars
  PROVE  TypeOK'
  <1>1. \A s \in DOMAIN sessions' : sessions'[s].user \in DOMAIN users'
    BY SessionStep, IdentityStep DEF IdentityGrows
  <1> QED
    BY <1>1, IdentityStep, SessionStep, RowsStep, MutationStep DEF TypeOK, SignInTypeOK, SignInRows

(***************************************************************************)
(* Forms and sessions                                                      *)
(***************************************************************************)

\* Every step keeps the forms honest: only opening one changes it.
LEMMA FormsStep ==
  ASSUME TypeOK, FormsInv, [Next]_vars
  PROVE  FormsInv'
  <1>1. /\ browsers \in [Browsers -> [flow : Logins \cup {Directory, Nothing}, callback : Callbacks \cup {Nothing},
                                      cookie : 0..Len(sessions), page : Forms \cup {Nothing}]]
        /\ DOMAIN sessions = 1..Len(sessions) /\ Len(sessions) \in Nat
    BY LenProperties DEF TypeOK, SignInTypeOK
  <1>2. (\A d \in Browsers : browsers'[d].page = browsers[d].page) => FormsInv'
    BY SessionStep DEF FormsInv, SessionsGrow
  <1>3. ASSUME NEW l \in Logins, UNCHANGED mutationVars,
                StartLogin(l) \/ Ask(l) \/ StopAsking(l) \/ AttemptExpires(l) \/ PollRefused(l)
                \/ PollPending(l)
                \/ Deliver(l) \/ LoginExpires(l) \/ Save(l) \/ RevokeUnsaved(l) \/ NotConfirmed(l)
                \/ Killed(l)
         PROVE FormsInv'
    BY <1>3, <1>2 DEF
      StartLogin, Ask, StopAsking, AttemptExpires, PollRefused, PollPending, Deliver,
      LoginExpires, Save, RevokeUnsaved, NotConfirmed, Killed, signInVars
  <1>4. ASSUME NEW b \in Browsers, NEW f \in Logins \cup {Directory}, Visit(b, f),
               UNCHANGED mutationVars
        PROVE  FormsInv'
    BY <1>4, <1>1, <1>2 DEF Visit
  <1>5. ASSUME NEW b \in Browsers, NEW g \in Accounts, Callback(b, g), UNCHANGED mutationVars
        PROVE  FormsInv'
    <2> DEFINE claims == [account |-> g, email |-> mailbox[g]]
    <2>1. \/ browsers' = [browsers EXCEPT ![b].flow = Nothing, ![b].callback = claims]
          \/ browsers' = [browsers EXCEPT ![b].flow = Nothing]
      BY <1>5 DEF Callback
    <2> HIDE DEF claims
    <2>2. \A d \in Browsers : browsers'[d].page = browsers[d].page
      BY <2>1, <1>1
    <2> QED
      BY <1>2, <2>2
  <1>6. ASSUME NEW b \in Browsers, NEW l \in Logins, OpenForm(b, l), UNCHANGED mutationVars
        PROVE  FormsInv'
    <2> DEFINE cookie == browsers[b].cookie
               form == [login |-> l, session |-> cookie, user |-> sessions[cookie].user]
    <2>1. cookie \in DOMAIN sessions
      BY <1>6, <1>1 DEF OpenForm, Approvable, BrowserUser
    <2>2. form.session = cookie /\ form.user = sessions[cookie].user
      OBVIOUS
    <2>3. browsers' = [browsers EXCEPT ![b].page = form] /\ UNCHANGED sessions
      BY <1>6 DEF OpenForm
    <2> HIDE DEF form
    <2>4. \A d \in Browsers : browsers'[d].page = browsers[d].page \/ browsers'[d].page = form
      BY <1>1, <2>3
    <2> QED
      BY <2>1, <2>2, <2>3, <2>4 DEF FormsInv
  <1>7. ASSUME NEW b \in Browsers, Approve(b), UNCHANGED mutationVars PROVE FormsInv'
    BY <1>7, <1>2 DEF Approve, signInVars
  <1>8. ASSUME NEW b \in Browsers, Bind(b), UNCHANGED mutationVars PROVE FormsInv'
    <2>1. \A d \in Browsers : browsers'[d].page = browsers[d].page
      BY <1>8, <1>1 DEF Bind
    <2> QED
      BY <1>2, <2>1
  <1>9. ASSUME NEW b \in Browsers, BindRefused(b), UNCHANGED mutationVars PROVE FormsInv'
    BY <1>9, <1>1, <1>2 DEF BindRefused
  <1>10. ASSUME NEW s \in DOMAIN sessions, SessionExpires(s), UNCHANGED mutationVars PROVE FormsInv'
    BY <1>10, <1>2 DEF SessionExpires, signInVars
  <1>11. ASSUME NEW g \in Accounts, NEW e \in Emails, EmailMoves(g, e), UNCHANGED mutationVars
         PROVE  FormsInv'
    BY <1>11, <1>2 DEF EmailMoves, signInVars
  <1>12. ASSUME NEW c \in DOMAIN credentials, CredentialExpires(c), UNCHANGED <<signInVars, mutationVars>>
         PROVE FormsInv'
    BY <1>12, <1>2 DEF CredentialExpires, signInVars
  <1>13. ASSUME NEW r \in Requests, NEW kind \in Kinds, NEW c \in DOMAIN credentials, Send(r, c, kind),
                UNCHANGED signInVars
         PROVE FormsInv'
    BY <1>13, <1>2 DEF Send, signInVars
  <1>14. ASSUME NEW r \in Requests, UNCHANGED signInVars,
                Logout(r) \/ RevokeAll(r) \/ CreateWorkspace(r) \/ SelectWorkspace(r)
                \/ AddMember(r) \/ GrantCreator(r) \/ ReceiptExpires(r)
         PROVE FormsInv'
    BY <1>14, <1>2 DEF
      Logout, RevokeAll, CreateWorkspace, SelectWorkspace, AddMember, GrantCreator,
      ReceiptExpires, signInVars
  <1>15. ASSUME UNCHANGED vars PROVE FormsInv'
    BY <1>15, <1>2 DEF vars, signInVars
  <1> QED
    BY <1>3, <1>4, <1>5, <1>6, <1>7, <1>8, <1>9, <1>10, <1>11, <1>12, <1>13, <1>14, <1>15
      DEF Next, SignInNext, Client, Browser, World, Handle

\* Steps that bind no account keep whom an account has.
LEMMA SubjectsFrame ==
  ASSUME TypeOK, SessionsKeepTheirAccount, UNCHANGED sessions,
         \A u \in DOMAIN users : users'[u].subject = users[u].subject
  PROVE  SessionsKeepTheirAccount'
  BY DEF SessionsKeepTheirAccount, TypeOK, SignInTypeOK

\* An admission changes no user who is there.
LEMMA AdmitKeepsUsers ==
  ASSUME TypeOK, NEW w, NEW e, NEW roles, Admit(w, e, roles)
  PROVE  \A v \in DOMAIN users : users'[v] = users[v]
  <1>1. users \in Seq(User) /\ Len(users) \in Nat /\ DOMAIN users = 1..Len(users)
    BY LenProperties DEF TypeOK, IdentityTypeOK
  <1>2. \A row : \A v \in DOMAIN users : Append(users, row)[v] = users[v]
    <2> TAKE row
    <2>1. users \in Seq(User \cup {row})
      BY <1>1, SeqMonotonic
    <2> QED
      BY <2>1, RowAdded
  <1> QED
    BY <1>2 DEF Admit

\* Every step keeps each session with its account: only Bind binds accounts,
\* and it binds users who have none, or the same one.
LEMMA SessionsStep ==
  ASSUME TypeOK, SessionsKeepTheirAccount, [Next]_vars
  PROVE  SessionsKeepTheirAccount'
  <1>1. ASSUME NEW l \in Logins, UNCHANGED mutationVars,
                StartLogin(l) \/ Ask(l) \/ StopAsking(l) \/ AttemptExpires(l) \/ PollRefused(l)
                \/ PollPending(l)
                \/ Deliver(l) \/ LoginExpires(l) \/ Save(l) \/ RevokeUnsaved(l) \/ NotConfirmed(l)
                \/ Killed(l)
         PROVE SessionsKeepTheirAccount'
    BY <1>1, SubjectsFrame DEF
      StartLogin, Ask, StopAsking, AttemptExpires, PollRefused, PollPending, Deliver,
      LoginExpires, Save, RevokeUnsaved, NotConfirmed, Killed, signInVars, identityVars
  <1>2. ASSUME NEW b \in Browsers, NEW f \in Logins \cup {Directory}, Visit(b, f),
               UNCHANGED mutationVars
        PROVE  SessionsKeepTheirAccount'
    BY <1>2, SubjectsFrame DEF Visit, signInVars, identityVars
  <1>3. ASSUME NEW b \in Browsers, NEW g \in Accounts, Callback(b, g), UNCHANGED mutationVars
        PROVE  SessionsKeepTheirAccount'
    BY <1>3, SubjectsFrame DEF Callback, signInVars, identityVars
  <1>4. ASSUME NEW b \in Browsers, NEW l \in Logins, OpenForm(b, l), UNCHANGED mutationVars
        PROVE  SessionsKeepTheirAccount'
    BY <1>4, SubjectsFrame DEF OpenForm, signInVars, identityVars
  <1>5. ASSUME NEW b \in Browsers, BindRefused(b) \/ Approve(b), UNCHANGED mutationVars
        PROVE  SessionsKeepTheirAccount'
    BY <1>5, SubjectsFrame DEF BindRefused, Approve, signInVars, identityVars
  <1>6. ASSUME NEW b \in Browsers, Bind(b), UNCHANGED mutationVars PROVE SessionsKeepTheirAccount'
    <2> DEFINE claims == browsers[b].callback
    <2>1. PICK u \in Claimed(claims) :
            /\ users' = [users EXCEPT ![u].subject = claims.account, ![u].email = claims.email]
            /\ \/ UNCHANGED sessions
               \/ sessions' = Append(sessions, [user |-> u, account |-> claims.account, live |-> TRUE])
      BY <1>6 DEF Bind
    <2>2. claims \in Callbacks
      BY <1>6 DEF Bind, TypeOK, SignInTypeOK
    <2>3. claims.account \in Accounts
      BY <2>2 DEF Callbacks
    <2>4. u \in DOMAIN users /\ (users[u].subject = claims.account \/ users[u].subject = Nothing)
      BY <2>1 DEF Claimed, Bound, Awaiting
    <2>5. users \in [DOMAIN users -> User]
      BY LenProperties DEF TypeOK, IdentityTypeOK
    <2>6. /\ users'[u].subject = claims.account
          /\ \A v \in DOMAIN users : v # u => users'[v].subject = users[v].subject
      BY <2>1, <2>4, <2>5 DEF User
    <2>7. \A s \in DOMAIN sessions : users'[sessions[s].user].subject = sessions[s].account
      <3> SUFFICES ASSUME NEW s \in DOMAIN sessions
                   PROVE  users'[sessions[s].user].subject = sessions[s].account
        OBVIOUS
      <3>1. sessions[s] \in Session /\ sessions[s].user \in DOMAIN users
        BY LenProperties DEF TypeOK, SignInTypeOK
      <3>2. sessions[s].account \in Accounts
        BY <3>1 DEF Session
      <3>3. users[sessions[s].user].subject = sessions[s].account
        BY DEF SessionsKeepTheirAccount
      <3>4. CASE sessions[s].user = u
        BY <2>4, <2>6, <3>2, <3>3, <3>4, IdentityAssumption
      <3>5. CASE sessions[s].user # u
        BY <2>6, <3>1, <3>3, <3>5
      <3> QED
        BY <3>4, <3>5
    <2>8. CASE UNCHANGED sessions
      BY <2>7, <2>8 DEF SessionsKeepTheirAccount
    <2>9. CASE sessions' = Append(sessions, [user |-> u, account |-> claims.account, live |-> TRUE])
      <3> DEFINE row == [user |-> u, account |-> claims.account, live |-> TRUE]
      <3>1. row \in Session /\ row.user = u /\ row.account = claims.account
        BY SMTT(60), <2>3, <2>4, LenProperties DEF Session, TypeOK, IdentityTypeOK
      <3>2. sessions' = Append(sessions, row) /\ sessions \in Seq(Session)
        BY <2>9 DEF TypeOK, SignInTypeOK
      <3> HIDE DEF row
      <3>3. \A s \in DOMAIN sessions' :
              (s \in DOMAIN sessions /\ sessions'[s] = sessions[s]) \/ sessions'[s] = row
        <4>1. /\ Len(sessions) \in Nat
              /\ DOMAIN sessions = 1..Len(sessions) /\ DOMAIN sessions' = 1..Len(sessions) + 1
              /\ \A s \in DOMAIN sessions : sessions'[s] = sessions[s]
              /\ sessions'[Len(sessions) + 1] = row
          BY <3>1, <3>2, RowAdded
        <4> QED
          BY <4>1
      <3> QED
        BY <2>6, <2>7, <3>1, <3>3 DEF SessionsKeepTheirAccount
    <2> QED
      BY <2>1, <2>8, <2>9
  <1>7. ASSUME NEW s \in DOMAIN sessions, SessionExpires(s), UNCHANGED mutationVars
        PROVE  SessionsKeepTheirAccount'
    <2>1. DOMAIN sessions' = DOMAIN sessions /\ UNCHANGED users
      BY <1>7 DEF SessionExpires, identityVars
    <2> QED
      BY <2>1, SessionStep DEF SessionsKeepTheirAccount, SessionsGrow
  <1>8. ASSUME NEW g \in Accounts, NEW e \in Emails, EmailMoves(g, e), UNCHANGED mutationVars
        PROVE  SessionsKeepTheirAccount'
    BY <1>8, SubjectsFrame DEF EmailMoves, signInVars, identityVars
  <1>9. ASSUME NEW c \in DOMAIN credentials, CredentialExpires(c), UNCHANGED <<signInVars, mutationVars>>
         PROVE SessionsKeepTheirAccount'
    BY <1>9, SubjectsFrame DEF CredentialExpires, signInVars, identityVars
  <1>10. ASSUME NEW r \in Requests, NEW kind \in Kinds, NEW c \in DOMAIN credentials, Send(r, c, kind),
                UNCHANGED signInVars
         PROVE SessionsKeepTheirAccount'
    BY <1>10, SubjectsFrame DEF Send, signInVars, identityVars
  <1>11. ASSUME NEW r \in Requests, UNCHANGED signInVars,
                Logout(r) \/ RevokeAll(r) \/ GrantCreator(r) \/ ReceiptExpires(r)
         PROVE SessionsKeepTheirAccount'
    BY <1>11, SubjectsFrame DEF
      Logout, RevokeAll, GrantCreator, ReceiptExpires, signInVars, identityVars
  <1>12. ASSUME NEW r \in Requests, CreateWorkspace(r), UNCHANGED signInVars
         PROVE  SessionsKeepTheirAccount'
    <2>1. \A v \in DOMAIN users : users'[v] = users[v]
      BY <1>12, AdmitKeepsUsers DEF CreateWorkspace
    <2> QED
      BY <1>12, <2>1, SubjectsFrame DEF signInVars
  <1>13. ASSUME NEW r \in Requests, SelectWorkspace(r), UNCHANGED signInVars
         PROVE  SessionsKeepTheirAccount'
    <2>1. users \in [DOMAIN users -> User] /\ users' = [users EXCEPT ![Actor(r)].home = requests[r].argument]
      BY <1>13, LenProperties DEF SelectWorkspace, TypeOK, IdentityTypeOK
    <2>2. \A v \in DOMAIN users : users'[v].subject = users[v].subject
      BY <2>1 DEF User
    <2> QED
      BY <1>13, <2>2, SubjectsFrame DEF signInVars
  <1>14. ASSUME NEW r \in Requests, AddMember(r), UNCHANGED signInVars
         PROVE  SessionsKeepTheirAccount'
    <2>1. \A v \in DOMAIN users : users'[v] = users[v]
      BY <1>14, AdmitKeepsUsers DEF AddMember
    <2> QED
      BY <1>14, <2>1, SubjectsFrame DEF signInVars
  <1>15. ASSUME UNCHANGED vars PROVE SessionsKeepTheirAccount'
    BY <1>15, SubjectsFrame DEF vars, signInVars, identityVars
  <1> QED
    BY <1>1, <1>2, <1>3, <1>4, <1>5, <1>6, <1>7, <1>8, <1>9, <1>10, <1>11, <1>12, <1>13, <1>14,
       <1>15
      DEF Next, SignInNext, Client, Browser, World, Handle

(***************************************************************************)
(* Workspaces and grants                                                   *)
(***************************************************************************)

\* The steps that change users, workspaces or memberships.
LEMMA OtherSteps ==
  ASSUME [Next]_vars
  PROVE  \/ UNCHANGED <<users, workspaces, memberships>>
         \/ \E b \in Browsers : Bind(b)
         \/ \E r \in Requests :
              CreateWorkspace(r) \/ AddMember(r) \/ SelectWorkspace(r) \/ GrantCreator(r)
  <1>1. ASSUME NEW l \in Logins, Client(l) PROVE UNCHANGED <<users, workspaces, memberships>>
    BY <1>1 DEF
      Client, StartLogin, Ask, StopAsking, AttemptExpires, PollRefused, PollPending, Deliver,
      LoginExpires, Save, RevokeUnsaved, NotConfirmed, Killed, identityVars
  <1>2. ASSUME NEW b \in Browsers, Browser(b), ~Bind(b)
        PROVE  UNCHANGED <<users, workspaces, memberships>>
    BY <1>2 DEF Browser, Visit, Callback, BindRefused, Approve, OpenForm, identityVars
  <1>3. CASE World
    BY <1>3 DEF World, SessionExpires, EmailMoves, identityVars
  <1>4. ASSUME NEW c \in DOMAIN credentials, CredentialExpires(c)
        PROVE  UNCHANGED <<users, workspaces, memberships>>
    BY <1>4 DEF CredentialExpires
  <1>5. ASSUME NEW r \in Requests, NEW kind, NEW c, Send(r, c, kind)
        PROVE  UNCHANGED <<users, workspaces, memberships>>
    BY <1>5 DEF Send, identityVars
  <1>6. ASSUME NEW r \in Requests, Logout(r) \/ RevokeAll(r) \/ ReceiptExpires(r)
        PROVE  UNCHANGED <<users, workspaces, memberships>>
    BY <1>6 DEF Logout, RevokeAll, ReceiptExpires, identityVars
  <1>7. CASE UNCHANGED vars
    BY <1>7 DEF vars, identityVars
  <1> QED
    BY <1>1, <1>2, <1>3, <1>4, <1>5, <1>6, <1>7 DEF Next, SignInNext, Handle

\* What a request that admits has: an email and a workspace, new or not.
LEMMA Admission ==
  ASSUME TypeOK, RequestsInv, NEW r \in Requests, CreateWorkspace(r) \/ AddMember(r)
  PROVE  \E w \in (DOMAIN workspaces) \cup {Len(workspaces) + 1}, e \in Emails, roles \in {{"member"}, Roles} :
           /\ Admit(w, e, roles) /\ UNCHANGED credentials
           /\ w \notin DOMAIN workspaces => roles = Roles
           /\ "creator" \in roles => CreatorRoom
  <1>1. CASE CreateWorkspace(r)
    <2>1. requests[r].argument \in Emails
      BY <1>1 DEF CreateWorkspace, Fresh, RequestsInv
    <2>2. Admit(Len(workspaces) + 1, requests[r].argument, Roles) /\ UNCHANGED credentials /\ CreatorRoom
      BY <1>1 DEF CreateWorkspace
    <2> QED
      BY <2>1, <2>2
  <1>2. CASE AddMember(r)
    <2>1. requests[r].argument \in Emails
      BY <1>2 DEF AddMember, Fresh, RequestsInv
    <2>2. requests[r].workspace \in DOMAIN workspaces
      BY <1>2 DEF AddMember, Administers, Has, TypeOK, IdentityTypeOK
    <2>3. Admit(requests[r].workspace, requests[r].argument, {"member"}) /\ UNCHANGED credentials
      BY <1>2 DEF AddMember
    <2>4. "creator" \notin {"member"}
      OBVIOUS
    <2> QED
      BY <2>1, <2>2, <2>3, <2>4
  <1> QED
    BY <1>1, <1>2

\* Every step keeps what the migration demands.
LEMMA RestartStep ==
  ASSUME TypeOK, RequestsInv, RestartSucceeds, [Next]_vars
  PROVE  RestartSucceeds'
  <1>1. /\ memberships \subseteq memberships' /\ IdentityTypeOK'
        /\ users \in [DOMAIN users -> User]
    BY IdentityStep, LenProperties DEF IdentityGrows, TypeOK, IdentityTypeOK
  <1>2. ASSUME UNCHANGED workspaces, DOMAIN users' = DOMAIN users,
               \A u \in DOMAIN users : Has(users'[u].home, u, "member")
        PROVE  RestartSucceeds'
    BY <1>1, <1>2 DEF RestartSucceeds, Has
  <1>3. CASE UNCHANGED <<users, workspaces, memberships>>
    BY <1>2, <1>3 DEF RestartSucceeds
  <1>4. ASSUME NEW b \in Browsers, Bind(b) PROVE RestartSucceeds'
    <2>1. PICK u \in Claimed(browsers[b].callback) :
            users' = [users EXCEPT ![u].subject = browsers[b].callback.account,
                                   ![u].email = browsers[b].callback.email]
      BY <1>4 DEF Bind
    <2>2. DOMAIN users' = DOMAIN users /\ \A v \in DOMAIN users : users'[v].home = users[v].home
      BY <1>1, <2>1 DEF User
    <2> QED
      BY <1>2, <1>4, <2>2 DEF Bind, RestartSucceeds
  <1>5. ASSUME NEW r \in Requests, CreateWorkspace(r) \/ AddMember(r) PROVE RestartSucceeds'
    <2>1. PICK w \in (DOMAIN workspaces) \cup {Len(workspaces) + 1}, e \in Emails, roles \in {{"member"}, Roles} :
            /\ Admit(w, e, roles) /\ UNCHANGED credentials
            /\ w \notin DOMAIN workspaces => roles = Roles
      BY <1>5, Admission
    <2>2. "member" \in roles /\ roles \in SUBSET Roles /\ (roles = Roles => "administrator" \in roles)
      BY DEF Roles
    <2>3. IdentityTypeOK
      BY DEF TypeOK
    <2>4. PICK u : IdentityGrows /\ DOMAIN workspaces' = DOMAIN workspaces \cup {w} /\ Admits(u, w, roles)
      BY <2>1, <2>2, <2>3, AdmitGrows
    <2>5. \A role \in roles : <<w, u, role>> \in memberships'
      BY <2>4 DEF Admits
    <2>6. \A x \in DOMAIN workspaces' :
             /\ <<x, workspaces'[x], "member">> \in memberships'
             /\ <<x, workspaces'[x], "administrator">> \in memberships'
      <3> SUFFICES ASSUME NEW x \in DOMAIN workspaces'
                   PROVE  /\ <<x, workspaces'[x], "member">> \in memberships'
                          /\ <<x, workspaces'[x], "administrator">> \in memberships'
        OBVIOUS
      <3>1. CASE x \in DOMAIN workspaces
        BY <1>1, <2>4, <3>1 DEF RestartSucceeds, Has, IdentityGrows
      <3>2. CASE x \notin DOMAIN workspaces
        BY <2>1, <2>2, <2>4, <2>5, <3>2 DEF Admits
      <3> QED
        BY <3>1, <3>2
    <2>7. \A v \in DOMAIN users' : <<users'[v].home, v, "member">> \in memberships'
      BY <1>1, <2>2, <2>4, <2>5 DEF RestartSucceeds, Has, Admits
    <2> QED
      BY <2>6, <2>7 DEF RestartSucceeds, Has
  <1>6. ASSUME NEW r \in Requests, SelectWorkspace(r) PROVE RestartSucceeds'
    <2>1. users' = [users EXCEPT ![Actor(r)].home = requests[r].argument] /\ UNCHANGED workspaces
      BY <1>6 DEF SelectWorkspace
    <2>2. Has(requests[r].argument, Actor(r), "member")
      BY <1>6 DEF SelectWorkspace, MaySelect
    <2>3. DOMAIN users' = DOMAIN users /\ \A v \in DOMAIN users : Has(users'[v].home, v, "member")
      BY <1>1, <2>1, <2>2 DEF User, RestartSucceeds
    <2> QED
      BY <1>2, <2>1, <2>3
  <1>7. ASSUME NEW r \in Requests, GrantCreator(r) PROVE RestartSucceeds'
    BY <1>2, <1>7 DEF GrantCreator, RestartSucceeds
  <1> QED
    BY <1>3, <1>4, <1>5, <1>6, <1>7, OtherSteps

\* The creators' grants, of which there are finitely many, within the limit.
GrantsInv == IsFiniteSet(Creators) /\ Cardinality(Creators) <= CreatorLimit

\* A grant that found room keeps the limit.
LEMMA OneGrant ==
  ASSUME GrantsInv, CreatorRoom, NEW m, Creators' = Creators \cup {m}
  PROVE  GrantsInv'
  <1>1. Cardinality(Creators) \in Nat
    BY FS_CardinalityType DEF GrantsInv
  <1>2. /\ IsFiniteSet(Creators')
        /\ Cardinality(Creators') = Cardinality(Creators) \/ Cardinality(Creators') = Cardinality(Creators) + 1
    BY FS_AddElement DEF GrantsInv
  <1> QED
    BY <1>1, <1>2, IdentityAssumption DEF GrantsInv, CreatorRoom

\* Every step keeps the grants within the limit.
LEMMA GrantsStep ==
  ASSUME TypeOK, RequestsInv, GrantsInv, [Next]_vars
  PROVE  GrantsInv'
  <1>1. CASE UNCHANGED memberships
    BY <1>1 DEF GrantsInv, Creators
  <1>2. ASSUME NEW r \in Requests, CreateWorkspace(r) \/ AddMember(r) PROVE GrantsInv'
    <2>1. PICK w \in (DOMAIN workspaces) \cup {Len(workspaces) + 1}, e \in Emails, roles \in {{"member"}, Roles} :
            Admit(w, e, roles) /\ ("creator" \in roles => CreatorRoom)
      BY <1>2, Admission
    <2>2. PICK u : memberships' = memberships \cup {<<w, u, role>> : role \in roles}
      BY <2>1 DEF Admit
    <2>3. CASE roles = Roles
      <3>1. Creators' = Creators \cup {<<w, u, "creator">>}
        BY <2>2, <2>3 DEF Creators, Roles
      <3> QED
        BY <2>1, <2>3, <3>1, OneGrant DEF Roles
    <2>4. CASE roles = {"member"}
      <3>1. Creators' = Creators
        BY <2>2, <2>4 DEF Creators
      <3> QED
        BY <3>1 DEF GrantsInv
    <2> QED
      BY <2>3, <2>4
  <1>3. ASSUME NEW r \in Requests, GrantCreator(r) PROVE GrantsInv'
    <2> DEFINE m == <<requests[r].workspace, requests[r].argument, "creator">>
    <2>1. memberships' = memberships \cup {m} /\ (m \in memberships \/ CreatorRoom)
      BY <1>3 DEF GrantCreator, Has
    <2>2. Creators' = Creators \cup {m}
      BY <2>1 DEF Creators
    <2>3. CASE m \in memberships
      BY <1>1, <2>1, <2>3
    <2> QED
      BY <2>1, <2>2, <2>3, OneGrant
  <1>4. ASSUME NEW b \in Browsers, Bind(b) PROVE UNCHANGED memberships
    BY <1>4 DEF Bind
  <1>5. ASSUME NEW r \in Requests, SelectWorkspace(r) PROVE UNCHANGED memberships
    BY <1>5 DEF SelectWorkspace
  <1> QED
    BY <1>1, <1>2, <1>3, <1>4, <1>5, OtherSteps

(***************************************************************************)
(* Deliveries                                                              *)
(***************************************************************************)

\* A delivery adds one credential, of its login and the login's user.
LEMMA Delivery ==
  ASSUME TypeOK, NEW l \in Logins, Deliver(l)
  PROVE  LET n == Len(credentials) + 1 IN
         /\ n \in Nat /\ n \notin DOMAIN credentials /\ DOMAIN credentials' = DOMAIN credentials \cup {n}
         /\ \A c \in DOMAIN credentials : credentials'[c] = credentials[c]
         /\ credentials'[n].login = l /\ credentials'[n].user = logins[l].user
         /\ credentials'[n].state = "live"
  <1> DEFINE row == [user |-> logins[l].user, login |-> l, state |-> "live"]
  <1>1. logins[l].user \in DOMAIN users /\ logins[l].user \in Nat
    BY LenProperties DEF Deliver, TypeOK, SignInTypeOK, IdentityTypeOK
  <1>2. row \in Credential /\ row.login = l /\ row.user = logins[l].user /\ row.state = "live"
    BY <1>1 DEF Credential
  <1>3. credentials \in Seq(Credential) /\ credentials' = Append(credentials, row)
    BY DEF Deliver, Issue, TypeOK, IdentityTypeOK
  <1> HIDE DEF row
  <1>4. /\ Len(credentials) \in Nat
        /\ DOMAIN credentials = 1..Len(credentials) /\ DOMAIN credentials' = 1..Len(credentials) + 1
        /\ \A c \in DOMAIN credentials : credentials'[c] = credentials[c]
        /\ credentials'[Len(credentials) + 1] = row
    BY <1>2, <1>3, RowAdded
  <1> QED
    BY <1>2, <1>4

\* No other step issues a credential of a login.
LEMMA NoDelivery ==
  ASSUME TypeOK, [Next]_vars
  PROVE  DOMAIN credentials' = DOMAIN credentials \/ \E l \in Logins : Deliver(l)
  <1>1. ASSUME NEW l \in Logins, Client(l), ~Deliver(l)
        PROVE  DOMAIN credentials' = DOMAIN credentials
    BY SMTT(60), <1>1 DEF
      Client, StartLogin, Ask, StopAsking, AttemptExpires, PollRefused, PollPending,
      LoginExpires, Save, RevokeUnsaved, NotConfirmed, Killed, identityVars, Revoke
  <1>2. ASSUME NEW b \in Browsers, Browser(b) PROVE DOMAIN credentials' = DOMAIN credentials
    BY <1>2 DEF Browser, Visit, Callback, Bind, BindRefused, Approve, OpenForm, identityVars
  <1>3. CASE World
    BY <1>3 DEF World, SessionExpires, EmailMoves, identityVars
  <1>4. ASSUME NEW c \in DOMAIN credentials, CredentialExpires(c)
        PROVE  DOMAIN credentials' = DOMAIN credentials
    BY <1>4 DEF CredentialExpires
  <1>5. ASSUME NEW r \in Requests, NEW kind, NEW c, Send(r, c, kind)
        PROVE  DOMAIN credentials' = DOMAIN credentials
    BY <1>5 DEF Send, identityVars
  <1>6. ASSUME NEW r \in Requests, Handle(r) \/ ReceiptExpires(r)
        PROVE  DOMAIN credentials' = DOMAIN credentials
    BY <1>6 DEF
      Handle, Logout, RevokeAll, CreateWorkspace, SelectWorkspace, AddMember, GrantCreator,
      ReceiptExpires, identityVars, Revoke
  <1>7. CASE UNCHANGED vars
    BY <1>7 DEF vars, identityVars
  <1> QED
    BY <1>1, <1>2, <1>3, <1>4, <1>5, <1>6, <1>7 DEF Next, SignInNext

\* A login is approved for whom its form named, and is over when it delivers.
LoginsInv ==
  /\ \A l \in Logins : logins[l].user = logins[l].shown
  /\ \A c \in DOMAIN credentials :
       LET l == credentials[c].login IN
       l # Nothing => logins[l].stage = "consumed" /\ credentials[c].user = logins[l].shown

\* A credential was issued for a login, or at the bootstrap.
LEMMA IssuedFor ==
  ASSUME TypeOK
  PROVE  \A c \in DOMAIN credentials : credentials[c].login \in Logins \cup {Nothing}
  <1>1. credentials \in [DOMAIN credentials -> Credential]
    BY LenProperties DEF TypeOK, IdentityTypeOK
  <1> QED
    BY <1>1 DEF Credential

\* A step that issues nothing and leaves consumed logins alone keeps LoginsInv.
LEMMA LoginsFrame ==
  ASSUME TypeOK, LoginsInv, IdentityGrows, DOMAIN credentials' = DOMAIN credentials,
         \A l \in Logins : /\ logins'[l].user = logins'[l].shown
                           /\ logins[l].stage = "consumed" => logins'[l] = logins[l]
  PROVE  LoginsInv'
  <1>1. \A c \in DOMAIN credentials : credentials[c].login \in Logins \cup {Nothing}
    BY IssuedFor
  <1> QED
    BY <1>1 DEF LoginsInv, IdentityGrows

\* Every step keeps approvals honest and deliveries final.
LEMMA LoginsStep ==
  ASSUME TypeOK, RequestsInv, FormsInv, LoginsInv, [Next]_vars
  PROVE  LoginsInv'
  <1>1. /\ IdentityGrows
        /\ logins \in [Logins -> [stage : {"none", "pending", "consumed", "expired"},
                                  user : 0..Len(users), shown : 0..Len(users)]]
    BY IdentityStep DEF TypeOK, SignInTypeOK
  <1>2. ASSUME NEW l \in Logins, Deliver(l) PROVE LoginsInv'
    <2> DEFINE n == Len(credentials) + 1
    <2>1. /\ n \notin DOMAIN credentials /\ DOMAIN credentials' = DOMAIN credentials \cup {n}
          /\ \A c \in DOMAIN credentials : credentials'[c] = credentials[c]
          /\ credentials'[n].login = l /\ credentials'[n].user = logins[l].user
      BY <1>2, Delivery
    <2>2. \A c \in DOMAIN credentials : credentials[c].login \in Logins \cup {Nothing}
      BY IssuedFor
    <2>3. logins' = [logins EXCEPT ![l].stage = "consumed"]
      BY <1>2 DEF Deliver, Consume
    <2>4. \A k \in Logins : /\ logins'[k].user = logins[k].user /\ logins'[k].shown = logins[k].shown
                            /\ logins'[k].stage = IF k = l THEN "consumed" ELSE logins[k].stage
      BY <1>1, <2>3
    <2> HIDE DEF n
    <2>5. \A c \in DOMAIN credentials' :
            LET k == credentials'[c].login IN
            k # Nothing => logins'[k].stage = "consumed" /\ credentials'[c].user = logins'[k].shown
      <3> SUFFICES ASSUME NEW c \in DOMAIN credentials', credentials'[c].login # Nothing
                   PROVE  /\ logins'[credentials'[c].login].stage = "consumed"
                          /\ credentials'[c].user = logins'[credentials'[c].login].shown
        OBVIOUS
      <3>1. CASE c = n
        BY <2>1, <2>4, <3>1 DEF LoginsInv
      <3>2. CASE c \in DOMAIN credentials
        BY <2>1, <2>2, <2>4, <3>2 DEF LoginsInv
      <3> QED
        BY <2>1, <3>1, <3>2
    <2> QED
      BY <2>4, <2>5 DEF LoginsInv
  <1>3. ASSUME ~\E l \in Logins : Deliver(l),
               \A l \in Logins : /\ logins'[l].user = logins'[l].shown
                                 /\ logins[l].stage = "consumed" => logins'[l] = logins[l]
        PROVE  LoginsInv'
    BY <1>1, <1>3, NoDelivery, LoginsFrame
  <1>4. CASE UNCHANGED logins
    BY <1>2, <1>3, <1>4 DEF LoginsInv
  <1>5. ASSUME NEW l \in Logins, StartLogin(l) \/ LoginExpires(l) PROVE LoginsInv'
    <2>1. PICK s : logins' = [logins EXCEPT ![l].stage = s]
      BY <1>5 DEF StartLogin, LoginExpires
    <2>2. logins[l].stage # "consumed"
      BY <1>5 DEF StartLogin, LoginExpires, Pending
    <2>3. \A k \in Logins : /\ logins'[k].user = logins'[k].shown
                            /\ logins[k].stage = "consumed" => logins'[k] = logins[k]
      BY <1>1, <2>1, <2>2 DEF LoginsInv
    <2> QED
      BY <1>2, <1>3, <2>3
  <1>6. ASSUME NEW b \in Browsers, Approve(b) PROVE LoginsInv'
    <2> DEFINE page == browsers[b].page
               u == sessions[browsers[b].cookie].user
    <2>1. page.session = browsers[b].cookie /\ page.user = u
      BY <1>6 DEF Approve, Genuine, FormsInv
    <2>2. logins[page.login].stage # "consumed"
      BY <1>6 DEF Approve, Approvable, Pending
    <2>3. logins' = [logins EXCEPT ![page.login].user = u, ![page.login].shown = u]
      BY <1>6, <2>1 DEF Approve
    <2> HIDE DEF page, u
    <2>4. \A k \in Logins : /\ logins'[k].user = logins'[k].shown
                            /\ logins[k].stage = "consumed" => logins'[k] = logins[k]
      BY <1>1, <2>2, <2>3 DEF LoginsInv
    <2> QED
      BY <1>2, <1>3, <2>4
  <1>7. \/ UNCHANGED logins
        \/ \E l \in Logins : StartLogin(l) \/ LoginExpires(l) \/ Deliver(l)
        \/ \E b \in Browsers : Approve(b)
    <2>1. ASSUME NEW l \in Logins, Client(l), ~StartLogin(l), ~LoginExpires(l), ~Deliver(l)
          PROVE  UNCHANGED logins
      BY <2>1 DEF
        Client, Ask, StopAsking, AttemptExpires, PollRefused, PollPending, Save, RevokeUnsaved,
        NotConfirmed, Killed
    <2>2. ASSUME NEW b \in Browsers, Browser(b), ~Approve(b) PROVE UNCHANGED logins
      BY <2>2 DEF Browser, Visit, Callback, Bind, BindRefused, OpenForm
    <2>3. CASE World
      BY <2>3 DEF World, SessionExpires, EmailMoves
    <2>4. CASE UNCHANGED signInVars
      BY <2>4 DEF signInVars
    <2> QED
      BY <2>1, <2>2, <2>3, <2>4 DEF Next, SignInNext, vars
  <1> QED
    BY <1>2, <1>4, <1>5, <1>6, <1>7

\* The states of a client that was sent its credential.
Holding == {"saving", "undoing", "saved", "revoked", "unconfirmed"}

\* A login has one credential at most, and a client holds the one of its login.
DeliveryInv ==
  /\ \A c, d \in DOMAIN credentials :
       credentials[c].login = credentials[d].login /\ credentials[c].login # Nothing => c = d
  /\ \A l \in Logins :
       LET c == clients[l].credential IN
       clients[l].at \in Holding => /\ c \in DOMAIN credentials /\ credentials[c].login = l
                                    /\ clients[l].at = "revoked" => ~Authentic(c)

\* What the client of l holds after a step it held before.
Keeps(l) ==
  clients'[l].at \in Holding =>
    /\ clients[l].at \in Holding /\ clients'[l].credential = clients[l].credential
    /\ clients'[l].at = "revoked" =>
         clients[l].at = "revoked" \/ credentials'[clients[l].credential].state # "live"

\* A step that issues nothing, in which clients keep what they hold.
LEMMA DeliveryFrame ==
  ASSUME DeliveryInv, IdentityGrows, DOMAIN credentials' = DOMAIN credentials, \A l \in Logins : Keeps(l)
  PROVE  DeliveryInv'
  <1>1. \A c, d \in DOMAIN credentials' :
          credentials'[c].login = credentials'[d].login /\ credentials'[c].login # Nothing => c = d
    BY DEF DeliveryInv, IdentityGrows
  <1>2. ASSUME NEW l \in Logins, clients'[l].at \in Holding
        PROVE  LET c == clients'[l].credential IN
               /\ c \in DOMAIN credentials' /\ credentials'[c].login = l
               /\ clients'[l].at = "revoked" => credentials'[c].state # "live"
    BY <1>2 DEF DeliveryInv, IdentityGrows, Keeps, Authentic
  <1> QED
    BY <1>1, <1>2 DEF DeliveryInv, Authentic

\* A client comes to hold a credential by a delivery only.
LEMMA ClientsKeep ==
  ASSUME TypeOK, RequestsInv, DeliveryInv, [Next]_vars, NEW k \in Logins, ~Deliver(k)
  PROVE  Keeps(k)
  <1>1. clients \in [Logins -> [at : ClientStates, credential : 0..Len(credentials)]] /\ IdentityGrows
    BY IdentityStep DEF TypeOK, SignInTypeOK
  <1>2. CASE clients'[k] = clients[k]
    <2>1. clients[k].at = "revoked" => clients'[k].at = "revoked"
      BY <1>2
    <2> QED
      BY <1>2, <2>1 DEF Keeps
  <1>3. CASE UNCHANGED signInVars
    BY <1>2, <1>3 DEF signInVars
  <1>4. ASSUME NEW l \in Logins, Client(l), l # k PROVE Keeps(k)
    <2>1. clients'[k] = clients[k]
      BY <1>1, <1>4 DEF
        Client, StartLogin, Ask, StopAsking, AttemptExpires, PollRefused, PollPending, Deliver,
        LoginExpires, Save, RevokeUnsaved, NotConfirmed, Killed, At, Answer
    <2> QED
      BY <1>2, <2>1
  <1>5. CASE StartLogin(k) \/ Ask(k) \/ StopAsking(k) \/ AttemptExpires(k) \/ Killed(k)
    <2>1. clients'[k].at \in {"waiting", "asking", "over"}
      BY <1>1, <1>5 DEF StartLogin, Ask, StopAsking, AttemptExpires, Killed, At
    <2> QED
      BY <2>1 DEF Keeps, Holding
  <1>6. CASE PollRefused(k) \/ PollPending(k)
    <2>1. clients'[k].at \in {"over", "waiting"} \/ clients'[k] = clients[k]
      BY <1>1, <1>6 DEF PollRefused, PollPending, Answer
    <2> QED
      BY <1>2, <2>1 DEF Keeps, Holding
  <1>7. CASE Save(k) \/ NotConfirmed(k)
    <2>1. /\ clients[k].at \in {"saving", "undoing"} /\ clients'[k].credential = clients[k].credential
          /\ clients'[k].at # "revoked"
      BY <1>1, <1>7 DEF Save, NotConfirmed, At
    <2> QED
      BY <2>1 DEF Keeps, Holding
  <1>8. CASE RevokeUnsaved(k)
    <2> DEFINE c == clients[k].credential
    <2>1. clients[k].at \in {"undoing", "unconfirmed"} /\ clients'[k].credential = c
      BY <1>1, <1>8 DEF RevokeUnsaved, At
    <2>2. c \in DOMAIN credentials
      BY <2>1 DEF DeliveryInv, Holding
    <2>3. credentials \in [DOMAIN credentials -> Credential]
      BY LenProperties DEF TypeOK, IdentityTypeOK
    <2>4. credentials'[c].state # "live"
      BY <1>8, <2>2, <2>3 DEF RevokeUnsaved, Revoke, Credential
    <2> QED
      BY <2>1, <2>4 DEF Keeps, Holding
  <1>9. CASE LoginExpires(k)
    BY SMTT(60), <1>2, <1>9 DEF LoginExpires
  <1>10. ASSUME NEW b \in Browsers, Browser(b) PROVE Keeps(k)
    BY <1>2, <1>10 DEF Browser, Visit, Callback, Bind, BindRefused, OpenForm, Approve
  <1>11. CASE World
    BY <1>2, <1>11 DEF World, SessionExpires, EmailMoves
  <1> QED
    BY <1>3, <1>4, <1>5, <1>6, <1>7, <1>8, <1>9, <1>10, <1>11 DEF Next, SignInNext, Client, vars

\* Every step keeps deliveries unique: a login that delivered is consumed.
LEMMA DeliveryStep ==
  ASSUME TypeOK, RequestsInv, LoginsInv, DeliveryInv, [Next]_vars
  PROVE  DeliveryInv'
  <1>1. clients \in [Logins -> [at : ClientStates, credential : 0..Len(credentials)]] /\ IdentityGrows
    BY IdentityStep DEF TypeOK, SignInTypeOK
  <1>2. CASE ~\E l \in Logins : Deliver(l)
    BY <1>1, <1>2, NoDelivery, ClientsKeep, DeliveryFrame
  <1>3. ASSUME NEW l \in Logins, Deliver(l) PROVE DeliveryInv'
    <2> DEFINE n == Len(credentials) + 1
    <2>1. /\ n \notin DOMAIN credentials /\ DOMAIN credentials' = DOMAIN credentials \cup {n}
          /\ \A c \in DOMAIN credentials : credentials'[c] = credentials[c]
          /\ credentials'[n].login = l
      BY <1>3, Delivery
    <2>2. \A c \in DOMAIN credentials : credentials[c].login # l
      BY <1>3, IdentityAssumption DEF Deliver, Pending, LoginsInv
    <2>3. \/ UNCHANGED clients
          \/ clients' = [clients EXCEPT ![l] = [at |-> "saving", credential |-> n]]
      BY <1>3 DEF Deliver, Answer
    <2> HIDE DEF n
    <2>4. \A k \in Logins : \/ clients'[k] = clients[k]
                            \/ k = l /\ clients'[k].at = "saving" /\ clients'[k].credential = n
      BY <1>1, <2>3
    <2>5. \A c, d \in DOMAIN credentials' :
            credentials'[c].login = credentials'[d].login /\ credentials'[c].login # Nothing => c = d
      BY <2>1, <2>2 DEF DeliveryInv
    <2>6. ASSUME NEW k \in Logins, clients'[k].at \in Holding
          PROVE  LET c == clients'[k].credential IN
                 /\ c \in DOMAIN credentials' /\ credentials'[c].login = k
                 /\ clients'[k].at = "revoked" => credentials'[c].state # "live"
      <3>1. CASE clients'[k] = clients[k]
        BY <2>1, <2>6, <3>1 DEF DeliveryInv, Authentic
      <3>2. CASE k = l /\ clients'[k].at = "saving" /\ clients'[k].credential = n
        BY <2>1, <3>2
      <3> QED
        BY <2>4, <3>1, <3>2
    <2> QED
      BY <2>5, <2>6 DEF DeliveryInv, Authentic
  <1> QED
    BY <1>2, <1>3

(***************************************************************************)
(* Effects of requests                                                     *)
(***************************************************************************)

\* The receipts that a request has left, those that have expired included.
Receipts(r) == (IF r \in receipts THEN 1 ELSE 0) + (IF r \in forgotten THEN 1 ELSE 0)

\* Each effect has left a receipt, and "revoke all" has revoked its credential.
EffectsInv ==
  \A r \in Requests :
    /\ effects[r] <= Receipts(r)
    /\ requests[r].kind = "none" => effects[r] = 0
    /\ requests[r].kind = "revoke" /\ effects[r] > 0 =>
         effects[r] = 1 /\ ~Authentic(requests[r].credential)

\* A credential that was revoked stays so.
LEMMA Carried ==
  ASSUME TypeOK, RequestsInv, IdentityGrows, NEW r \in Requests, requests[r].kind = "revoke",
         ~Authentic(requests[r].credential)
  PROVE  credentials'[requests[r].credential].state # "live"
  BY DEF RequestsInv, IdentityGrows, Authentic

\* Every step keeps effects within receipts.
LEMMA EffectsStep ==
  ASSUME TypeOK, RequestsInv, EffectsInv, [Next]_vars
  PROVE  EffectsInv'
  <1>1. IdentityGrows /\ effects \in [Requests -> Nat]
        /\ requests \in [Requests -> [kind : Kinds \cup {"none"}, credential : 0..Len(credentials),
                                      workspace : 0..Len(workspaces), argument : Emails \cup {Nothing} \cup Nat]]
    BY IdentityStep DEF TypeOK, MutationTypeOK
  <1>2. CASE UNCHANGED mutationVars
    BY <1>2, <1>1, Carried DEF mutationVars, EffectsInv, Receipts, Authentic
  <1>3. ASSUME NEW r \in Requests, NEW kind \in Kinds, NEW c, Send(r, c, kind) PROVE EffectsInv'
    <2>1. requests[r].kind = "none" /\ UNCHANGED <<credentials, receipts, forgotten, effects>>
      BY <1>3 DEF Send, Unsent, identityVars
    <2>2. \A q \in Requests : q # r => requests'[q] = requests[q]
      BY <1>1, <1>3 DEF Send
    <2>3. effects[r] = 0
      BY <2>1 DEF EffectsInv
    <2>4. ASSUME NEW q \in Requests
          PROVE  /\ effects'[q] <= Receipts(q)'
                 /\ requests'[q].kind = "none" => effects'[q] = 0
                 /\ requests'[q].kind = "revoke" /\ effects'[q] > 0 =>
                      effects'[q] = 1 /\ credentials'[requests'[q].credential].state # "live"
      <3>1. CASE q = r
        <4>1. Receipts(q)' \in Nat
          BY DEF Receipts
        <4> QED
          BY <2>1, <2>3, <3>1, <4>1
      <3>2. CASE q # r
        BY <2>1, <2>2, <3>2 DEF EffectsInv, Receipts, Authentic
      <3> QED
        BY <3>1, <3>2
    <2> QED
      BY <2>4 DEF EffectsInv, Authentic
  <1>4. ASSUME NEW r \in Requests, Handle(r) PROVE EffectsInv'
    <2>1. Done(r) /\ r \notin receipts /\ requests[r].kind # "none"
      BY <1>4 DEF
        Handle, Logout, RevokeAll, CreateWorkspace, SelectWorkspace, AddMember, GrantCreator, Fresh
    <2>2. /\ receipts' = receipts \cup {r} /\ UNCHANGED <<requests, forgotten>>
          /\ \A q \in Requests : effects'[q] = IF q = r THEN effects[r] + 1 ELSE effects[q]
      BY <1>1, <2>1 DEF Done
    <2>3. \A q \in Requests : Receipts(q)' = IF q = r THEN Receipts(r) + 1 ELSE Receipts(q)
      BY <2>1, <2>2 DEF Receipts
    <2>4. \A q \in Requests : effects'[q] <= Receipts(q)'
      BY <1>1, <2>2, <2>3 DEF EffectsInv, Receipts
    <2>5. ASSUME NEW q \in Requests, requests[q].kind = "revoke", effects'[q] > 0
          PROVE  effects'[q] = 1 /\ credentials'[requests[q].credential].state # "live"
      <3>1. CASE q # r
        BY <1>1, <2>2, <2>5, <3>1, Carried DEF EffectsInv
      <3>2. CASE q = r
        <4>1. RevokeAll(r)
          BY <1>4, <2>5, <3>2 DEF
            Handle, Logout, CreateWorkspace, SelectWorkspace, AddMember, GrantCreator, Fresh
        <4>2. Authentic(requests[r].credential)
          BY <4>1 DEF RevokeAll, MayRevoke, Accepted
        <4>3. effects[r] = 0
          BY <1>1, <2>5, <3>2, <4>2 DEF EffectsInv
        <4>4. requests[r].credential \in DOMAIN credentials
          BY <2>1 DEF RequestsInv
        <4>5. credentials \in [DOMAIN credentials -> Credential]
          BY LenProperties DEF TypeOK, IdentityTypeOK
        <4>6. credentials'[requests[r].credential].state = "revoked"
          BY <4>1, <4>4, <4>5 DEF RevokeAll, Revoke, Actor, Credential
        <4> QED
          BY <2>2, <3>2, <4>3, <4>6
      <3> QED
        BY <3>1, <3>2
    <2>6. \A q \in Requests : requests[q].kind = "none" => effects'[q] = 0
      BY <2>1, <2>2 DEF EffectsInv
    <2> QED
      BY <2>2, <2>4, <2>5, <2>6 DEF EffectsInv, Authentic
  <1>5. ASSUME NEW r \in Requests, ReceiptExpires(r) PROVE EffectsInv'
    <2>1. UNCHANGED <<credentials, requests, effects>>
      BY <1>5 DEF ReceiptExpires, identityVars
    <2>2. \A q \in Requests : Receipts(q)' = Receipts(q)
      BY <1>5 DEF ReceiptExpires, Receipts
    <2> QED
      BY <2>1, <2>2 DEF EffectsInv, Authentic
  <1>6. CASE UNCHANGED vars
    BY <1>2, <1>6 DEF vars
  <1> QED
    BY <1>2, <1>3, <1>4, <1>5, <1>6 DEF Next

-----------------------------------------------------------------------------
(***************************************************************************)
(* The inductive invariant                                                 *)
(***************************************************************************)

\* The invariant: types, what forms and requests promise, and the properties.
IInv ==
  /\ TypeOK /\ RequestsInv /\ FormsInv
  /\ SessionsKeepTheirAccount /\ RestartSucceeds /\ GrantsInv
  /\ LoginsInv /\ DeliveryInv /\ EffectsInv

\* The initial states have the right types.
LEMMA InitTypes == Init => TypeOK
  <1> SUFFICES ASSUME Init PROVE TypeOK
    OBVIOUS
  <1> DEFINE operator == [admission |-> OperatorEmail, email |-> OperatorEmail,
                          subject |-> OperatorAccount, home |-> 1]
             credential == [user |-> Operator, login |-> Nothing, state |-> "live"]
  <1>1. operator \in User /\ operator.home = 1 /\ credential \in Credential /\ credential.user = 1
    BY IdentityAssumption DEF User, Credential, Operator
  <1>2. users = <<operator>> /\ workspaces = <<1>> /\ credentials = <<credential>> /\ sessions = << >>
        /\ memberships = {<<1, 1, role>> : role \in Roles}
    BY DEF Init, IdentityInit, SignInInit, Operator
  <1> HIDE DEF operator, credential
  <1>3. /\ users \in Seq(User) /\ DOMAIN users = {1} /\ users[1] = operator /\ Len(users) = 1
        /\ workspaces \in Seq(Nat) /\ DOMAIN workspaces = {1} /\ workspaces[1] = 1 /\ Len(workspaces) = 1
        /\ credentials \in Seq(Credential) /\ DOMAIN credentials = {1} /\ credentials[1] = credential
        /\ Len(credentials) = 1
        /\ sessions \in Seq(Session) /\ DOMAIN sessions = {} /\ Len(sessions) = 0
    BY <1>1, <1>2
  <1>4. IdentityTypeOK
    <2>1. memberships \subseteq (DOMAIN workspaces) \X (DOMAIN users) \X Roles
      BY <1>2, <1>3
    <2> QED
      BY <1>1, <1>3, <2>1 DEF IdentityTypeOK
  <1>5. SignInTypeOK
    <2>1. logins \in [Logins -> [stage : {"none", "pending", "consumed", "expired"},
                                 user : 0..Len(users), shown : 0..Len(users)]]
      BY <1>3 DEF Init, SignInInit
    <2>2. clients \in [Logins -> [at : ClientStates, credential : 0..Len(credentials)]]
      BY <1>3 DEF Init, SignInInit, Idle, ClientStates
    <2>3. browsers \in [Browsers -> [flow : Logins \cup {Directory, Nothing}, callback : Callbacks \cup {Nothing},
                                     cookie : 0..Len(sessions), page : Forms \cup {Nothing}]]
      BY <1>3 DEF Init, SignInInit
    <2>4. polls \in [Logins -> 0..2] /\ mailbox \in [Accounts -> Emails \cup {Nothing}] /\ moves \in 0..MaxMoves
      BY SignInAssumption DEF Init, SignInInit
    <2> QED
      BY <1>3, <2>1, <2>2, <2>3, <2>4 DEF SignInTypeOK
  <1>6. MutationTypeOK
    BY <1>3 DEF Init, MutationInit, MutationTypeOK, Unsent
  <1> QED
    BY <1>4, <1>5, <1>6 DEF TypeOK

\* The invariant holds at the start.
LEMMA InitHolds == Init => IInv
  <1> SUFFICES ASSUME Init PROVE IInv
    OBVIOUS
  <1>1. /\ DOMAIN users = {1} /\ users[1].home = 1 /\ DOMAIN workspaces = {1} /\ workspaces[1] = 1
        /\ DOMAIN credentials = {1} /\ credentials[1].login = Nothing /\ DOMAIN sessions = {}
        /\ memberships = {<<1, 1, role>> : role \in Roles}
    BY DEF Init, IdentityInit, SignInInit, Operator
  <1>2. RequestsInv
    BY DEF Init, MutationInit, Unsent, RequestsInv
  <1>3. FormsInv /\ SessionsKeepTheirAccount
    BY <1>1 DEF Init, SignInInit, FormsInv, SessionsKeepTheirAccount
  <1>4. RestartSucceeds
    BY <1>1 DEF RestartSucceeds, Has, Roles
  <1>5. GrantsInv
    <2>1. Creators = {<<1, 1, "creator">>}
      BY <1>1 DEF Creators, Roles
    <2>2. IsFiniteSet(Creators) /\ Cardinality(Creators) = 1
      BY <2>1, FS_Singleton
    <2> QED
      BY <2>2, IdentityAssumption DEF GrantsInv
  <1>6. LoginsInv
    BY <1>1 DEF Init, SignInInit, LoginsInv
  <1>7. DeliveryInv
    BY <1>1 DEF Init, SignInInit, DeliveryInv, Idle, Holding
  <1>8. EffectsInv
    BY DEF Init, MutationInit, Unsent, EffectsInv, Receipts
  <1> QED
    BY InitTypes, <1>2, <1>3, <1>4, <1>5, <1>6, <1>7, <1>8 DEF IInv

\* The invariant is inductive.
LEMMA StepHolds == IInv /\ [Next]_vars => IInv'
  BY TypeStep, MutationStep, FormsStep, SessionsStep, RestartStep, GrantsStep, LoginsStep,
     DeliveryStep, EffectsStep DEF IInv

\* The invariant holds in every run of the identity service.
THEOREM Invariant == Spec => []IInv
  BY InitHolds, StepHolds, PTL DEF Spec

\* The tables are well formed: rows refer to rows that exist (identity/store.py).
THEOREM TypeCorrect == Spec => []TypeOK
  <1>1. IInv => TypeOK
    BY DEF IInv
  <1> QED
    BY <1>1, Invariant, PTL

\* A credential is for the user whom the approval form named (identity/http.py).
THEOREM FormsAreHonest == Spec => []ApprovedAsShown
  <1>1. IInv => ApprovedAsShown
    BY DEF IInv, LoginsInv, ApprovedAsShown
  <1> QED
    BY <1>1, Invariant, PTL

\* Addresses that move do not move users (bind_google of identity/store.py).
THEOREM AccountsStay == Spec => []SessionsKeepTheirAccount
  <1>1. IInv => SessionsKeepTheirAccount
    BY DEF IInv
  <1> QED
    BY <1>1, Invariant, PTL

\* However polls and answers interleave, a login delivers one credential
\* (poll_login of identity/store.py, finish of identity/login.py).
THEOREM OneDelivery == Spec => []DeliveredOnce
  <1>1. IInv => DeliveredOnce
    <2> SUFFICES ASSUME IInv, NEW l \in Logins
                 PROVE  LET issued == {c \in DOMAIN credentials : credentials[c].login = l} IN
                        /\ Cardinality(issued) <= 1
                        /\ clients[l].at \in Holding => issued = {clients[l].credential}
                        /\ clients[l].at = "revoked" => \A c \in issued : ~Authentic(c)
      BY DEF DeliveredOnce, Holding, IssuedBy
    <2> DEFINE issued == {c \in DOMAIN credentials : credentials[c].login = l}
    <2>1. \A c, d \in issued : c = d
      BY IdentityAssumption DEF IInv, DeliveryInv
    <2>2. Cardinality(issued) <= 1
      <3>1. CASE issued = {}
        BY <3>1, FS_EmptySet
      <3>2. CASE issued # {}
        <4>1. PICK c : issued = {c}
          BY <2>1, <3>2
        <4>2. Cardinality({c}) = 1
          BY FS_Singleton
        <4> HIDE DEF issued
        <4> QED
          BY <4>1, <4>2
      <3> QED
        BY <3>1, <3>2
    <2>3. clients[l].at \in Holding => issued = {clients[l].credential}
      BY <2>1 DEF IInv, DeliveryInv
    <2>4. clients[l].at = "revoked" => \A c \in issued : ~Authentic(c)
      BY <2>3 DEF IInv, DeliveryInv, Holding
    <2> QED
      BY <2>2, <2>3, <2>4
  <1> QED
    BY <1>1, Invariant, PTL

\* However copies of a request arrive, it takes effect once while its receipt
\* is kept, and revoking all once at all (mutate of identity/store.py).
THEOREM EffectsAreLimited == Spec => []TakesEffectOnce
  <1>1. IInv => TakesEffectOnce
    <2> SUFFICES ASSUME IInv, NEW r \in Requests
                 PROVE  effects[r] <= IF requests[r].kind # "revoke" /\ r \in forgotten THEN 2 ELSE 1
      BY DEF TakesEffectOnce
    <2>1. effects[r] \in Nat
      BY DEF IInv, TypeOK, MutationTypeOK
    <2>2. CASE requests[r].kind = "revoke"
      BY <2>1, <2>2 DEF IInv, EffectsInv
    <2>3. CASE requests[r].kind # "revoke"
      BY <2>1, <2>3 DEF IInv, EffectsInv, Receipts
    <2> QED
      BY <2>2, <2>3
  <1> QED
    BY <1>1, Invariant, PTL

\* Whatever was served, the migration accepts the tables when the service
\* starts again (identity/workspaces.py).
THEOREM RestartsSucceed == Spec => []RestartSucceeds
  <1>1. IInv => RestartSucceeds
    BY DEF IInv
  <1> QED
    BY <1>1, Invariant, PTL

\* The grants stay within the number of creators (grant of identity/store.py).
THEOREM GrantsAreLimited == Spec => []CreatorsWithinLimit
  <1>1. IInv => CreatorsWithinLimit
    BY DEF IInv, GrantsInv, CreatorsWithinLimit
  <1> QED
    BY <1>1, Invariant, PTL

-----------------------------------------------------------------------------
(***************************************************************************)
(* The promise of module Delegation                                        *)
(***************************************************************************)

\* What the promise sees of a login is as it was, or has made one of its steps.
Alike(l) == LoginOf(l)' = LoginOf(l) /\ ClientOf(l)' = ClientOf(l)

Turns(l, state) == LoginOf(l)' = [LoginOf(l) EXCEPT !.is = state]

Moves(l) ==
  \/ LoginOf(l).is = "new" /\ Turns(l, "open") /\ ClientOf(l)' = ClientOf(l)
  \/ /\ LoginOf(l).is = "open" /\ LoginOf(l)'.by # 0
     /\ LoginOf(l)' = [is |-> "agreed", by |-> LoginOf(l)'.by] /\ ClientOf(l)' = ClientOf(l)
  \/ LoginOf(l).is \in {"open", "agreed"} /\ Turns(l, "closed") /\ ClientOf(l)' = ClientOf(l)
  \/ /\ LoginOf(l).is = "agreed" /\ Turns(l, "live")
     /\ \/ ClientOf(l)' = ClientOf(l)
        \/ ClientOf(l) = "without" /\ ClientOf(l)' = "holding"
  \/ LoginOf(l).is = "live" /\ Turns(l, "ended") /\ ClientOf(l)' = ClientOf(l)
  \/ /\ ClientOf(l) = "holding" /\ LoginOf(l).is \in {"live", "ended"} /\ Turns(l, "ended")
     /\ ClientOf(l)' = "gave up" \/ ClientOf(l)' = ClientOf(l)
  \/ ClientOf(l) = "holding" /\ ClientOf(l)' \in {"saved", "without"} /\ LoginOf(l)' = LoginOf(l)

LEMMA PromiseStutters ==
  ASSUME \A k \in Logins : Alike(k)
  PROVE  [Delegated!Next]_(Delegated!vars)
  BY DEF Alike, Delegated!vars

LEMMA PromiseSteps ==
  ASSUME NEW l \in Logins, Moves(l), \A k \in Logins : k # l => Alike(k)
  PROVE  [Delegated!Next]_(Delegated!vars)
  <1>1. PICK f, ff : f = [k \in Logins |-> LoginOf(k)] /\ ff = [k \in Logins |-> LoginOf(k)']
    OBVIOUS
  <1>2. PICK g, gg : g = [k \in Logins |-> ClientOf(k)] /\ gg = [k \in Logins |-> ClientOf(k)']
    OBVIOUS
  <1>3. /\ \A x : LoginOf(l)' = x => ff = [f EXCEPT ![l] = x]
        /\ \A x : ClientOf(l)' = x => gg = [g EXCEPT ![l] = x]
    BY <1>1, <1>2 DEF Alike
  <1>4. /\ LoginOf(l)' = LoginOf(l) => ff = f
        /\ ClientOf(l)' = ClientOf(l) => gg = g
    BY <1>1, <1>2 DEF Alike
  <1>5. f[l] = LoginOf(l) /\ ff[l] = LoginOf(l)' /\ g[l] = ClientOf(l)
    BY <1>1, <1>2
  <1>6. \A s : Turns(l, s) => ff = [f EXCEPT ![l].is = s]
    BY <1>3, <1>5 DEF Turns
  <1>7. \/ LoginOf(l).is = "new" /\ Delegated!Open(l)
        \/ LoginOf(l).is = "open" /\ (Delegated!Agree(l) \/ Delegated!Close(l))
        \/ LoginOf(l).is = "agreed" /\ (Delegated!Give(l) \/ Delegated!Close(l))
        \/ LoginOf(l).is = "live" /\ Delegated!End(l)
        \/ ClientOf(l) = "holding" /\ (Delegated!GiveUp(l) \/ Delegated!Part(l))
    BY <1>1, <1>2, <1>3, <1>4, <1>5, <1>6
    DEF Moves, Delegated!Open, Delegated!Agree, Delegated!Close, Delegated!Give, Delegated!End,
        Delegated!GiveUp, Delegated!Part, Delegated!Becomes
  <1> QED
    BY <1>7 DEF Delegated!Next

\* What is left alone reads the same.
LEMMA SameLogin ==
  ASSUME NEW l, logins'[l] = logins[l], IssuedBy(l)' = IssuedBy(l),
         \A c \in IssuedBy(l) : credentials'[c].user = credentials[c].user /\ (Authentic(c)' <=> Authentic(c))
  PROVE  LoginOf(l)' = LoginOf(l)
  BY DEF LoginOf, StageOf, IssuedBy, Authentic

LEMMA SameClient ==
  ASSUME NEW l, clients'[l] = clients[l]
  PROVE  ClientOf(l)' = ClientOf(l)
  BY DEF ClientOf

\* Credentials that are the same leave as much of a login as its row does.
LEMMA SameCredentials ==
  ASSUME UNCHANGED credentials, NEW l, logins'[l] = logins[l]
  PROVE  LoginOf(l)' = LoginOf(l)
  BY DEF LoginOf, StageOf, IssuedBy, Authentic

\* A login reads as its credential, once it has one.
LEMMA IssuedReads ==
  ASSUME IInv, NEW l \in Logins, NEW c \in IssuedBy(l)
  PROVE  /\ LoginOf(l) = [is |-> IF Authentic(c) THEN "live" ELSE "ended", by |-> credentials[c].user]
         /\ IssuedBy(l) = {c}
  <1>1. \A d \in IssuedBy(l) : d = c
    BY IdentityAssumption DEF IssuedBy, IInv, DeliveryInv
  <1>2. (CHOOSE d \in IssuedBy(l) : TRUE) = c
    BY <1>1
  <1>3. IssuedBy(l) = {c}
    BY <1>1
  <1> QED
    BY <1>2, <1>3 DEF LoginOf

\* A login that is not consumed has none, and its client is without one.
LEMMA OpenReads ==
  ASSUME IInv, NEW l \in Logins, logins[l].stage # "consumed"
  PROVE  /\ IssuedBy(l) = {} /\ LoginOf(l) = [is |-> StageOf(l), by |-> logins[l].shown]
         /\ ClientOf(l) = "without" /\ clients[l].at \notin Holding
  <1>1. \A c \in DOMAIN credentials : credentials[c].login # l
    BY IdentityAssumption DEF IInv, LoginsInv
  <1>2. IssuedBy(l) = {}
    BY <1>1 DEF IssuedBy
  <1>3. clients[l].at \notin Holding
    BY <1>1 DEF IInv, DeliveryInv
  <1> QED
    BY <1>2, <1>3 DEF LoginOf, ClientOf, Holding

\* What a client holds is of its login.
LEMMA HoldingReads ==
  ASSUME IInv, NEW l \in Logins, clients[l].at \in Holding
  PROVE  clients[l].credential \in IssuedBy(l) /\ clients[l].credential \in DOMAIN credentials
  BY DEF IInv, DeliveryInv, IssuedBy

\* The rows that a step changes leave the credentials of each login, or end some.
LEMMA RevocationReads ==
  ASSUME IInv, IdentityGrows, DOMAIN credentials' = DOMAIN credentials, UNCHANGED logins,
         NEW l \in Logins
  PROVE  /\ IssuedBy(l)' = IssuedBy(l)
         /\ (\A c \in IssuedBy(l) : Authentic(c)' <=> Authentic(c)) => LoginOf(l)' = LoginOf(l)
         /\ \A c \in IssuedBy(l) : ~Authentic(c)' => Turns(l, "ended") /\ LoginOf(l).is \in {"live", "ended"}
  <1>1. IssuedBy(l)' = IssuedBy(l)
    BY DEF IssuedBy, IdentityGrows
  <1>2. \A c \in IssuedBy(l) : credentials'[c].user = credentials[c].user
    BY DEF IssuedBy, IdentityGrows
  <1>3. (\A c \in IssuedBy(l) : Authentic(c)' <=> Authentic(c)) => LoginOf(l)' = LoginOf(l)
    BY <1>1, <1>2, SameLogin
  <1>4. ASSUME NEW c \in IssuedBy(l), ~Authentic(c)'
        PROVE  Turns(l, "ended") /\ LoginOf(l).is \in {"live", "ended"}
    <2>1. /\ LoginOf(l) = [is |-> IF Authentic(c) THEN "live" ELSE "ended", by |-> credentials[c].user]
          /\ IssuedBy(l) = {c}
      BY IssuedReads
    <2>2. (CHOOSE d \in IssuedBy(l)' : TRUE) = c
      BY <1>1, <2>1
    <2>3. LoginOf(l)' = [is |-> "ended", by |-> credentials[c].user]
      BY <1>1, <1>2, <1>4, <2>1, <2>2 DEF LoginOf
    <2> QED
      BY <2>1, <2>3 DEF Turns
  <1> QED
    BY <1>1, <1>3, <1>4

\* One credential ends: authority of its login does, if it has one.
LEMMA OneEnds ==
  ASSUME IInv, IdentityGrows, DOMAIN credentials' = DOMAIN credentials, UNCHANGED <<logins, clients>>,
         NEW c \in DOMAIN credentials, ~Authentic(c)',
         \A d \in DOMAIN credentials : d # c => (Authentic(d)' <=> Authentic(d))
  PROVE  [Delegated!Next]_(Delegated!vars)
  <1>1. \A k \in Logins : ClientOf(k)' = ClientOf(k)
    BY SameClient
  <1>2. \A k \in Logins : c \notin IssuedBy(k) => Alike(k)
    BY <1>1, RevocationReads DEF IssuedBy, Alike
  <1>3. CASE \A k \in Logins : c \notin IssuedBy(k)
    BY <1>2, <1>3, PromiseStutters
  <1>4. CASE ~Authentic(c)
    <2>1. \A k \in Logins : Alike(k)
      BY <1>1, <1>4, RevocationReads DEF IssuedBy, Alike
    <2> QED
      BY <2>1, PromiseStutters
  <1>5. ASSUME NEW l \in Logins, c \in IssuedBy(l), Authentic(c) PROVE [Delegated!Next]_(Delegated!vars)
    <2>1. \A k \in Logins : k # l => c \notin IssuedBy(k)
      BY <1>5 DEF IssuedBy
    <2>2. LoginOf(l).is = "live"
      BY <1>5, IssuedReads
    <2>3. Turns(l, "ended")
      BY <1>5, RevocationReads
    <2>4. Moves(l)
      BY <1>1, <2>2, <2>3 DEF Moves
    <2> QED
      BY <1>2, <2>1, <2>4, PromiseSteps
  <1> QED
    BY <1>3, <1>4, <1>5

\* A login is agreed to after it was begun.
BegunInv == \A l \in Logins : logins[l].stage = "none" => logins[l].shown = 0

LEMMA BegunInitially == Init => BegunInv
  BY DEF Init, SignInInit, BegunInv

LEMMA BegunKept == IInv /\ BegunInv /\ [Next]_vars => BegunInv'
  <1> SUFFICES ASSUME IInv, BegunInv, [Next]_vars PROVE BegunInv'
    OBVIOUS
  <1>1. logins \in [Logins -> [stage : Stages, user : 0..Len(users), shown : 0..Len(users)]]
    BY DEF IInv, TypeOK, SignInTypeOK, Stages
  <1>2. CASE UNCHANGED logins
    BY <1>2 DEF BegunInv
  <1>3. ASSUME NEW l \in Logins, StartLogin(l) \/ Deliver(l) \/ LoginExpires(l) PROVE BegunInv'
    BY SMTT(60), <1>1, <1>3 DEF StartLogin, Deliver, Consume, LoginExpires, BegunInv
  <1>4. ASSUME NEW b \in Browsers, Approve(b) PROVE BegunInv'
    BY <1>1, <1>4 DEF Approve, Approvable, Pending, BegunInv
  <1>5. ASSUME NEW l \in Logins, Client(l), ~StartLogin(l), ~LoginExpires(l), ~Deliver(l)
        PROVE  UNCHANGED logins
    BY <1>5 DEF
      Client, Ask, StopAsking, AttemptExpires, PollRefused, PollPending, Save, RevokeUnsaved,
      NotConfirmed, Killed
  <1>6. ASSUME NEW b \in Browsers, Browser(b), ~Approve(b) PROVE UNCHANGED logins
    BY <1>6 DEF Browser, Visit, Callback, Bind, BindRefused, OpenForm
  <1>7. CASE World
    BY <1>2, <1>7 DEF World, SessionExpires, EmailMoves
  <1>8. CASE UNCHANGED signInVars
    BY <1>2, <1>8 DEF signInVars
  <1> QED
    BY <1>2, <1>3, <1>4, <1>5, <1>6, <1>7, <1>8 DEF Next, SignInNext, vars

\* The client: steps that change no credential.
LEMMA ClientPromises ==
  ASSUME IInv, BegunInv, [Next]_vars, NEW l \in Logins, Client(l), UNCHANGED mutationVars,
         ~Deliver(l), ~RevokeUnsaved(l)
  PROVE  [Delegated!Next]_(Delegated!vars)
  <1>1. /\ clients \in [Logins -> [at : ClientStates, credential : 0..Len(credentials)]]
        /\ logins \in [Logins -> [stage : Stages, user : 0..Len(users), shown : 0..Len(users)]]
    BY DEF IInv, TypeOK, SignInTypeOK, Stages
  <1>2. UNCHANGED credentials
    BY DEF
      Client, StartLogin, Ask, StopAsking, AttemptExpires, PollRefused, PollPending,
      LoginExpires, Save, NotConfirmed, Killed, identityVars
  <1>3. \A k \in Logins : k # l => clients'[k] = clients[k] /\ logins'[k] = logins[k]
    BY <1>1 DEF
      Client, StartLogin, Ask, StopAsking, AttemptExpires, PollRefused, PollPending,
      LoginExpires, Save, NotConfirmed, Killed, At, Answer
  <1>4. \A k \in Logins : k # l => Alike(k)
    BY <1>2, <1>3, SameCredentials, SameClient DEF Alike
  <1>5. CASE StartLogin(l)
    <2>1. /\ logins[l].stage = "none" /\ logins[l].shown = 0
          /\ logins'[l].stage = "pending" /\ logins'[l].shown = 0
      BY <1>1, <1>5 DEF StartLogin, BegunInv
    <2>2. IssuedBy(l) = {} /\ IssuedBy(l)' = {} /\ ClientOf(l) = "without" /\ LoginOf(l) = [is |-> "new", by |-> 0]
      BY <1>2, <2>1, OpenReads DEF IssuedBy, StageOf
    <2>3. LoginOf(l)' = [is |-> "open", by |-> 0]
      BY <2>1, <2>2 DEF LoginOf, StageOf
    <2>4. ClientOf(l)' = "without"
      BY <1>1, <1>5 DEF StartLogin, At, ClientOf
    <2>5. Turns(l, "open")
      BY <2>2, <2>3 DEF Turns
    <2>6. Moves(l)
      BY <2>2, <2>4, <2>5 DEF Moves
    <2> QED
      BY <1>4, <2>6, PromiseSteps
  <1>6. CASE LoginExpires(l)
    <2>1. logins[l].stage = "pending" /\ logins'[l].stage = "expired" /\ logins'[l].shown = logins[l].shown
      BY <1>1, <1>6 DEF LoginExpires, Pending
    <2>2. /\ IssuedBy(l) = {} /\ IssuedBy(l)' = {}
          /\ LoginOf(l) = [is |-> StageOf(l), by |-> logins[l].shown] /\ StageOf(l) \in {"open", "agreed"}
      BY <1>2, <2>1, OpenReads DEF IssuedBy, StageOf
    <2>3. LoginOf(l)' = [is |-> "closed", by |-> logins[l].shown]
      BY <2>1, <2>2 DEF LoginOf, StageOf
    <2>4. ClientOf(l)' = ClientOf(l)
      BY <1>6, SameClient DEF LoginExpires
    <2>5. Turns(l, "closed")
      BY <2>2, <2>3 DEF Turns
    <2>6. Moves(l)
      BY <2>2, <2>4, <2>5 DEF Moves
    <2> QED
      BY <1>4, <2>6, PromiseSteps
  <1>7. CASE UNCHANGED logins
    <2>1. LoginOf(l)' = LoginOf(l)
      BY <1>2, <1>7, SameCredentials
    <2>2. CASE ClientOf(l)' = ClientOf(l)
      BY <1>4, <2>1, <2>2, PromiseStutters DEF Alike
    <2>3. CASE ClientOf(l) = "holding" /\ ClientOf(l)' \in {"saved", "without"}
      BY <1>4, <2>1, <2>3, PromiseSteps DEF Moves
    <2>4. CASE Ask(l) \/ StopAsking(l) \/ AttemptExpires(l) \/ NotConfirmed(l)
      <3>1. ClientOf(l)' = ClientOf(l)
        BY ZenonT(60), <1>1, <2>4 DEF Ask, StopAsking, AttemptExpires, NotConfirmed, At, ClientOf
      <3> QED
        BY <2>2, <3>1
    <2>5. CASE PollRefused(l) \/ PollPending(l)
      <3>1. PICK s \in {"over", "waiting"} : Answer(l, s, 0)
        BY <2>5 DEF PollRefused, PollPending
      <3>2. ClientOf(l)' = ClientOf(l)
        <4>1. CASE UNCHANGED clients
          BY <4>1 DEF ClientOf
        <4>2. CASE clients[l].at = "asking" /\ clients' = [clients EXCEPT ![l] = [at |-> s, credential |-> 0]]
          <5>1. clients'[l].at = s
            BY <1>1, <4>2
          <5> QED
            BY <4>2, <5>1 DEF ClientOf
        <4> QED
          BY <3>1, <4>1, <4>2 DEF Answer
      <3> QED
        BY <2>2, <3>2
    <2>6. CASE Save(l) \/ Killed(l)
      <3>1. /\ clients[l].at \in {"saving", "undoing"}
            /\ clients'[l].at \in {"saved", "undoing", "waiting"}
        BY <1>1, <2>6 DEF Save, Killed, At
      <3>2. ClientOf(l) = "holding" /\ ClientOf(l)' \in {"saved", "without", "holding"}
        BY <3>1 DEF ClientOf
      <3> QED
        BY <2>2, <2>3, <3>2
    <2>7. ~StartLogin(l) /\ ~LoginExpires(l)
      BY <1>1, <1>7 DEF StartLogin, LoginExpires, Pending
    <2> QED
      BY <2>4, <2>5, <2>6, <2>7 DEF Client
  <1>8. StartLogin(l) \/ LoginExpires(l) \/ UNCHANGED logins
    BY DEF Client, Ask, StopAsking, AttemptExpires, PollRefused, PollPending, Save, NotConfirmed, Killed
  <1> QED
    BY <1>5, <1>6, <1>7, <1>8

\* A delivery gives authority of the person who agreed.
LEMMA DeliveryPromises ==
  ASSUME IInv, IInv', NEW l \in Logins, Deliver(l)
  PROVE  [Delegated!Next]_(Delegated!vars)
  <1> DEFINE n == Len(credentials) + 1
  <1>1. /\ clients \in [Logins -> [at : ClientStates, credential : 0..Len(credentials)]]
        /\ logins \in [Logins -> [stage : Stages, user : 0..Len(users), shown : 0..Len(users)]]
    BY DEF IInv, TypeOK, SignInTypeOK, Stages
  <1>2. /\ n \notin DOMAIN credentials /\ DOMAIN credentials' = DOMAIN credentials \cup {n}
        /\ \A c \in DOMAIN credentials : credentials'[c] = credentials[c]
        /\ credentials'[n].login = l /\ credentials'[n].user = logins[l].user
        /\ credentials'[n].state = "live"
    BY Delivery DEF IInv
  <1>3. \/ UNCHANGED clients
        \/ /\ clients[l].at = "asking"
           /\ clients' = [clients EXCEPT ![l] = [at |-> "saving", credential |-> n]]
    BY DEF Deliver, Answer
  <1> HIDE DEF n
  <1>4. logins[l].stage = "pending" /\ logins[l].shown = logins[l].user /\ logins[l].user # 0
    BY <1>1 DEF Deliver, Pending, IInv, LoginsInv
  <1>5. IssuedBy(l) = {} /\ LoginOf(l) = [is |-> "agreed", by |-> logins[l].user]
    BY <1>4, OpenReads DEF StageOf
  <1>6. IssuedBy(l)' = {n}
    BY <1>2, <1>5 DEF IssuedBy
  <1>7. LoginOf(l)' = [is |-> "live", by |-> logins[l].user]
    <2>1. (CHOOSE d \in IssuedBy(l)' : TRUE) = n
      BY <1>6
    <2> QED
      BY <1>2, <1>6, <2>1 DEF LoginOf, Authentic
  <1>8. \/ ClientOf(l)' = ClientOf(l)
        \/ ClientOf(l) = "without" /\ ClientOf(l)' = "holding"
    <2>1. CASE UNCHANGED clients
      BY <2>1 DEF ClientOf
    <2>2. CASE clients[l].at = "asking" /\ clients' = [clients EXCEPT ![l] = [at |-> "saving", credential |-> n]]
      <3>1. clients'[l].at = "saving"
        BY <1>1, <2>2
      <3> QED
        BY <2>2, <3>1 DEF ClientOf
    <2> QED
      BY <1>3, <2>1, <2>2
  <1>9. Moves(l)
    BY <1>5, <1>7, <1>8 DEF Moves, Turns
  <1>10. ASSUME NEW k \in Logins, k # l PROVE Alike(k)
    <2>1. logins'[k] = logins[k] /\ clients'[k] = clients[k]
      BY <1>1, <1>3, <1>10 DEF Deliver, Consume
    <2>2. IssuedBy(k)' = IssuedBy(k)
      BY <1>2, <1>10 DEF IssuedBy
    <2>3. \A c \in IssuedBy(k) : credentials'[c].user = credentials[c].user /\ (Authentic(c)' <=> Authentic(c))
      BY <1>2 DEF IssuedBy, Authentic
    <2> QED
      BY <2>1, <2>2, <2>3, SameLogin, SameClient DEF Alike
  <1> QED
    BY <1>9, <1>10, PromiseSteps

\* What could not be saved is given up.
LEMMA UndoPromises ==
  ASSUME IInv, IdentityGrows, NEW l \in Logins, RevokeUnsaved(l)
  PROVE  [Delegated!Next]_(Delegated!vars)
  <1>0. PICK c : c = clients[l].credential
    OBVIOUS
  <1>1. clients \in [Logins -> [at : ClientStates, credential : 0..Len(credentials)]]
    BY DEF IInv, TypeOK, SignInTypeOK
  <1>2. /\ clients[l].at \in {"undoing", "unconfirmed"}
        /\ clients'[l].at \in {"unconfirmed", "revoked"}
        /\ \A k \in Logins : k # l => clients'[k] = clients[k]
        /\ UNCHANGED logins
    BY <1>1 DEF RevokeUnsaved, At
  <1>3. c \in IssuedBy(l) /\ c \in DOMAIN credentials
    BY <1>0, <1>2, HoldingReads DEF Holding
  <1>4. credentials \in [DOMAIN credentials -> Credential]
    BY LenProperties DEF IInv, TypeOK, IdentityTypeOK
  <1>5. /\ DOMAIN credentials' = DOMAIN credentials /\ ~Authentic(c)'
        /\ \A d \in DOMAIN credentials : d # c => (Authentic(d)' <=> Authentic(d))
    <2>1. credentials' = [d \in DOMAIN credentials |->
                           IF d = c THEN [credentials[d] EXCEPT !.state = "revoked"] ELSE credentials[d]]
      BY <1>0 DEF RevokeUnsaved, Revoke
    <2>2. DOMAIN credentials' = DOMAIN credentials /\ \A d \in DOMAIN credentials : d # c => credentials'[d] = credentials[d]
      BY <2>1
    <2>3. credentials'[c].state = "revoked"
      BY <1>3, <1>4, <2>1 DEF Credential
    <2> QED
      BY <2>2, <2>3 DEF Authentic
  <1>6. Turns(l, "ended") /\ LoginOf(l).is \in {"live", "ended"}
    BY <1>2, <1>3, <1>5, RevocationReads
  <1>7. ClientOf(l) = "holding" /\ ClientOf(l)' \in {"holding", "gave up"}
    BY <1>2 DEF ClientOf
  <1>8. Moves(l)
    BY <1>6, <1>7 DEF Moves
  <1>9. ASSUME NEW k \in Logins, k # l PROVE Alike(k)
    <2>1. \A d \in IssuedBy(k) : d \in DOMAIN credentials /\ d # c
      BY <1>3, <1>9 DEF IssuedBy
    <2>2. LoginOf(k)' = LoginOf(k)
      BY <1>2, <1>5, <2>1, RevocationReads
    <2> QED
      BY <1>2, <1>9, <2>2, SameClient DEF Alike
  <1> QED
    BY <1>8, <1>9, PromiseSteps

\* The browser: at most an approval, by the person whom the form named.
LEMMA BrowserPromises ==
  ASSUME IInv, NEW b \in Browsers, Browser(b)
  PROVE  [Delegated!Next]_(Delegated!vars)
  <1>1. UNCHANGED <<credentials, clients>>
    BY DEF Browser, Visit, Callback, Bind, BindRefused, Approve, OpenForm, identityVars
  <1>2. \A k \in Logins : ClientOf(k)' = ClientOf(k)
    BY <1>1, SameClient
  <1>3. CASE UNCHANGED logins
    BY <1>1, <1>2, <1>3, SameCredentials, PromiseStutters DEF Alike
  <1>4. CASE Approve(b)
    <2>1. PICK l, u : l = browsers[b].page.login /\ u = sessions[browsers[b].cookie].user
      OBVIOUS
    <2>2. /\ browsers[b].page \in Forms \cup {Nothing} /\ browsers[b].page # Nothing
          /\ browsers[b].page.session = browsers[b].cookie
      BY <1>4 DEF Approve, Genuine, IInv, TypeOK, SignInTypeOK
    <2>3. browsers[b].page.user = u /\ u # 0
      <3>1. /\ browsers[b].page.session \in DOMAIN sessions
            /\ browsers[b].page.user = sessions[browsers[b].page.session].user
        BY <2>2 DEF IInv, FormsInv
      <3>2. u \in DOMAIN users
        BY <2>1, <2>2, <3>1 DEF IInv, TypeOK, SignInTypeOK
      <3>3. DOMAIN users = 1..Len(users) /\ Len(users) \in Nat
        BY LenProperties DEF IInv, TypeOK, IdentityTypeOK
      <3> QED
        BY <2>1, <2>2, <3>1, <3>2, <3>3
    <2>4. l \in Logins
      BY <2>1, <2>2 DEF Forms
    <2>5. logins \in [Logins -> [stage : Stages, user : 0..Len(users), shown : 0..Len(users)]]
      BY DEF IInv, TypeOK, SignInTypeOK, Stages
    <2>6. logins' = [logins EXCEPT ![l].user = u, ![l].shown = u]
      BY <1>4, <2>1, <2>3 DEF Approve
    <2>7. logins[l].stage = "pending" /\ logins[l].shown = 0
      BY <1>4, <2>1, <2>4 DEF Approve, Approvable, Pending, IInv, LoginsInv
    <2>8. logins'[l].stage = "pending" /\ logins'[l].shown = u
      BY <2>4, <2>5, <2>6, <2>7
    <2>9. IssuedBy(l) = {} /\ LoginOf(l) = [is |-> "open", by |-> 0]
      BY <2>4, <2>7, OpenReads DEF StageOf
    <2>10. LoginOf(l)' = [is |-> "agreed", by |-> u]
      <3>1. IssuedBy(l)' = {}
        BY <1>1, <2>9 DEF IssuedBy
      <3> QED
        BY <2>3, <2>8, <3>1 DEF LoginOf, StageOf
    <2>11. Moves(l)
      BY <1>2, <2>3, <2>4, <2>9, <2>10 DEF Moves
    <2>12. \A k \in Logins : k # l => Alike(k)
      BY <1>1, <1>2, <2>5, <2>6, SameCredentials DEF Alike
    <2> QED
      BY <2>4, <2>11, <2>12, PromiseSteps
  <1> QED
    BY <1>3, <1>4 DEF Browser, Visit, Callback, Bind, BindRefused, OpenForm

\* "Revoke all" ends the authority that a person gave in every login.
LEMMA RevokeAllPromises ==
  ASSUME IInv, IdentityGrows, NEW r \in Requests, RevokeAll(r), UNCHANGED signInVars
  PROVE  [Delegated!Next]_(Delegated!vars)
  <1>1. PICK u : u = Actor(r)
    OBVIOUS
  <1>2. credentials \in [DOMAIN credentials -> Credential]
    BY LenProperties DEF IInv, TypeOK, IdentityTypeOK
  <1>3. UNCHANGED <<logins, clients>>
    BY DEF signInVars
  <1>4. credentials' = [c \in DOMAIN credentials |->
                          IF credentials[c].user = u THEN [credentials[c] EXCEPT !.state = "revoked"]
                          ELSE credentials[c]]
    BY <1>1 DEF RevokeAll, Revoke
  <1>5. /\ DOMAIN credentials' = DOMAIN credentials
        /\ \A c \in DOMAIN credentials : credentials[c].user # u => credentials'[c] = credentials[c]
    BY <1>4
  <1>6. \A c \in DOMAIN credentials : credentials[c].user = u => credentials'[c].state = "revoked"
    BY <1>2, <1>4 DEF Credential
  <1>7. \A k \in Logins : ClientOf(k)' = ClientOf(k)
    BY <1>3, SameClient
  <1>8. ASSUME NEW k \in Logins
        PROVE  LoginOf(k)' = IF LoginOf(k).is = "live" /\ LoginOf(k).by = u
                             THEN [LoginOf(k) EXCEPT !.is = "ended"] ELSE LoginOf(k)
    <2>1. CASE IssuedBy(k) = {}
      <3>1. LoginOf(k)' = LoginOf(k)
        BY <1>3, <1>5, <2>1, RevocationReads
      <3>2. LoginOf(k).is # "live"
        BY <2>1 DEF LoginOf, StageOf
      <3> QED
        BY <3>1, <3>2
    <2>2. ASSUME NEW c \in IssuedBy(k)
          PROVE  LoginOf(k)' = IF LoginOf(k).is = "live" /\ LoginOf(k).by = u
                               THEN [LoginOf(k) EXCEPT !.is = "ended"] ELSE LoginOf(k)
      <3>1. /\ LoginOf(k) = [is |-> IF Authentic(c) THEN "live" ELSE "ended", by |-> credentials[c].user]
            /\ IssuedBy(k) = {c} /\ c \in DOMAIN credentials
        BY <2>2, IssuedReads DEF IssuedBy
      <3>2. CASE Authentic(c) /\ credentials[c].user = u
        <4>1. Turns(k, "ended")
          BY <1>3, <1>5, <1>6, <2>2, <3>1, <3>2, RevocationReads DEF Authentic
        <4> QED
          BY <3>1, <3>2, <4>1 DEF Turns
      <3>3. CASE ~(Authentic(c) /\ credentials[c].user = u)
        <4>1. Authentic(c)' <=> Authentic(c)
          BY <1>5, <1>6, <3>1, <3>3 DEF Authentic
        <4>2. LoginOf(k)' = LoginOf(k)
          BY <1>3, <1>5, <3>1, <4>1, RevocationReads
        <4> QED
          BY <3>1, <3>3, <4>2
      <3> QED
        BY <3>2, <3>3
    <2> QED
      BY <2>1, <2>2
  <1>9. CASE \A k \in Logins : ~(LoginOf(k).is = "live" /\ LoginOf(k).by = u)
    BY <1>7, <1>8, <1>9, PromiseStutters DEF Alike
  <1>10. ASSUME NEW l \in Logins, LoginOf(l).is = "live", LoginOf(l).by = u
         PROVE  [Delegated!Next]_(Delegated!vars)
    <2>1. PICK f, ff : f = [k \in Logins |-> LoginOf(k)] /\ ff = [k \in Logins |-> LoginOf(k)']
      OBVIOUS
    <2>2. f[l].is = "live" /\ f[l].by = u
      BY <1>10, <2>1
    <2>3. ff = [k \in Logins |-> IF f[k].is = "live" /\ f[k].by = f[l].by
                                 THEN [f[k] EXCEPT !.is = "ended"] ELSE f[k]]
      BY <1>8, <2>1, <2>2
    <2>4. Delegated!EndAll(l)
      BY <1>7, <2>1, <2>2, <2>3 DEF Delegated!EndAll
    <2> QED
      BY <1>10, <2>4 DEF Delegated!Next
  <1> QED
    BY <1>9, <1>10

\* Requests with receipts end authority, or leave it alone.
LEMMA RequestPromises ==
  ASSUME IInv, IdentityGrows, NEW r \in Requests, Handle(r) \/ ReceiptExpires(r), UNCHANGED signInVars
  PROVE  [Delegated!Next]_(Delegated!vars)
  <1>1. UNCHANGED <<logins, clients>>
    BY DEF signInVars
  <1>2. CASE UNCHANGED credentials
    BY <1>1, <1>2, SameCredentials, SameClient, PromiseStutters DEF Alike
  <1>3. CASE Logout(r)
    <2>1. PICK c : c = requests[r].credential
      OBVIOUS
    <2>2. c \in DOMAIN credentials
      BY <1>3, <2>1 DEF Logout, Fresh, IInv, RequestsInv
    <2>3. credentials \in [DOMAIN credentials -> Credential]
      BY LenProperties DEF IInv, TypeOK, IdentityTypeOK
    <2>4. credentials' = [d \in DOMAIN credentials |->
                            IF d = c THEN [credentials[d] EXCEPT !.state = "revoked"] ELSE credentials[d]]
      BY <1>3, <2>1 DEF Logout, Revoke
    <2>5. /\ DOMAIN credentials' = DOMAIN credentials
          /\ \A d \in DOMAIN credentials : d # c => credentials'[d] = credentials[d]
      BY <2>4
    <2>6. credentials'[c].state = "revoked"
      BY <2>2, <2>3, <2>4 DEF Credential
    <2>7. ~Authentic(c)' /\ \A d \in DOMAIN credentials : d # c => (Authentic(d)' <=> Authentic(d))
      BY <2>5, <2>6 DEF Authentic
    <2> QED
      BY <1>1, <2>2, <2>5, <2>7, OneEnds
  <1>4. CASE RevokeAll(r)
    BY <1>4, RevokeAllPromises
  <1> QED
    BY <1>2, <1>3, <1>4 DEF
      Handle, CreateWorkspace, SelectWorkspace, AddMember, GrantCreator, ReceiptExpires, identityVars

\* Sign-ins keep the promise of module Delegation: one person agrees to a login
\* and gives its client authority once, which ends once (identity/login.py, the
\* auth routes of identity/http.py and their transactions in identity/store.py).
THEOREM DelegationKept == Spec => DelegatesOnce
  <1>1. Init => Delegated!Init
    <2> SUFFICES ASSUME Init PROVE Delegated!Init
      OBVIOUS
    <2>1. ASSUME NEW l \in Logins
          PROVE  LoginOf(l) = [is |-> "new", by |-> 0] /\ ClientOf(l) = "without"
      <3>1. /\ logins[l].stage = "none" /\ logins[l].shown = 0 /\ clients[l].at = "idle"
            /\ credentials[1].login = Nothing /\ DOMAIN credentials = {1}
        BY DEF Init, SignInInit, IdentityInit, Idle
      <3>2. IssuedBy(l) = {}
        BY <3>1, IdentityAssumption DEF IssuedBy
      <3> QED
        BY <3>1, <3>2 DEF LoginOf, StageOf, ClientOf
    <2> QED
      BY <2>1 DEF Delegated!Init
  <1>2. IInv /\ BegunInv /\ IInv' /\ [Next]_vars => [Delegated!Next]_(Delegated!vars)
    <2> SUFFICES ASSUME IInv, BegunInv, IInv', [Next]_vars PROVE [Delegated!Next]_(Delegated!vars)
      OBVIOUS
    <2>1. IdentityGrows
      BY IdentityStep DEF IInv
    <2>2. ASSUME NEW l \in Logins, Client(l), UNCHANGED mutationVars
          PROVE  [Delegated!Next]_(Delegated!vars)
      BY <2>1, <2>2, ClientPromises, DeliveryPromises, UndoPromises
    <2>3. ASSUME NEW b \in Browsers, Browser(b) PROVE [Delegated!Next]_(Delegated!vars)
      BY <2>3, BrowserPromises
    <2>4. CASE UNCHANGED <<credentials, logins, clients>>
      BY <2>4, SameCredentials, SameClient, PromiseStutters DEF Alike
    <2>5. CASE World \/ UNCHANGED vars
      BY <2>4, <2>5 DEF World, SessionExpires, EmailMoves, vars, signInVars, identityVars
    <2>6. ASSUME NEW c \in DOMAIN credentials, CredentialExpires(c), UNCHANGED signInVars
          PROVE  [Delegated!Next]_(Delegated!vars)
      <3>1. credentials \in [DOMAIN credentials -> Credential]
        BY LenProperties DEF IInv, TypeOK, IdentityTypeOK
      <3>2. /\ DOMAIN credentials' = DOMAIN credentials /\ credentials'[c].state = "expired"
            /\ \A d \in DOMAIN credentials : d # c => credentials'[d] = credentials[d]
        BY <2>6, <3>1 DEF CredentialExpires, Credential
      <3>3. ~Authentic(c)' /\ \A d \in DOMAIN credentials : d # c => (Authentic(d)' <=> Authentic(d))
        BY <3>2 DEF Authentic
      <3> QED
        BY <2>1, <2>6, <3>2, <3>3, OneEnds DEF signInVars
    <2>7. ASSUME NEW r \in Requests, NEW kind \in Kinds, NEW c, Send(r, c, kind), UNCHANGED signInVars
          PROVE  [Delegated!Next]_(Delegated!vars)
      BY <2>4, <2>7 DEF Send, signInVars, identityVars
    <2>8. ASSUME NEW r \in Requests, Handle(r) \/ ReceiptExpires(r), UNCHANGED signInVars
          PROVE  [Delegated!Next]_(Delegated!vars)
      BY <2>1, <2>8, RequestPromises
    <2> QED
      BY <2>2, <2>3, <2>5, <2>6, <2>7, <2>8 DEF Next, SignInNext
  <1> QED
    BY <1>1, <1>2, BegunInitially, BegunKept, Invariant, PTL DEF Spec, DelegatesOnce, Delegated!Spec

=============================================================================
