------------------------------- MODULE SignIn --------------------------------
(***************************************************************************)
(* Signing in: the CLI that starts a login and polls for its credential    *)
(* (identity/login.py), the browser that signs in with Google and approves *)
(* it (the auth routes of identity/http.py, identity/google.py) and the    *)
(* transactions of identity/store.py that they call.                       *)
(***************************************************************************)
EXTENDS Identity

CONSTANTS
  Browsers,
  Directory,     \* a sign-in for the directory page, which approves no login
  FirstMailbox,  \* the email that Google verifies for each account, at first
  MaxSessions, MaxMoves   \* bounds of sessions and of changes of address

ASSUME SignInAssumption ==
  /\ Directory \notin Logins \cup {Nothing}
  /\ MaxSessions \in Nat /\ MaxMoves \in Nat
  /\ FirstMailbox \in [Accounts -> Emails \cup {Nothing}]
  /\ FirstMailbox[OperatorAccount] = OperatorEmail

VARIABLES
  logins,    \* the row of each login; shown is whom its approver was shown
  clients,   \* where the CLI is with it, and the credential that it was sent
  polls,     \* poll requests that the server has not handled
  sessions,  \* browser sessions: the user, the account that signed in
  browsers,  \* flow cookie, callback in hand, session cookie, open form
  mailbox,   \* the email of each account now
  moves      \* how often emails moved

signInVars == <<logins, clients, polls, sessions, browsers, mailbox, moves>>

Idle == [at |-> "idle", credential |-> 0]
ClientStates == {"idle", "waiting", "asking", "saving", "undoing",
                 "saved", "revoked", "unconfirmed", "over"}

Session == [user : Nat, account : Accounts, live : BOOLEAN]
Callbacks == [account : Accounts, email : Emails]
Forms == [login : Logins, session : Nat, user : Nat]

SignInTypeOK ==
  /\ logins \in [Logins -> [stage : {"none", "pending", "consumed", "expired"},
                            user : 0..Len(users), shown : 0..Len(users)]]
  /\ clients \in [Logins -> [at : ClientStates, credential : 0..Len(credentials)]]
  /\ polls \in [Logins -> 0..2]
  /\ sessions \in Seq(Session) /\ \A s \in DOMAIN sessions : sessions[s].user \in DOMAIN users
  /\ browsers \in [Browsers -> [flow : Logins \cup {Directory, Nothing}, callback : Callbacks \cup {Nothing},
                                cookie : 0..Len(sessions), page : Forms \cup {Nothing}]]
  /\ mailbox \in [Accounts -> Emails \cup {Nothing}]
  /\ moves \in 0..MaxMoves

SignInInit ==
  /\ logins = [l \in Logins |-> [stage |-> "none", user |-> 0, shown |-> 0]]
  /\ clients = [l \in Logins |-> Idle]
  /\ polls = [l \in Logins |-> 0]
  /\ sessions = << >>
  /\ browsers = [b \in Browsers |-> [flow |-> Nothing, callback |-> Nothing, cookie |-> 0, page |-> Nothing]]
  /\ mailbox = FirstMailbox /\ moves = 0

Pending(l) == logins[l].stage = "pending"
BrowserUser(s) == s > 0 /\ sessions[s].live

(***************************************************************************)
(* The CLI: start, finish, and the answers of the store to its polls       *)
(***************************************************************************)

At(l, state) == clients' = [clients EXCEPT ![l].at = state]

StartLogin(l) ==
  /\ logins[l].stage = "none"
  /\ logins' = [logins EXCEPT ![l].stage = "pending"] /\ At(l, "waiting")
  /\ UNCHANGED <<identityVars, polls, sessions, browsers, mailbox, moves>>

Ask(l) ==
  /\ clients[l].at = "waiting" /\ polls[l] < 2
  /\ polls' = [polls EXCEPT ![l] = @ + 1] /\ At(l, "asking")
  /\ UNCHANGED <<identityVars, logins, sessions, browsers, mailbox, moves>>

\* The answer reaches the client that asked, or nobody.
Answer(l, state, c) ==
  /\ polls[l] > 0 /\ polls' = [polls EXCEPT ![l] = @ - 1]
  /\ \/ /\ clients[l].at = "asking"
        /\ clients' = [clients EXCEPT ![l] = [at |-> state, credential |-> c]]
     \/ UNCHANGED clients

PollRefused(l) ==
  /\ ~Pending(l) /\ Answer(l, "over", 0)
  /\ UNCHANGED <<identityVars, logins, sessions, browsers, mailbox, moves>>

\* Not approved yet, or asked less than five seconds ago.
PollPending(l) ==
  /\ Pending(l) /\ Answer(l, "waiting", 0)
  /\ UNCHANGED <<identityVars, logins, sessions, browsers, mailbox, moves>>

\* A faulty variant that leaves the login open.
ConsumeLater(l) == UNCHANGED logins

Consume(l) == logins' = [logins EXCEPT ![l].stage = "consumed"]

Deliver(l) ==
  /\ Pending(l) /\ logins[l].user > 0 /\ Admitted(logins[l].user)
  /\ Issue(logins[l].user, l) /\ Consume(l)
  /\ Answer(l, "saving", Len(credentials) + 1)
  /\ UNCHANGED <<users, workspaces, memberships, sessions, browsers, mailbox, moves>>

\* A timeout, an interruption, a lost answer: the attempt is kept.
StopAsking(l) ==
  /\ clients[l].at = "asking" /\ At(l, "waiting")
  /\ UNCHANGED <<identityVars, logins, polls, sessions, browsers, mailbox, moves>>

\* Its ten minutes are over for the client.
AttemptExpires(l) ==
  /\ clients[l].at = "waiting" /\ At(l, "over")
  /\ UNCHANGED <<identityVars, logins, polls, sessions, browsers, mailbox, moves>>

Save(l) ==
  /\ clients[l].at = "saving" /\ \E state \in {"saved", "undoing"} : At(l, state)
  /\ UNCHANGED <<identityVars, logins, polls, sessions, browsers, mailbox, moves>>

\* The store revokes what could not be saved; the answer may come or not.
RevokeUnsaved(l) ==
  /\ clients[l].at \in {"undoing", "unconfirmed"}
  /\ Revoke({clients[l].credential})
  /\ \E state \in {"unconfirmed"} \cup (IF clients[l].at = "undoing" THEN {"revoked"} ELSE {}) : At(l, state)
  /\ UNCHANGED <<users, workspaces, memberships, logins, polls, sessions, browsers, mailbox, moves>>

\* The request for it fails, or its answer is late.
NotConfirmed(l) ==
  /\ clients[l].at = "undoing" /\ At(l, "unconfirmed")
  /\ UNCHANGED <<identityVars, logins, polls, sessions, browsers, mailbox, moves>>

\* The process ends with the attempt's file in place, and the credential gone.
Killed(l) ==
  /\ clients[l].at \in {"saving", "undoing"}
  /\ clients' = [clients EXCEPT ![l] = [at |-> "waiting", credential |-> 0]]
  /\ UNCHANGED <<identityVars, logins, polls, sessions, browsers, mailbox, moves>>

LoginExpires(l) ==
  /\ Pending(l) /\ logins' = [logins EXCEPT ![l].stage = "expired"]
  /\ UNCHANGED <<identityVars, clients, polls, sessions, browsers, mailbox, moves>>

(***************************************************************************)
(* The browser                                                             *)
(***************************************************************************)

\* begin_oauth, from the page of a login or from the directory.
Visit(b, f) ==
  /\ IF f \in Logins THEN Pending(f) ELSE ~BrowserUser(browsers[b].cookie)
  /\ browsers' = [browsers EXCEPT ![b].flow = f]
  /\ UNCHANGED <<identityVars, logins, clients, polls, sessions, mailbox, moves>>

\* take_oauth uses the state up; then Google vouches for the account or not.
\* A browser waits for one callback at a time.
Callback(b, g) ==
  /\ browsers[b].flow # Nothing /\ browsers[b].callback = Nothing
  /\ mailbox[g] # Nothing
  /\ \/ browsers' = [browsers EXCEPT ![b].flow = Nothing,
                                     ![b].callback = [account |-> g, email |-> mailbox[g]]]
     \/ browsers' = [browsers EXCEPT ![b].flow = Nothing]
  /\ UNCHANGED <<identityVars, logins, clients, polls, sessions, mailbox, moves>>

Bound(g) == {u \in DOMAIN users : users[u].subject = g}

\* A faulty variant that also finds users who are bound already.
Invited(e) == {u \in DOMAIN users : users[u].admission = e}

Awaiting(e) == {u \in DOMAIN users : users[u].admission = e /\ users[u].subject = Nothing}

Claimed(claims) == IF Bound(claims.account) # {} THEN Bound(claims.account) ELSE Awaiting(claims.email)

\* bind_google: the same user keeps a session that is valid still.
Bind(b) ==
  LET claims == browsers[b].callback  cookie == browsers[b].cookie IN
  /\ claims # Nothing
  /\ \E u \in Claimed(claims) :
       /\ Admitted(u)
       /\ users' = [users EXCEPT ![u].subject = claims.account, ![u].email = claims.email]
       /\ IF BrowserUser(cookie) /\ sessions[cookie].user = u
          THEN UNCHANGED sessions /\ browsers' = [browsers EXCEPT ![b].callback = Nothing]
          ELSE /\ Len(sessions) < MaxSessions
               /\ sessions' = Append(sessions, [user |-> u, account |-> claims.account, live |-> TRUE])
               /\ browsers' = [browsers EXCEPT ![b].callback = Nothing, ![b].cookie = Len(sessions) + 1]
  /\ UNCHANGED <<workspaces, memberships, credentials, logins, clients, polls, mailbox, moves>>

\* The account was not admitted.
BindRefused(b) ==
  /\ browsers[b].callback # Nothing
  /\ ~\E u \in Claimed(browsers[b].callback) : Admitted(u)
  /\ browsers' = [browsers EXCEPT ![b].callback = Nothing]
  /\ UNCHANGED <<identityVars, logins, clients, polls, sessions, mailbox, moves>>

\* A faulty variant that lets another approval take the place of the first.
StillPending(b, l) == Pending(l) /\ BrowserUser(browsers[b].cookie)

Approvable(b, l) == Pending(l) /\ BrowserUser(browsers[b].cookie) /\ logins[l].user = 0

\* The form names its user and holds a digest of the session.
OpenForm(b, l) ==
  /\ Approvable(b, l)
  /\ browsers' = [browsers EXCEPT ![b].page =
       [login |-> l, session |-> browsers[b].cookie, user |-> sessions[browsers[b].cookie].user]]
  /\ UNCHANGED <<identityVars, logins, clients, polls, sessions, mailbox, moves>>

\* A faulty variant whose forms are not tied to a session.
AnyForm(b) == TRUE

Genuine(b) == browsers[b].page.session = browsers[b].cookie

Approve(b) ==
  LET page == browsers[b].page IN
  /\ page # Nothing /\ Genuine(b) /\ Approvable(b, page.login)
  /\ logins' = [logins EXCEPT ![page.login].user = sessions[browsers[b].cookie].user,
                              ![page.login].shown = page.user]
  /\ UNCHANGED <<identityVars, clients, polls, sessions, browsers, mailbox, moves>>

\* Twelve hours pass.
SessionExpires(s) ==
  /\ sessions[s].live /\ sessions' = [sessions EXCEPT ![s].live = FALSE]
  /\ UNCHANGED <<identityVars, logins, clients, polls, browsers, mailbox, moves>>

\* An address passes to another account; one that had it has none.
EmailMoves(g, e) ==
  /\ moves < MaxMoves /\ e # mailbox[g]
  /\ mailbox' = [h \in Accounts |-> IF h = g THEN e ELSE IF mailbox[h] = e THEN Nothing ELSE mailbox[h]]
  /\ moves' = moves + 1
  /\ UNCHANGED <<identityVars, logins, clients, polls, sessions, browsers>>

Client(l) ==
  \/ StartLogin(l) \/ Ask(l) \/ StopAsking(l) \/ AttemptExpires(l)
  \/ PollRefused(l) \/ PollPending(l) \/ Deliver(l) \/ LoginExpires(l)
  \/ Save(l) \/ RevokeUnsaved(l) \/ NotConfirmed(l) \/ Killed(l)

Browser(b) ==
  \/ \E f \in Logins \cup {Directory} : Visit(b, f)
  \/ \E g \in Accounts : Callback(b, g)
  \/ Bind(b) \/ BindRefused(b) \/ Approve(b)
  \/ \E l \in Logins : OpenForm(b, l)

World ==
  \/ \E s \in DOMAIN sessions : SessionExpires(s)
  \/ \E g \in Accounts, e \in Emails : EmailMoves(g, e)

SignInNext == (\E l \in Logins : Client(l)) \/ (\E b \in Browsers : Browser(b)) \/ World

=============================================================================
