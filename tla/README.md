# small-cloud: a model of the platform's operations

small-cloud is a small hosting platform: creators upload an archive, the
platform builds it on a disposable machine, starts it in a container on a
runtime host and serves it to signed-in members through a gateway.  Idle apps
are stopped, and started again when somebody asks for them.  This directory
models the parts that are hard to get right by testing:

* what several processes do to one database, one runtime host and one registry,
  when every remote step may fail with or without its effect and every process
  may be lost (`Platform`);
* the disposable build machines, which cost money until they are gone
  (`BuildCoordinator`), and the build that runs on one of them
  (`BuildExecution`);
* sign-ins and the requests that change identities, which are repeated, late
  and concurrent (`Accounts`);
* what a user meets of it: the packaging of a source directory while it is
  edited (`SourcePackage`), the deploy command against lost answers
  (`DeployClient`), the log of an app (`Diagnostics`) and its redaction
  (`Redactor`), and who uses an app with which authority (`AppAccess`).

References to code below are `file:line` under `src/`.

## 1. The system

### Processes and what they share

| Process | Code | How it runs |
|---|---|---|
| Identity service | `identity/http.py`, `publishing.py`, `app_secrets.py`, `gateway.py`, `store.py` | one process, one thread per request |
| Publishing worker | `identity/worker.py` | one process (a `flock` refuses a second), loops once a second, restarted by systemd |
| Lifecycle worker | `identity/lifecycle.py`, started by `worker.py lifecycle` | the same |
| Diagnostics collector | `identity/collector.py`, `diagnostics.py` | one process reading the container's output |
| Sandbox commands | `infra/runtime/sandbox.py` | one process per command on the runtime host, over ssh; a `flock` serializes them |
| Registry commands | `infra/releases.py` | one process per command on the control host, under a `flock` |
| Builder coordinator | `infra/remote.py`, `infra/builders.py` | run by the publishing worker for each build; a timer reconciles leftovers |
| Build on the builder | `infra/builder/worker.py`, `run.sh` | a systemd unit on a machine that lives for one build |
| Command-line client and browser | `identity/login.py`, `cli.py`, `completion.py`, `upload.py`, `identity/http.py` | a client that packages, submits and polls, a browser that approves |

The first four share one SQLite database.  Every change to it is made in a
`BEGIN IMMEDIATE` transaction, so transactions are serial; everything between
two transactions is not.  Beside the database there is one lock file for each
app: a gateway request holds it shared from its admission to its end, the
lifecycle worker exclusively while it works on the app; both only try it.
The two workers share no lock at all: each reads rows that the other writes
and relies on what the transaction before left there.

### Components

For each component: its state, its operations, what is hard about it and what
makes it correct.

**Control database** (`publishing.py`, `lifecycle.py:13-31`, `allowance.py`).
State: `apps` (owner, `active_deployment_id`, `target_port`, `container`,
`runtime_state`, `last_request`), `deployments` (kind, state,
`reconciliation_required`), `build_allowance`, `app_secrets`,
`retired_secrets`, and the app locks.  Nothing stores "reserved": a slot is
reserved when any of three columns says so (`lifecycle.py:RESERVED`), and the
three are written by different processes.  Correct when an app has at most one
unfinished operation, a creator at most one unfinished build, no more slots are
handed out than exist, and the month's allowance is never exceeded.

**Publishing admission** (`publishing.py:deploy`, `app_secrets.py:change`).
Operations: deploy, set and remove a secret.  Hard: the check looks at rows
that the workers write in several steps, and a row may look final while its
operation is not.

**Gateway** (`gateway.py`, `publishing.py:gateway_request`, `gateway_target`).
Operations: enter (access, shared lock), route, wake, refuse, connect, finish.
Hard: the target is read before the caller's body, the connection is made after
it.  Correct when a request reaches the app it was admitted to and no app is
stopped under one of its requests.

**Sign-in to an app and sharing** (`gateway.py:callback`, `route`,
`publishing.py:share`, `app_secrets.py:change`).  State: the pending sign-ins of
`app_oauth`, the sessions of `app_sessions`, the two cookies of a browser at an
app, the app's sharing scope and its secrets.  Hard: the callback arrives in
whichever browser opened Google's page, takes two transactions, and hands over a
link that may be opened elsewhere; an acknowledgement is asked for by two
requests, each looking at what the other one changes.  Correct when a session is
of who began the sign-in there, and members use no value whose sharing the owner
did not acknowledge.

**Publishing worker** (`worker.py`).  State: its program counter and a copy of
the app's row, taken when it claims the operation and used for the whole build.
Operations: claim, build, settle, admit, prepare, launch, ready, switch,
promote, discard; undo, forget, record; recover.  Hard: partial failures after
the switch, answers that are lost, a loss of the process between any two steps.
Correct when an operation ends once, a failure leaves what was there before it,
the route always leads to the selected release, and an interrupted deployment
is left to the operator instead of being replayed.

**Lifecycle worker** (`lifecycle.py`).  State: the app in hand, its operation,
how far it is.  Operations: scan, try lock, begin, stop, wake, commit, undo,
finish a secret change, recover.  Hard: the stop that undoes a failure may fail
as well; recovery runs in two transactions; an app whose lock is taken is passed
over.  Correct when a slot is given back only after the container is known to be
gone, a value that a container may print stays redacted, and every operation
ends or is blocked for the operator.

**Runtime host** (`sandbox.py`).  State: the labelled containers and
`releases.json`.  Operations used by the workers: start, resume, stop, promote,
retain-image, forget-release.  Hard: it re-checks the admission that the
database made; a command goes on when its caller's connection is lost; six
network slots must be enough for five active containers, one candidate and what
failures leave.

**Registry** (`releases.py`).  State: one record per release.  Operations:
publish, retire, prune after a grace period.  Correct when an app has exactly
its selected release between operations.

**Identity store and grants** (`store.py`, `workspaces.py`).  State: users with
the email that admitted them and the Google account they are bound to,
workspaces, memberships, credentials, one receipt per request identifier.
Operations: log out, revoke all, create a workspace, select one, add a member,
grant a creator (`mutate`).  Hard: a client that heard no answer sends its
request again with the same identifier, perhaps after its credential was revoked
or its receipt has expired.  Correct when copies of a request have one effect,
the creators stay within their limit, and the tables are never such that the
service refuses to start again.

**Sign-in** (`login.py`, `google.py`, `http.py`, `store.py`,
`credentials.py`).  State: pending logins, browser sessions, OAuth states; on
the client the saved attempt and credential.  Operations: start, poll, approve,
deliver, save, revoke what could not be saved; sign in with Google in a browser,
which may change accounts.  Hard: the answer to a poll may be lost when the
credential is issued; a form may be posted after the browser has changed
accounts; an email address may pass to another account.  Correct when a login
delivers one credential, to whom its approval form named, and accounts keep
their users.

**Builder machines** (`infra/remote.py`, `builders.py`).  State: machines and
addresses at the provider, a deletion journal and a cost record for each on
disk, `builders.lock`, what the coordinator leaves for the accounting.
Operations: create, delete, reconcile (every minute), build.  Hard: a creation
whose answer is lost, a coordinator that dies while its child process goes on, a
removal that is cut off at any step, a deletion racing a build.  Correct when
nothing that costs money is forgotten, no machine is deleted in use, and the
allowance is settled only for builds that are over.

**Build on the builder** (`builder/run.sh`, `builder/worker.py`).  State: the
script, the build daemon, the worker in a container, the control group, the
ten-minute timer, `accounting.json` and `result.json`.  Hard: the termination
helper is called by the script's exit trap and by the timer; an absent control
group is evidence of a build that never ran only at the right time.  Correct
when a receipt is only written once nothing runs any more and its duration tells
whether the build ran.

**Diagnostics** (`diagnostics.py`, `collector.py`).  State: streams and records
of log lines with a counter of their bytes, the connections from docker, cursors
of readers, the values to redact and what is held back of a stream.  Hard: lines
are evicted and age while a reader pages through a snapshot; connections break
and collectors end between two lines; a value is split over two chunks, is the
beginning of another, is registered in the middle of a stream, or loses its
newlines in docker.  Correct when the stored bytes stay within the volume, pages
are the snapshot in order, loss is told, and exactly the registered values are
hidden.

**Command-line client** (`upload.py`, `cli.py`, `completion.py`).  State: the
handles and file information of the packaging; the request identifier and the
last state a command was told.  Hard: the directory changes between the look at
a file, its opening, its reading and the look at the directory; answers are lost
or late, and the command is run again with its request identifier, perhaps with
another source.  Correct when an archive is one whole state of the directory,
and what the command reports is so.

**Supervision, operator tools, migration, texts, distribution.**  Scripts that
run alone and start over when they fail (`services.py`, `spending.py`,
`monitor.py`, `artifacts.py`, `validation.py`, `workspaces.py`), and what the
client prints (`commands.py`, `guides.py`, `render.py`, ...).

## 2. Modules

```
AppDatabase  rows, reservations, allowance, locks
  Hosts      containers, inventories, the sandbox's admission
    Publishing        admission by the identity service, time and operator
    Gateway           one request
    PublishingWorker  the publishing worker
    LifecycleWorker   the lifecycle worker
      Platform        all of them over one state; the properties
        MCPlatform    instances for TLC
Publication  the abstract promise, instantiated by Platform
SumProofs       lemmas about sums over finite sets, and inductions over positions
PlatformProofs  EXTENDS Platform: the containers, and the inductive invariant
  WorkersProofs the two workers, the promise, slots and the allowance
    RuntimeProofs what is left on the runtime host and in the registry

Builders             machines, provider, journals, the commands of builders.py
  BuildCoordinator   the coordinator of each build; the properties
    MCBuilders       instances for TLC
    BuildersProofs   the inductive invariant, and the promise
Rental               the abstract promise, instantiated by BuildCoordinator

BuildExecution       one build on its machine
  ExecutionProofs    the inductive invariant

Identity             users, workspaces, memberships, credentials
  SignIn             the client, the browser and the store's sign-in transactions
  Mutations          requests with receipts
    Accounts         both on one store; the properties
      MCAccounts     instances for TLC
      AccountsProofs the inductive invariant, and the promise
Delegation           the abstract promise of a sign-in, instantiated by Accounts

SourcePackage        the packaging of a directory that is edited
DeployClient         deploy, from the submission to the exit of the command
Diagnostics          the log of one app, its collector and a reader
Redactor             the redaction of one stream of bytes
AppAccess            sign-in to apps and sharing
  MCUserSide         the five together for TLC; each behaviour is one of one of them
UserSideProofs       the inductive invariants of SourcePackage, DeployClient,
                     AppAccess and Diagnostics, and what a Redactor decides
```

The first three systems meet where one uses a result of another, and each models
the other's side as a choice: `PublishingWorker` lets a build succeed, fail or
stay unaccounted, which is what `BuildCoordinator` leaves as evidence;
`BuildCoordinator` lets the build on a machine end with or without a receipt at
any time, which is what `BuildExecution` does; `apps[a].authorized` in
`AppDatabase` is what `Identity` says of the owner.  The five modules of the user's
side share no state with them or with each other: `DeployClient` lets the
operation of its request go on as `PublishingWorker` does, `AppAccess` knows
users by the account that `Identity` binds them to.

### State

| Model | Code |
|---|---|
| `apps[a]` | the row of `apps`: `exists`; `authorized` = `disabled=0` and the owner is a member and a creator; `runtime` = `runtime_state`; `active` = `active_deployment_id`; `target` = `target_port`; `container` = `container IS NOT NULL`; `idle` = half an hour passed since `last_request`; `secret` = which saved value the app has now |
| `ops[o]` | the row of `deployments` with its `build_allowance` row; a number is the operation's identifier, the identifier of the release it builds and the name of the secret value it saves |
| `retired[v]` | `retired_secrets`: no row, a row without `expires_at`, a row with one |
| `exclusive`, `shared` | the holders of the app lock files |
| `containers` | docker's containers with the platform's label; role is the name's suffix, `release` and `secret` what it was started with |
| `retained`, `registry` | `releases.json` on the runtime host; registry records that are not retired |
| `orphan` | a launch that goes on although its caller's connection is lost |
| `pub`, `lc` | each worker's program counter and local variables |
| `requests` | each request thread's stage, the port it read and the app it reached |

Secrets are one value per app: the code keeps several names per app, but they
are saved, retired and redacted alike and one restart serves them all.  A
release is its operation.  Times are abstracted to the events they trigger:
`IdleElapses` (thirty minutes without a request) and `ExpireRetired` (seven days
after a confirmed stop).

Builders:

| Model | Code |
|---|---|
| `machine[j]`, `address[j]`, `expired` | the server of the job's name at the provider, its primary address (`assigned`, unassigned and `free`, or deleted), whether its label `expires` has passed |
| `journal`, `costed` | `deleting-builder-*.json`, `builder-cost-*.json` |
| `lock`, `at`, `step`, `todo`, `listed` | which command holds `builders.lock` and where it is; the two loops of `reconcile` are `expiry` and `journals` |
| `command[j]` | the child process of the coordinator, which goes on when the coordinator is killed |
| `build[j]`, `evidence[j]` | the coordinator's stage and `attempted`; the receipt, the teardown record and the exit code it leaves |
| `execution[j]` | what the machine does with the build |

The build on its machine: `script`, `worker`, `daemon` are programs,
`slice` and `doomed` the control group and the signals under way, `timer` and
`helper[h]` the two callers of `worker.py terminate`, `began`, `result`,
`image`, `receipt` the files it leaves, `link` and `fetched` the coordinator's
end.  `timer = "early"` records that ten minutes passed between setting the
timer and starting the worker.

Accounts:

| Model | Code |
|---|---|
| `users[u]` | `admission_email`, `email`, `subject`, `default_workspace` of a row of `users`; a row's number is its identifier |
| `workspaces[w]`, `memberships` | the owner of each workspace; for each row of `memberships`, the roles it has |
| `credentials[c]` | a row of `credentials`: user, state, and the login it was issued for, which the code does not store |
| `logins[l]` | a row of `logins`, known by its poll secret; `shown` is a history variable, whom the approval form named |
| `clients[l]`, `polls[l]` | the process of `small-cloud login`; poll requests that the server has not handled |
| `browsers[b]`, `sessions` | OAuth state cookie, callback under way, session cookie, open form; the rows of `browser_sessions` |
| `mailbox` | which address Google vouches for |
| `requests[r]`, `receipts`, `forgotten` | a request by its identifier, the rows of the table `requests`, those that have expired |
| `effects[r]` | a history variable: how often the request changed something |

Digests, tokens and cookies are the identities they stand for.

The user's side:

| Model | Code |
|---|---|
| `files[n]`, `changed`, `edits` | the directory: of each file what `os.stat` tells (device, inode, size, times) as the stamp of its last change, and what a read returns as the stamp of its contents; the directory's own `stat`; the last stamp given |
| `step`, `local` | where `_package` is and its variables: `root_info`, `before`, the `.dockerignore` whose rules apply, the names left, `info`, the open handle, what it read so far, the archive |
| `archive[r]`, `copy[r]`, `reply[r]` | what run `r` of the command uploads; where its request is, which may go on when nobody waits for the answer; the service's answer (`known`: whether there was an operation of the request identifier) |
| `slot`, `operation`, `otherBuild`, `authorized` | the upload lock of `http.py`; the row of `deployments` with this request identifier, which is its receipt too; the creator's other builds and privilege |
| `phase[r]`, `read[r]`, `seen[r]`, `outcome[r]` | the command: where it is, the answer to its status request, the last state it was told, what it printed as it ended (`continues`: it says that the work goes on) |
| `printed`, `flight`, `connection`, `named` | the container's lines, by number; those on the connection to the collector; whether one arrived (`Connection.writer`) |
| `records`, `lastId`, `aged`, `retained`, `dropped`, `interrupted` | `diagnostic_records` of the stream in order (line 0 is a mark of interruption), the last AUTOINCREMENT number, how many are a week old, the counters of `diagnostic_streams` |
| `reader` | a reader, its cursor, and the pages it got |
| `text`, `arrived`, `held`, `shown`, `known` | the bytes a program prints; how many have arrived; the first of `Redactor.pending`; the positions that were let through; the values of the registry |
| `flows`, `flowCookie`, `cookie`, `sessions` | rows of `app_oauth` and of `app_sessions`, one number for a sign-in and its session; the two cookies of each browser at each app |
| `scope`, `secrets` | `apps.sharing_scope`; for each name of a secret whether it has a value, and (not stored by the code) whether the owner acknowledged its sharing |

### Steps

Each step is one transaction, one remote command or one event.  Where the code
makes a decision in Python between two of them the decision belongs to the step
before it.  The correspondence, action by action, is in `PROJECT.json` ("map");
the larger lines are:

* `Publishing!Deploy` is `Publishing.deploy`, `ChangeSecret` is `Vault.change`.
  A refused request changes nothing (its transaction is rolled back), so only
  the accepting branch is an action.
* `PublishingWorker`: `Claim` ... `Succeed` are `Worker.once` from top to
  bottom, `Undo`, `Forget` and `Record` its exception handler with `cleanup`,
  `PublisherRecovers` is `recover`.  Every remote step has three outcomes:
  done, failed without its effect, failed with its effect (or with a part of
  it: an old container removed and the new one not renamed).  `Throw(TRUE)` is
  an error marked for the operator, which is not cleaned up.
* `LifecycleWorker`: `Scan`, `TryLock`, `Begin` ... are `once` and `process`;
  `RecoverSecretChanges` and `RecoverStarts` are the two transactions of
  `recover`.
* `PublisherCrashes` and `LifecycleCrashes` may happen between any two steps and
  also stand for a database error, which ends the worker's process.
* `LoseLaunch` and `FinishOrphan`: an ssh connection breaks while
  `sandbox.py start` runs; the command goes on, keeps the sandbox's lock and
  later ends with or without a container.
* `Builders`: `CreateAdmitted`, `CreateAnswered`, `CreateUnanswered` are
  `create` up to and after its request; a request without an answer takes effect
  later or never (`RequestEnds`).  `WriteJournal` ... `UnlinkJournal` are the
  steps of `remove` and `finish_journal`, and `RemovalFails` a failure of, or a
  kill at, any of them.  `NextMachine`, `ToJournals`, `NextJournal` are the loops
  of `reconcile`.  `CoordinatorLost` is a kill: `finally` does not run.
* `BuildExecution`: `LookUp` ... `HelperFails` are `terminate` from its lock to
  its receipt; between the lookup of the control group and the receipt
  everything else on the machine goes on.  The script ends through its trap at
  any step (`Trap`), also while it waits for the worker, or is killed with it
  (`ScriptKilled`).
* `SignIn`: `Deliver`, `PollPending`, `PollRefused` are the answers of
  `Store.poll`; the client that asked may have stopped waiting (`StopAsking`),
  so that `Answer` may reach nobody.  `Save`, `RevokeUnsaved`, `NotConfirmed`,
  `Killed` are what `finish` does with an answer, up to "unconfirmed".
  `Callback` is `take_oauth` with Google's answer, `Bind` is `bind_google` with
  the session it makes.
* `Mutations`: the transactions of `mutate`, one action for each kind of
  request.  A request whose receipt is there, or that is refused, changes
  nothing and is no action.  A request stays in `requests`, so that it may be
  delivered at any time and again.
* `SourcePackage`: one action for each system call of `_package` that the editor
  can come between; `Write` and `Replace` are the editor's, before any of them.
  A read takes two steps, the first half and the rest with the check after it.
* `DeployClient`: `Upload`, `Admit`, `Respond` are the request in `http.py` and
  `Publishing.deploy`; `LoseConnection` loses it before it has arrived whole, or its
  answer after it took effect.  `ReceiveReply`, `GiveUp`, `ServeRead`,
  `ReceiveRead`, `StopWaiting` are `execute` and `wait_for_completion`.
* `Diagnostics`: `Receive` is `Connection.feed` for one line with
  `Writer.append`, eviction included; `CloseConnection`, `CollectorExits` and
  `CollectorStarts` mark the stream, `CollectorCrashes` cannot.  Every
  transaction begins with the pruning of old records.
* `Redactor`: `FeedTo` is `Writer.refresh` and `Redactor.feed` for one chunk,
  whose end may be anywhere.
* `AppAccess`: `Callback` and `Issue` are the callback's two transactions,
  `FinishSignIn` the link that the browser opens with the code.  `Issue` does not
  look at the time again, as the code does not: a flow that expired meanwhile
  (`late`) gets a session, which no browser can be given.
* `Gateway`: `Enter` is `check_access` with the lock.  `check_access` asks for
  membership, which nothing takes away in the code, so that every app that exists
  can be entered; what the creator may is asked by `gateway_target` (`Route`,
  `Wake`, `Refuse`).

## 3. What is checked

### Properties

| Property | What it says |
|---|---|
| `OneOperationPerApp` | no two unfinished operations on an app, no two unfinished builds of a creator |
| `NoOverlap` | the lifecycle worker never works on the app of the publishing worker's operation |
| `ContainersReserved` | a container's app holds its slot |
| `RunningIsServed` | an app reported as running is routed to its own container, with the selected release and the saved secret |
| `SecretsStayRedactable` | a replaced value that a container may print stays redacted without expiry |
| `ReleasesExact` | an app without an unfinished operation has exactly its selected release, in both inventories |
| `BuildsAccounted` | a finished deployment was charged; the month's allowance is never exceeded |
| `InterruptedNeedsOperator` | a deployment that began and that no process works on is marked |
| `SlotForEveryLaunch` | a launch that is admitted finds a free network slot; no slot is used twice |
| `AdmissionWithinSlots` | outside recovery, a step takes at most one reservation and only while a slot is free |
| `InFlightProtected` | no step of the lifecycle worker removes containers of an app that has a request in flight |
| `KeepsPromise` | Platform implements `Publication`: an operation ends once, a selected release is only replaced by a deployment's, a failure leaves it alone |
| `DeploymentsEnd`, `LifecycleOperationsEnd`, `SecretChangesEnd` | what is admitted ends, or waits for the operator |

| `SettledIsOver` | a build that is settled never ran, or is over with its machine gone |
| `WithinLimit` | no more machines in the hands of coordinators than the limit, those that they could not delete included, even when creations take effect late |
| `NothingForgotten` | an address outlives its machine only with a journal; a deleted machine leaves a cost record, or a journal that will |
| `NotDeletedInUse` | no step deletes a machine in use, except after its half hour |
| `KeepsContract` | BuildCoordinator implements `Rental`: a machine is rented once and settled for good; a build runs once, on its machine; its account is closed once, as free or, when it is over and the machine returned, as charged |
| `EventuallyRemoved` | a machine goes in the end, with its address and its journal, and leaves its cost |
| `ReceiptIsFinal`, `ReceiptIsExact`, `ReceiptWrittenOnce` | a receipt is written once, says that nothing runs any more and whether the build ran; the coordinator has the same |
| `SuccessIsWhole` | a successful result comes with a whole image |
| `BuildStops` | a worker stops without its coordinator, or the helper has failed |
| `DelegatesOnce` | Accounts implements `Delegation`: one person, whom the approval form named, agrees to a login; it gives that person's authority once; authority that ended stays so |
| `SessionsKeepTheirAccount` | wherever addresses move, a session belongs to the user of the account that opened it |
| `DeliveredOnce` | a login issues one credential, its client holds that one, and "revoked" is true |
| `TakesEffectOnce` | a request takes effect once while its receipt is kept; "revoke all" once at all |
| `RestartSucceeds` | the tables are never such that the migration refuses them at a restart |
| `CreatorsWithinLimit` | grants over all workspaces stay within the limit |
| `SourceWhole` | an uploaded archive has whole regular files only, and all names of one moment but those that its own `.dockerignore` or the platform excludes |
| `OutcomeIsTrue` | success, failure, conflict, refusal and "continues" are what the command says they are |
| `VolumeBound` | the counter that eviction relies on is the size of what is stored, and within the volume |
| `PagesExact` | pages are the snapshot of the first one in order, once each, and what is missing is counted as dropped |
| `GaplessUnlessTold` | a last page, or a tail, that does not say it is truncated has every line from the first that was ever collected |
| `RedactionExact` | no value comes out whole, nothing else is hidden, and where chunks end makes no difference |
| `AuthorityIsMeant` | a session is of who began the sign-in in that browser at that app; members use only values whose sharing was acknowledged |

`Publication` is the abstract specification: apps select releases and operations
go from open to succeeded or failed, with `Select` in between; after `Select` an
operation cannot fail.  The refinement mapping reads `selected` from
`active_deployment_id`, and an unfinished operation as selected when the row
names its release.

`Rental` is the abstract specification of the builders: per build, the machine
(none, rented, returned, settled), the execution (waiting, running, over) and the
account (open, free, charged).  The refinement mapping reads a machine as settled
when it is gone with its address, its cost record is written and no journal is
left (`RentalOf`), and the account from the evidence that the coordinator left,
as the worker's accounting does (`AccountOf`).  What the promise excludes: a
journal for a machine that was settled before, a second machine under the same
name, a build that begins after it was found never to have run, and a charge
whose machine is still there.

`Delegation` is the abstract specification of sign-ins: per login, who agreed to
it and whether it is open, agreed, live, ended or closed, and whether its client
is without authority, holds it, saved it or gave it up.  The refinement mapping
reads a login that issued a credential as the state and the user of that
credential, and any other from its row (`LoginOf`).  What the promise excludes: a
second approval that takes the place of the first, a credential for anybody but
the person whom the form named, or after the login expired, authority that comes
back, a "revoke all" that misses a login of that person, and a client that says
"revoked" of what is not.

### Runs

| Run | Instance | Question |
|---|---|---|
| `operations` | one app, three operations, each worker lost once, one launch that outlives its caller | rows, releases, charges, secrets and the promise, whatever fails (about 0.8 million states) |
| `contention` | two apps of two creators, one slot, one request, the lifecycle worker lost once | do the workers, the gateway and admission stay out of each other's way (about 1 million) |
| `endings` | one app, two operations, one request, each worker lost once, with fairness | does everything end, and is a slot held as long as its container is there (about 94 thousand) |
| `builders` | two builds, a limit of one machine, one failed or killed removal, symmetric builds | is anything forgotten, settled too early or deleted in use, and is the promise kept (about 1.2 million) |
| `removal` | one build, two failures, with fairness | does the machine go in the end (about 8 thousand) |
| `execution` | no constants, with fairness | what do a receipt and a result say (about 34 thousand) |
| `signins` | one login, one browser, three accounts of which one has no address at first, two addresses that move once, two sessions, one request | does the credential reach the right user, once (about 2.2 million) |
| `mutations` | two accounts whose addresses stay, two workspaces, room for two creators; three symmetric requests of any kind, or a login beside one request | do repeated and late requests have one effect, do sign-ins keep their promise (about 0.8 million) |
| `user_side` | packaging while the directory is changed twice; two runs of deploy with two sources; a log of four lines, volume three, one failure, one reader; streams of four bytes with three values; two apps, two browsers, two users, two sign-ins | does the user get what was meant (about 0.9 million) |
| `sixth_slot`, `stale_route`, `late_launch` | as small as each needs | the disagreements of section 5 |

Bounds, all in the configurations: `MaxOps`, `MaxOrphans`,
`MaxPublisherCrashes` and `MaxLifecycleCrashes` cap what would be unbounded.
Three operations on an app allow a first deployment, an update (with candidate,
promotion and the retirement of the first release) and a secret change between
or after them, in every order; a fourth finds the same kinds of rows.  A second
loss of the same worker finds only states that the first could have found,
except for those in the recovery itself, which `LifecycleCrashes` reaches
because a loss is possible in the stage "recovering".  `ActiveLimit = 1` makes
two apps compete for one slot and two network slots stand for one active
container and one candidate; the code's values (5 and 6) differ in number only,
and the theorem about network slots is for every number.  In `operations` a build reserves
two seconds, all of the month, so that what is left after a build that was
charged less than its reservation is some time but not a whole reservation;
in `contention` two builds use up the month unless one was charged less.
`CHECK_DEADLOCK FALSE`: the bounded instances
really stop when their operations, requests or builds are used up and nothing is
left to do.

With two builds and a limit of one, a build is refused, waits for a machine that
is being deleted, or finds that the other's creation took effect late.
`MaxFailures` counts failures that nothing explains; a removal also fails,
without being counted, whenever the machine or the address is not in the state
that its step needs.  In `signins`, `polls` holds at most two requests that the
server has not handled, so that one is late when another is answered; a browser
waits for one callback at a time; two sessions let it change its account once,
before or after a form is opened; one request can log out or revoke all while
the login is under way.  In
`mutations`, three requests allow a request, one
that makes its repetition stale (a revocation, another grant or workspace) and a
third that depends on both; each receipt expires once.  `SpecApart` keeps the
three apart from the login, which has one request beside it, to admit a second
user who may approve as well or to end what was delivered; several logins of one
person, and other requests beside them, are left to the theorem.

In `user_side`, two edits are what a fooled check would need, one to break what
was looked at and one to restore its looks; the theorem is for every number.
Two runs of deploy are a run and its repetition; that theorem, too, is for every
number.  With a volume of three and records of one and two, a record evicts none,
one or two; four lines fill the log twice while a reader that takes one or two
records is between pages; the one failure is at any line, and of any of the four
kinds.  The three values are one that begins another, one that overlaps itself
and one with a newline, and four bytes are one more than the longest of them.
Two sign-ins of two browsers at two apps are what a mix-up takes.

### Fairness

`FairSpec` assumes weak fairness of

* the publishing worker's steps other than its loss, since `worker.py main`
  loops for ever and systemd restarts it;
* the lifecycle worker's steps other than its loss, for the same reason;
* each request that is under way, since every wait of `gateway.py` has a
  timeout;
* the end of an orphaned launch, since `sandbox.py` bounds its commands.

`BuildCoordinator!FairSpec` assumes weak fairness of the timer's `Reconcile`
(`remote.py:169-173` installs it, every minute), of the steps of a removal, which
have time limits, and of what the provider does in the end: it answers or drops
a request, completes a deletion, releases the address of a machine that is gone.
Coordinators may all be lost.  `BuildExecution!FairSpec` assumes that systemd
runs the timer and the helper and that a kill signal takes effect; nothing of
the script, the build or the connection.  Everywhere else there is no fairness.

Nothing is assumed of users, the operator, time or the apps.  The choice
between success and failure of a step is never fair: a remote step may fail
every time.  The lifecycle worker only tries an app's lock, once per scan, so
requests that keep it can hold an operation up for ever; the two lifecycle
properties carry that as the alternative `[]<>SharedLock(a)`.

### Mutants

`PROJECT.json` names, for each property of each passing run, a definition and a
faulty variant of it (`UndoResultOptimistic`, `TakeLockAnyway`, ...) that
must break the property.  The variants stand beside the definitions they
replace.

## 4. What is proved

### Platform

`PlatformProofs` proves for every set of apps, creators and requests, every
number of operations, slots and losses:

* `TypeCorrect`: `Spec => []TypeOK`;
* `OneOperation`: `Spec => []OneOperationPerApp`;
* `SlotsSuffice`: `Spec => []SlotForEveryLaunch`.

The only assumption there is `ConstantsAssumption` (`AppDatabase`): numbers are
numbers, the limits are positive, `NoApp` is no app, `Owner` gives each app a
creator.

None of the three is inductive.  `IInv` adds

* `DbInv`: an operation that exists is about an app that exists; a deployment of
  a new app would otherwise need no check for operations on it;
* `PubInv`: while the publishing worker works, its operation is an unfinished
  deployment, so that `Target` is an app and nobody else ends it;
* `LcInv`: the lifecycle worker's operation is the unfinished secret change of
  the app in its hands, so that it never writes the publishing worker's row;
* `GwInv`: a request under way has an app;
* `HostsInv`: at most `ActiveLimit` active containers and one candidate, no
  network slot twice;
* `Promotable`: from the candidate's launch to its promotion there is also an
  active container of the app.  Without it a promotion could turn a candidate
  into an active container too many, and the count behind `SlotsSuffice` would
  be lost.  It holds because `sandbox.py stop` refuses an app that has a
  candidate, not because the lifecycle worker stays away from the app.

`PlatformProofs` begins with the counting: `RoomForLaunch` and `SlotLeft` show that an
admitted launch leaves a slot free (a surjection from the containers to the
slots would need one container more) and that the lowest free slot exists;
`LaunchedContainers`, `LeftoversSound`, `ExitedContainers`,
`RenamedContainers` and `FewerContainers` show that launches, failed launches,
exits, promotions and removals keep the containers sound.  Then it has
frame lemmas (what a step must leave alone to keep each part), then one lemma
for each process and each kind of step, with one step for each action, and the
theorems follow from `InitInv`, `NextInv` and temporal logic.

`WorkersProofs` and `RuntimeProofs` prove the rest of `Platform`'s safety, from
the same assumption and with `IInv` at hand.

**The workers.**  `WInv` is what the two workers rely on between their
transactions: what a row says of the operation on it (`FreshRows`, `RouteRows`,
`SelectedRows`), that the lifecycle worker has its app's lock and its row until
the row says how it ended (`Locked`, `LcHolds`), and that what the publishing
worker read before its build is still so when it uses it minutes later
(`PubStarted`, `PubKnows`, `PubCharged`, `PubPort`).  The last holds because of
`Apart`: no deployment is open on an app that a lifecycle operation has.  That is
a matter of admission alone, since the publishing worker takes no lock; `RowsMove`
and `OperationGoesOn` are the frame lemmas that most steps go through.  From
`WorkersInvariant` follow

* `WorkersApart` (`NoOverlap`), `InterruptionsMarked`
  (`InterruptedNeedsOperator`), `RequestsProtected` (`InFlightProtected`);
* `SlotsAdmitted` (`AdmissionWithinSlots`), and `SlotsBounded`:
  `Spec => [](lifecycleCrashes = 0 => SlotBound)`.  `SlotBound` alone is false, as
  `sixth_slot` shows; the theorem says that the loss of the lifecycle worker is
  all that it takes, whatever becomes of the publishing worker and of launches;
* `PromiseKept`: `Spec => KeepsPromise`, the refinement of `Publication`.  Each
  step is one of the promise's or leaves status and selection alone, with one
  lemma for each process (`PublisherPromises`, `LifecyclePromises`,
  `AdmissionPromises`, `OthersUnseen`);
* `AllowanceKept`: `Spec => []BuildsAccounted`.  `UsedSeconds` is a fold over the
  set of operations.  `SumProofs` has what is needed of it: `IsSum` says that a
  function gives the sum over each part of a finite set, without a choice of
  order; `UnfoldSums` that the fold does so, whatever it chooses, and `SumChanges`
  that changing the function at one point changes the sum by the difference.
  Each is by the least counterexample among the parts (`LeastPart`), because the
  induction theorems of the library take an operator.  Then each
  step charges one operation at most, no more than was reserved for it, or
  reserves a build when there is room (`ChargesOne`).

**The runtime host.**  `RInv` ties rows to containers: a running app has the
container of its route, made from the selected release with the saved secret,
in the role of a candidate from the switch to the promotion (`ServedAt`,
`Switching`); values that are neither saved nor held are in no container and in
no launch that outlived its caller (`KeptAt`); a container has a reservation
(`ReservedAt`).  `PubServes`, `PubClean`, `LcServes` and `LcClean` are what each
worker knows of the host at each stage: the container that it will select is
there, and after a confirmed stop nothing is.  `RuntimeInvariant` gives
`RunningServed` (`RunningIsServed`), `SecretsRedactable`
(`SecretsStayRedactable`) and `ReservedContainers`:
`Spec => [](orphans = 0 => ContainersReserved)`.  Without that hypothesis it is
false, as `late_launch` shows: a launch that outlives its caller may create a
container after the clean-up.  The first two theorems need no such hypothesis.

**The releases.**  `CInv` follows the inventories through a deployment: between
deployments they are what the row names (`Exact`), during one they have the new
release and the previous one at most (`PubReleases`), and the previous release
is the app's own and not the new one (`PubPrevious`); when the worker cannot
say, the operation is left for the operator and is not over.
`ReleasesAreExact` (`ReleasesExact`) follows.

### Builders

`BuildersProofs`, for every finite set of jobs, every limit and every number of
failures (`JobsAssumption`, `LimitAssumption`): `TypeCorrect`,
`SettledBuildsAreOver`, `NothingIsForgotten` (`NothingForgotten`), `MachinesAreSafe` (`NotDeletedInUse`) and `LimitHolds`
(`WithinLimit`).  What the holder of the lock has done at each step ties
journals to machines (`LockInv`, `TodoInv`, `RemovalInv`, `MachineInv`): from the
step "delete" on there is a journal, from "addresses" on the machine is gone,
and so on; what a coordinator has done at each stage ties the evidence to the
build (`BuildInv`, `EvidenceInv`).  `LimitHolds` adds that while a creation holds
the lock there is room for one more machine in a coordinator's hands, and that
what was given to a coordinator exists (`GivenInv`), so that it does not come into
a listing later.  It rests on `UseBegins` (a machine is given only by an answered
creation) and `EndsGiveNothing` (the end of a command gives none).

`ContractKept`: `Spec => KeepsContract`, the refinement of `Rental`, rests on a
little more than the other theorems (`RentalInv`): a build runs on a machine that
is there, and a machine that is gone without a journal is in nobody's hands,
neither the one at which a command is nor in the list that the timer still goes
through, so that no settled machine gets a new journal.  Every step is one of the
promise's for one build (`Moves`) or leaves all three readings alone (`Alike`),
with one lemma for each process; `NoteCloses` says what the end of a command may
do to an account.

`ExecutionProofs`, which has no constants: `ReceiptsAreTrue` (`ReceiptIsFinal`),
`ReceiptsAreExact` (`ReceiptIsExact`), `SuccessesAreWhole` (`SuccessIsWhole`) and
`ReceiptsStay` (`ReceiptWrittenOnce`).  The invariant says in which order script
and worker go (`Sequence`), who calls the helper and when (`Calls`), that the
helper's lock admits one caller, who has seen no receipt (`Turns`), and that a
control group that was not found does not come later (`Looked`).

### Accounts

`AccountsProofs`, for every set of emails, accounts, logins, browsers and
requests and every bound (`IdentityAssumption`, `SignInAssumption`,
`MutationAssumption`): `TypeCorrect`, which no run needs to repeat, and each
property of `Accounts`.  Two facts carry most of it: every step keeps the identity store
well formed and its tables only grow (`IdentityStep`: rows keep their user and
login, a credential that is not live stays so), and sessions keep their user and
account (`SessionStep`).  The rest of `IInv` is

* `FormsInv`: an open form names the user of the session it was opened in, so
  that a form which fits the browser's cookie names the browser's user;
* `LoginsInv`: a login is approved for whom its form named, and a login that
  issued a credential is consumed, which also keeps it from being approved or
  delivered again;
* `DeliveryInv`: credentials of one login are one, and a client that was sent
  one holds that one;
* `EffectsInv`: every effect has left a receipt, kept or expired, and a "revoke
  all" that took effect has revoked its own credential, so that no copy of it is
  accepted;
* `RequestsInv`: what a request carries exists;
* `GrantsInv`: there are finitely many creator grants, within the limit.

`SessionsKeepTheirAccount` and `RestartSucceeds` are inductive with these, and
`FormsAreHonest` follows: a credential is for the user whom the form named.

`DelegationKept`: `Spec => DelegatesOnce`, the refinement of `Delegation`.  It
needs one fact more, `BegunInv`: nobody has agreed to a login that was not begun.
A login reads as its one credential (`IssuedReads`), one that is not consumed has
none and its client holds none (`OpenReads`), and what a step does to credentials
ends some or leaves a login alone (`RevocationReads`).  With these each step is
one of the promise's for one login (`Moves`, `OneEnds`), or ends a person's
authority in all of them (`RevokeAllPromises`), or is not seen (`Alike`).

### The user's side

`UserSideProofs` has a theorem for every property of `SourcePackage`,
`DeployClient`, `AppAccess`, `Diagnostics` and `Redactor`.  The first three need no
assumption about the constants, the log only `LogAssumption`: the volume and the
limit of a page are numbers, and a record takes at least a byte, which an encoded
record does.  The redaction has `RedactionAssumption`: a value is a sequence of
bytes and not empty, as `Registry.save` (`diagnostics.py:84`) and the vault
(`app_secrets.py:25`) demand.

`SourceStaysWhole`: `PackageSpec => []SourceWhole`, for every
number of edits.  The argument is that stamps are not used again: a file that
has the stamp which was looked at is that file (`Stamps`, `Looked`), a handle
that still has it was not written to while it was read (`Reading`), and a
`.dockerignore` that is archived is the one whose rules apply (`InHand`).  While
the directory's stamp is what it was before the listing, its names are those
still to do, the archived and the unwanted (`Listed`); since stamps only grow and
the first one is the smallest, the last check makes the two checks of the
directory one.  `Ruled` closes the gap between them: rules that were read are of
a file which is still there.  `EditPreserves` is the lemma for both of the
editor's actions.

`OutcomeStaysTrue`: `DeploySpec => []OutcomeIsTrue`, for every
number of runs and archives.  An answer is true of the operation when it is
given, and stays so, because an operation keeps its archive and its final state
(`Goes`); `RequestInv` says it of the answers, `CommandInv` of the command, whose
last report of a final state is the operation's.  A run that is not over has no
outcome, and one whose request was refused is not among the admitted.

`AuthorityIsKept`: `AccessSpec => []AuthorityIsMeant`, for every set
of apps, browsers, users and names and every number of sign-ins.  A flow cookie
is where its flow began (`FlowsAreOwn`), a session cookie is of a flow that was
finished there (`CookiesAreOwn`), and the account of a flow is bound before there
is a session of it (`SessionsAreVouched`).

`VolumeStaysBounded`, `PagesStayExact` and `LossIsTold`: `LogSpec => []VolumeBound`,
`[]PagesExact` and `[]GaplessUnlessTold`, for every volume, every set of record
sizes and every number of lines and failures.

* *The stream.*  `SizeOf` is a fold over a sequence; `SizeIsSum` shows that it is a
  sum over the positions, which `SumProofs` lets split (`SizeSplits`), extend
  (`SizeGrows`) and count by the records instead of the positions (`SumReindex`).
  So eviction finds what it looks for (`RoomIsMade`), and each step leaves the
  stream alone, cuts its oldest records, or appends one and cuts (`Stays`,
  `Shrinks`, `Grows`).  `Stored` is kept by each: the ids are consecutive up to the
  last one given (`Numbered`), and as long as nothing was dropped every record is
  there and whole (`Complete`).
* *The lines.*  `Continues`: as long as no loss is told, the stored lines follow each
  other, and the next line on the connection follows the last one stored.  It needs
  `Connected`, that the lines on an open connection are the last that were printed;
  whatever breaks this sets a mark or drops bytes.
* *The reader.*  `Follows` relates a reader to the stream between its pages: what is
  still stored of the snapshot was read or has a higher id (`Within`), and what
  is not weighs no more than the growth of the dropped bytes (`Accounted`).
  `CutFollows` keeps it through every change of the stream, `PageFollows` through
  a page.  `PagesExact` follows at once; an untruncated last page was reached with
  nothing dropped, so that it has every record, and the lines follow by
  `Continues`.

`RedactionStaysExact`: `RedactionSpec => []RedactionExact`, for every set of
values, every text and every way to cut it.  `Wire` and `Scan` are recursive
functions, and the library's induction theorems cannot be used, so each induction
is on the least (`Upward`) or the greatest (`Downward`) position that is a
counterexample.

* *What arrives.*  `WireExists` shows that the function is there, `ArrivesAt` that
  a byte which survives arrives where the count of the survivors has come to,
  and `CountShifts` that a value arrives in the middle of a text as it does alone.
  So what is printed as a value arrives as what `Writer.refresh` made of it.
* *One scan.*  `ScanSound`: a scan shows only bytes at which no value stands or
  may go on, and what it settles without showing is covered by a value, or by
  the beginning of one at the end.  `DecidedForGood` is why a value that may go
  on must wait: at a position where none may, more bytes change nothing.  With
  it `ScanJoins`: scanning what has arrived, and then what was held back with the
  rest, shows what one scan of the whole shows.
* *The invariant* has a part for each part of the property: a byte that was shown
  is not the first of a value that was registered in time (`ShownIsBare`); a byte
  that was settled and not shown is covered (`HiddenIsCovered`); and what was
  shown, with what a scan of the rest would show, is what one scan shows
  (`CutsDoNotMatter`).  A registration disturbs none of them, because it comes
  after the bytes that have arrived.

### Only model-checked

* Liveness, and anything with fairness or ENABLED: `DeploymentsEnd`,
  `LifecycleOperationsEnd`, `SecretChangesEnd`, and what `removal` and `execution`
  check of that kind.
* `SlotBound` and `ContainersReserved` without the hypotheses of their theorems,
  and `RequestReachesOwnApp`, are false; section 5 has the runs that show it.

Every other invariant and action property that a run checks is a theorem.

## 5. Where the code and its documents disagree

Each run checks one property that a document states, and TLC finds a behaviour
of the model that breaks it.

* `sixth_slot`.  `identity/LIFECYCLE.md:7`: "There are five active slots in the
  initial workspace and installation."  A secret change whose stop fails and
  whose undo succeeds commits its app as failed, which gives the slot back,
  before its operation is ended.  If the worker is lost in between and another
  app takes the slot, `recover` (`lifecycle.py:59`) puts the first app back into
  `stopping`, a reserving state, without asking for a slot.
* `stale_route`.  `docs/contracts.md:116`: "Runtime ingress accepts only
  authenticated gateway traffic, bound to the intended app".  An idle stop
  removes the container before it clears `target_port`.  If the worker is lost
  in between, its lock is freed and the network slot is free as well; a request
  to the stopped app is then forwarded to the next app that gets the slot, until
  recovery has cleaned up.  Nothing needs to be lost for that: a request that has
  read its target while an update is promoted connects to the old container's
  port, which the promotion has freed (`gateway.py:177`), and another app may
  have it by then.  With three operations and no losses (`MaxOps = 3`,
  `MaxLifecycleCrashes = 0` in `StaleRoute.cfg`) TLC finds this in 34 steps, after
  some four minutes and 6.6 million states; the run keeps the shorter instance.
* `late_launch`.  `identity/LIFECYCLE.md:7`: "unconfirmed cleanup also retains
  its reservation".  When the connection of a launch breaks, `cleanup` looks for
  the container without the sandbox's lock (`worker.py:289-290`); the container
  may be created after that.  The operation is then recorded as failed and the
  slot is free while the container runs.

No run, but worth knowing: `login.py:98` tells the user of an interrupted login
that the attempt "remains available until expiry".  When the interruption comes
after the credential was issued, the login is consumed and every further poll is
refused; `DeliveredOnce` holds because of that.

Others of that kind, which no property here is about:

* A `.dockerignore` that is created between the look for it and the listing is
  compared with nothing: `unchanged(None, ...)` at `upload.py:254` raises an
  AttributeError, and the command ends with a traceback (`step = "crashed"`)
  instead of `UPLOAD_REJECTED`.  Nothing is uploaded.
* `identity/DIAGNOSTICS.md:31` says that disconnections are explicitly marked.  A
  connection that breaks before its first line has arrived is not
  (`collector.py:49-52`), since nothing says whose it was, nor is a ninth
  connection that is closed at once (`collector.py:72-74`).  `GaplessUnlessTold`
  therefore promises nothing of the time before the first line that was ever
  collected.
* The collector begins with `last_maintenance = 0` and compares it with a
  monotonic clock, so that right after the machine has started the first
  maintenance may be late by up to its interval.
* When Ctrl-C comes after the wait for a deployment has returned and before the
  command has printed its result, `cli.py:128-134` says that accepted work
  continues, of an operation that succeeded.  `OutcomeIsTrue` asks only that work
  which is said to be over is over.
* An upload is refused for want of a slot before its receipt is looked for
  (`http.py:239`), so that the repetition of an admitted request may be refused;
  `OutcomeIsTrue` allows it, since the command only says that there is no slot.

## 6. What is not modelled

* The parts of `PROJECT.json` "components" with status "not_modelled", with the
  reason or the plan for each.
* Several workspaces, sharing scope and membership as such: `authorized` stands
  for what a creator is asked for.  It can be lost at any time and is not given back, since
  nothing in the repository gives it back.
* A new month: `UsedSeconds` counts all operations in one.
* The diagnostics registry that the publishing worker fills between its steps
  (it does not influence them), firewall policy, image pruning, and the
  contents of requests, archives, images and environments.
* Receipts of secret changes: a repeated request gets the stored answer and
  changes nothing.  Those of identities and deployments are modelled.
* Builders: setting up keys and firewalls, the retries of a creation over machine
  types, unpacking the archive, the network policy of a build, evidence files
  beside the receipt.  `WithinLimit` counts machines that a coordinator was given;
  one that was created when nobody waited any more is counted by the next listing,
  but may come on top of the limit, until it expires.  `ReceiptIsFinal` and
  `BuildStops` leave out builds whose ten minutes were over before the worker was
  started (`timer = "early"`).
* Identities: selecting a workspace by its name, the limits of 100 logins and 200
  sessions, random tokens and digests, the three places where a credential may be
  stored, the migration of older schemas (its checks at a restart are
  `RestartSucceeds`).  Nothing in the code removes a member.
* Packaging: subdirectories, the syntax of patterns, and limits of size and number.
  Each edit is taken to change what `os.stat` tells of the file; an edit that
  leaves size and times as they were would not be seen.
* The client's other commands, which are one request each; the expiry of a
  deployment's receipt.
* Logs: several apps in one collector, the filter by time, the health of the
  tunnel, the migration of old build logs; empty lines, which make no record
  (`diagnostics.py:214`), and lines that are joined because the end of the first
  may be the beginning of a value.  A cursor that is pushed out by newer
  ones and one that has expired are one event.
* App access: bearer credentials at the gateway, several names of secrets in
  `user_side` (one name; the theorem is for every set), and the refusal of a
  secret change while an operation is under way, which is in `Publishing`.

## 7. Plan

Done: Platform, Builders with BuildExecution, Accounts, and the user's side.
Next, in this order:

1. **Releases**: `releases.py` publish, retire and prune with its grace period,
   beside the publishing worker.
2. **Supervision** (`services.py`, `spending.py`): maintenance and readiness
   against the workers.
3. An abstract specification of the requests of Accounts and of one app's log,
   and their refinements; those of operations, builders and sign-ins are proved.

Each module has one instance and one run; where two runs ask their questions of
instances that can be joined, they are joined.
