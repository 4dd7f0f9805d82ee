# deploy-service in TLA+

deploy-service gives every project a virtual Kubernetes cluster (vcluster), deploys repositories
into it through GitHub pull requests, meters what the projects use and charges their owners'
prepaid balances. This directory holds TLA+ models of its core, the TLC runs that check them and
the TLAPS proofs about them. Paths below are relative to `src/deploy-service/internal/`.

The code is a single Go process. What is hard in it is not any single function but that hardly
anything is atomic: a handler reads a record, works outside for minutes and writes the *whole*
record back; the balance is an absolute value written by three parties; kubectl, vcluster, the
database, GitHub and the payment gateway can fail at any call, or do the work and fail to answer;
and goroutines die with the process without anyone taking over.

## Inventory

| Part | State | Operations | Interacts with |
|---|---|---|---|
| Project lifecycle (`service/project_service.go`) | none of its own; works on copies of project records | create, provision with retries, delete, suspend, resume, settings, bootstrap, runtime status | project store, provisioner, stages, releases |
| Project store (`store/memory`, `store/postgres`) | one record per project | `GetByID`, whole-record `Update`, token and kubeconfig columns | every operation above |
| Provisioner (`integration/kubernetes/kubectl_provisioner.go`) | the host cluster: namespace, vcluster, policies, Grafana, ingress | create, pause, resume, delete, kubeconfig, stages, rollout | kubectl, vcluster |
| Billing guard (`service/billing_guard.go`) | `pendingCharges`, `graceStartedAt` under `billingGuardMu` | reserve and release a deploy's budget; per-minute check with grace, suspension, deletion | users, usage, ledger, lifecycle |
| Payments (`service/auth_service.go`) | balances, `yookassa_payments`, `billing_transactions` | initiate, webhook, direct top-up | YooKassa |
| Metering (`app/app.go`, `monetization`) | `resource_usage` | collect a snapshot, charge it | balances, ledger |
| Releases (`service/project_service.go`) | release rows | pending release of a bootstrap, webhook, synchronisation, rollback | GitHub, stages, provisioner |
| Stages (`service/project_service.go`) | stage rows, namespaces inside the vcluster, the URL cache | create, lazy creation of production, delete, runtime status, URLs | provisioner |
| GitHub automation (`integration/github/github_automation.go`) | none of its own; branches and pull requests at GitHub | questions, bootstrap of a repository, lookup of runs | GitHub, project record, releases |
| Auth, notifications, HTTP, metrics, logs | little or none | - | external services |

What makes each part correct:

- *Lifecycle*: a record never claims an environment that is not there; statuses follow the graph of
  `tasks/task-011`; what one operation filled in is not dropped by another; creating and deleting
  come to an end.
- *Deploy budget*: concurrent deploys do not pass on the same money; a reserve lives exactly as long
  as its deploy; the grace period follows the money.
- *Payments*: each payment is credited exactly once; the ledger explains the balance.
- *Suspension*: nobody is suspended before the grace period is over, and nothing is deleted before
  the retention period is; one user's error does not keep the guard from the others.
- *Releases*: a workflow run has one release, on its own stage, whatever the order of events; a
  success is never made up; the stage shows the outcome of its runs.
- *Stages*: a slug names one stage; a deleted stage stays deleted and leaves the URLs shown; an
  active project gets a stage.
- *Provisioner*: a creation that answered well left everything, a deletion nothing; nothing is ever
  there without its namespace.
- *GitHub automation*: a pull request holds what one request asked for, all of it and nothing else;
  a workflow on the base branch finds its manifests; a waiting release can be matched.

`PROJECT.json` lists, under "hazards", each place of the code where these can go wrong.

## Modules

| Module | Models | Status |
|---|---|---|
| `HostEnvironment` | abstract: how a project's environment on the host cluster can change, in coarse steps | implemented by `Provisioner`, proved |
| `ProjectLifecycle` | a project's record, its environment, the provisioning goroutine, the handlers | checked, proved |
| `ProjectLifecycleProofs` | typing, `NoHollowProject`, `NeverOverpromises`, `OnlyStaleWritesLeaveTheGraph`, `OnlyStaleWritesDropFacts`, `SettledRecordMatches`, retry delays | proved |
| `Provisioner` | `KubectlProvisioner` call by call | checked, proved |
| `ProvisionerProofs` | refinement and the invariant it needs, typing, `CreatedIsWhole`, `DeletedIsGone` | proved |
| `DeployBudget` | reservations and the grace map | checked, proved |
| `DeployBudgetProofs` | typing, `NoOvercommit`, `PendingIsReserved` | proved |
| `Payments` | gateway, payment rows, balance, ledger | checked, proved |
| `PaymentsProofs` | typing, `CreditedOnce`, `AcknowledgedIsCredited`, `LedgerExplainsBalance` | proved |
| `BillingGuard` | the loop that suspends and deletes, its deadlines, and requests beside it | checked, proved |
| `BillingGuardProofs` | typing, `SuspendedOnlyAfterGrace`, `DeletedOnlyAfterRetention` | proved |
| `Releases` | releases, webhook, synchronisation, rollback, GitHub's runs | checked, proved |
| `ReleasesProofs` | typing, `RunsAreBoundWell`, `SuccessIsEarned`, `OnlyOldNewsReopens`, `StageAgrees` | proved |
| `Stages` | stages, their namespaces, the cached URLs | checked, proved |
| `StagesProofs` | typing, `OneStagePerSlug`, `DeletedStaysDeleted`, `QuietStagesAreTrue` | proved |
| `Bootstrap` | the set-up of a repository, from request to waiting release | checked, proved |
| `BootstrapProofs` | typing, `PullRequestsAreWhole`, `WorkflowFindsItsFiles`, `WaitingCanBeMatched` | proved |
| `MC...` | instances for TLC, one for each of the eight | - |

How they fit together. `ProjectLifecycle` takes an environment in three steps (namespace, vcluster,
the rest); `Provisioner` takes it call by call, and is shown to implement `HostEnvironment`: a namespace
is there before anything in it, and nothing is there after it. The cluster's part in the steps of
`ProjectLifecycle` is written after the same coarse steps and is an assumption there, as the cluster's part in any
other module is: that the two modules agree is read off, no composition of them is proved. `Bootstrap` ends with the pending release that `CreateBootstrapRelease` of `Releases`
begins with, and `WaitingCanBeMatched` is what `Releases` assumes of it. The outcome a release
reports to its stage (`ReportToStage`) is `BeginReport` in `Stages`, where the row it writes lives
with everything else that writes it. The activation that `ProjectLifecycle` ends with is the
`Activate` that `Stages` begins with. `DeployBudget` lets a deploy pass or not, `BillingGuard` takes
money as present or absent and adds time.

### ProjectLifecycle

`store` is the projects table, `env` the host cluster, `prov` the goroutine started by
`CreateProject` with its own copy of the record, `handlers` the goroutines that serve requests (and
the billing loop where it writes records), each with the record it is going to write. Reading,
every cluster call and every write are steps of their own. A record is reduced to its status and to
which of three facts (settings, apps base domain, public URL) it holds; these are what a write of
an old copy can undo. An environment is a namespace, a vcluster (absent, running, paused) and
whether everything after the vcluster is in place.

`Faults` says what may go wrong: `store` (an `Update` answers an error, having written or not; a
re-read fails; `Create` fails, so that no goroutine starts, whether or not the row is there), `env` (a kubectl or vcluster call answers an error, having done its work or not),
`crash` (the process restarts: goroutines are gone, store and cluster stay). A failed first read of
a handler only makes it answer 404 and changes nothing, so it is not a step.

The history variables say what the properties need to tell apart: `fresh`/`stale` (was the copy
just written up to date?), `overlapped` (did two operations on the project overlap?), `cutShort`
(did a handler's cluster call fail?), `built`, `deleteRequested`.

Abstractions: requests are served by any handler at any time, in any number; namespace deletion
(`--wait=false`) is immediate; which errors look transient (`isRetryableProjectProvisionError`) is
left open; deployment settings are one fact; stages and releases created by bootstrap and after
activation are left to `Stages` and `Releases`. `BeginRuntimeStatus` and `Observe` also stand for the
same read and write of the project in `GetStageRuntimeStatus`. `reconcileProjectGrafana` and
`reconcileProjectPublicAccess` write the record too but nothing calls them.

Every write of the record is in one of three places: `Put` for both stores, through `Written`,
which keeps the store's settings when the incoming record has none (memory store,
`MergesEmptyFields = TRUE`) or not (Postgres).

### DeployBudget

`pending` and `grace` are the two maps of `ProjectService`; `work` holds what each goroutine has
read so far. Restarts and failing reads are faults, up to `MaxFaults`: without the user
the check or the deploy ends (`ReadFails`), and a list of projects that cannot be read counts as nothing
spent. The balance is read, then the spending, then the lock is taken: four steps for a
deploy (`BeginDeploy`, `ReadSpending`, `Admit` or `Refuse`, `Release`), four for a check of the
guard (`BeginEnforce`, `GuardSpending`, `Judge`, `Apply`), which takes the lock twice. `balance` and
`spent` move freely (`BalanceMoves`, `SpendingMoves`) among the values given: whatever metering, top-ups, deleted
projects and the turn of the month do is among it. `high` and `low` are history: the highest
balance and lowest spending since the user last had nothing held back and no deploy in progress. They
may be of different moments, and `low` is 0 once a list has failed: `NoOvercommit` bounds what is
held back by their difference, which is more than the user need ever have had at any one time. A bound of
that kind is the best that torn reads allow.

Abstractions: amounts are whole units, so rounding and the threshold 1e-9 are not modelled; the
estimate of a reserve is any member of `Reserves`; the spending of several projects is read in one
step; refunds are 0, since no code creates one; what happens when the grace period is over is in
`BillingGuard`. The loop comes to every user, where the code comes to the owners of projects that are not
deleted: each user is taken to have one.

### Payments

`gateway` is YooKassa's side (external): created, offered to the user, paid, acknowledged. It
notifies until it gets a 200, and may notify again while an earlier notification is still being
served. `table` is the payment's row. `InitiateTopUp`/`RecordPayment`, `LookUp`/`MarkSucceeded`, and
`ReadBalance`/`UpdateBalance`/`RecordTransaction` follow the calls of the code. The last three also
stand for the same three calls of `collectAndStoreUsage` (with a negative amount), made by the
goroutine `Meter`. Every call can fail (`Fault`), where the code may notice the error with
or without the effect; a restart is a fault as well. Notifications are genuine ones; what else a
webhook might be sent is not considered.

### BillingGuard

`store` is the projects table (status and `DeletionDueAt`), `grace` the map `graceStartedAt`, `round`
what is left of the round of `EnforceAllBillingGuards`, `work` what the loop and the requests are
doing. A check of a user notes the time, lists the projects (`BeginCheck`), decides (`Judge`) and
works its decision off: `Forget` and `Cancel` when there is money, `Start` when a grace period
begins, `Suspend` and `Pause` per active project and then `ReadToDelete`, `SaveDeleting`, `Destroy`,
`SaveDeleted` per project that is due when it is over. A request runs a check as well (`GET
/billing`), or deletes, suspends, resumes or updates a project; a deploy that is refused starts a
grace period (`RefuseDeploy`). An error of any call ends the check, and the loop's round with it.

Time. Deadlines are kept as the time that is left, which `Tick` lowers everywhere, also in the copies
that operations hold; long past is as good as past, so that time goes on for ever in finitely many
states. A job's `age` is the time since it noted the time; `Lag` bounds it, for an operation with
slow calls to the cluster. The properties allow for `Lag`.

History: `clear` is the time since it was last clear that no grace period ran, `suspended` the time
since the guard suspended the project, `untouched` whether nobody has written the record since.

Abstractions: a user has money or not, and `MoneyMoves` changes it at any time; an exempt user is one
whose money never runs out, and how the amount is made up is in `DeployBudget`. When the list of
projects cannot be read the code goes on with none, nothing spent and so money left: `BeginCheck` and
`Judge` have that. The order of the users in a round and of the projects in a check is arbitrary.
Projects are `active`, `suspended`, `deleting` or `deleted`; others are the lifecycle's. The memory store
keeps the deadline, never fails and would lose everything in a restart, so faults and restarts are
those of Postgres. Its table has columns for the deadline and for the time of suspension (migration 022),
but the store's `Update`, `GetByID` and `List` leave them out (`store/postgres/project_store.go:22-148`), so that
a project comes back without its deadline. `Judge` takes money and grace period in one step; that the code reads
balance and spending before the lock under which it reads the grace period is in `DeployBudget`. Calls to the cluster may fail at any time
with either store.

### Provisioner

The host namespace (`ns`, with its time of dying), the helm release (`vcluster`), the kubeconfig secret the
vcluster writes, what is applied (`parts`), the external address of the API server, and the
port-forwards that run. One action per call of kubectl or vcluster, in the order of the code; a call
into the vcluster (`runKubectlInVCluster`) first reads the secret, makes the namespace if it is missing
(`ReconcileNamespace`), waits for the secret (`WaitToRead`), and starts a port-forward that
`RunCommand` ends. Goroutines are not kept from each other, as nothing in the code keeps them. `mode` chooses among the deployments the configuration allows: with a base
domain, with ingress-nginx installed in the vcluster, or with neither, in which case
`applyProjectGrafana` returns at once.

Every call may fail (`"call"`), having done its work or not, once in a behaviour; so may the
process, once. What is not a fault happens at any time: a namespace that is gone refuses what is applied
to it, a wait runs out, a vcluster that exists may be refused or set up again, `vcluster
delete --delete-namespace` may take the namespace or leave it. `answered` and `"overlap"` are history,
for properties of calls that were not interfered with.

Abstractions: the kubeconfig is always one for localhost, so that its reader needs the external
address; the wait for the ingress address inside the vcluster (each attempt a call of its own) is one
step an attempt, while the two calls that install the controller and await its rollout are made step by step; the manifests' text is left out, and the deployment of Grafana counts as one part.

### Releases

`releases` is the table in the order of creation, `github` the workflow runs and, by `Sent`, the events
about them, `stage` the status column of the stages. A goroutine serves one event, one list or one
rollback and holds the copy of the row it is going to write. The webhook looks a run up (`Lookup`),
else takes the newest release of the stage that waits for a run, or creates one (`Match`, `Create`), and
writes the whole row (`Write`); a list asks GitHub stage by stage (`FetchRuns`) and goes through the
runs (`EachRun`) with the pending release it had listed before; a rollback creates its row, puts the
image on the cluster and writes the row again. `troubles` notes faults and overlaps, since
what holds without them is often more than what holds with them.

Abstractions: an image is told apart by the run that built it; GitHub's runs that are queued count as
pending, which is what `mapWorkflowRunStatus` makes of them and where the webhook returns early; the
repository belongs to one project; a rollback that is refused for want of money has no effect. A run may
be missing from what GitHub answers, for the query asks for twenty at most and a start time.

### Stages

`stages` is the table, `namespaces` and `ready` what is in the vcluster, `cache` the cached URLs as the
stages they name. Every writer holds a copy of the row: a creation (`Insert`, `ApplyNamespace`, `Settle`,
for `provisionProject`, `CreateStage`, the backfill of `ListStages` and a release without a stage), a
deletion (`BeginDelete`, `MarkDeleting`, `RemoveNamespace`, `SettleDeleted`), a look at the runtime status, a release that ended, a bootstrap that fills in the URL. The
project is `provisioning` or `active`: while it is provisioned, the vcluster may not be there. `Deploy`
is GitHub's workflow, which makes the namespace it deploys to, also that of a stage just deleted.

Abstractions: one project; the URL of a row is not told apart, only that the row is written; `Unique`
is the unique index of Postgres. The run takes the memory store, where only lookups keep a slug from
two stages.

### Bootstrap

The base branch, the branches the service makes (one name for each project and second), the files on
them, the webhook, the project's copy of the settings and the releases that wait. One action per call to
GitHub in the order of `BootstrapRepositoryFlow`, then `SaveProject` and `CreatePendingRelease`. A file is the settings
it is rendered from, so that two files differ exactly when their parameters do; what the code infers
(port of the Dockerfile, name of the repository), normalises (replicas) and derives (service type,
ingress) is computed as it does. Users merge a pull request whenever it has no conflict, which is
judged file by file.

Abstractions: service and container port are one port; resource profiles, tokens and base branches
other than the default are left out; the stage is looked up in `Stages`, the money reserved in
`DeployBudget`, a suspended project is refused in `ProjectLifecycle`.

## Runs

| Run | Instance | Shows |
|---|---|---|
| `lifecycle_faults` | 1 project, 2 handlers, 2 attempts, Postgres, all faults | `TypeOK`, `NoHollowProject`, `NeverOverpromises`, `OnlyStaleWritesLeaveTheGraph`, `OnlyStaleWritesDropFacts` |
| `lifecycle_settles` | 1 project, 1 handler, 4 attempts, memory store, failing cluster calls, fair | `SettledRecordMatches`, `WorkSettles` |
| `environment` | 2 goroutines, 3 modes, 2 tries, 3 changes, 1 failing call or restart | `TypeOK`, `CreatedIsWhole`, `DeletedIsGone`, `ImplementsHostEnvironment` |
| `budget` | 1 user, 2 requests and the loop, 2 balances, 1 failing read or restart, fair | `TypeOK`, `PendingIsReserved`, `NoOvercommit`, `GraceFollowsMoney` |
| `payments_faults` | 1 payment, 2 requests and the meter, 2 moves, 2 faults, fair | `TypeOK`, `CreditedOnce`, `AcknowledgedIsCredited`, `LedgerExplainsBalance`, `PaidIsCredited` |
| `payments_twice` | 1 payment, no faults | violates `WebhookIsIdempotent` |
| `guard_memory` | 1 user with 1 project, 1 request and the loop, memory store, failing cluster calls, fair | `TypeOK`, `DeletedOnlyAfterRetention`, `UnpaidIsDeleted` |
| `guard_postgres` | 2 users with a project each, the loop, Postgres, 1 fault or restart, fair | `SuspendedOnlyAfterGrace`, `BrokeIsSuspended` |
| `guard_undeleted` | 1 user with 1 project, the loop, Postgres, no faults, fair | violates `UnpaidIsDeleted` |
| `releases` | 1 stage, 2 runs, 2 releases, 2 goroutines, 2 operations, 1 fault of any kind | `TypeOK`, `RunsAreBoundWell`, `SuccessIsEarned`, `StageAgrees`, `OnlyOldNewsReopens` |
| `stages` | 2 slugs, 2 rows, 2 handlers and the goroutine, 2 changes, memory store, 1 fault, fair | `TypeOK`, `OneStagePerSlug`, `QuietStagesAreTrue`, `DeletedStaysDeleted`, `BackfillGivesAStage`, `DeletedStagesLeaveURLs` |
| `bootstrap` | 3 requests, 2 goroutines, 2 seconds, 1 failing call or restart | `TypeOK`, `PullRequestsAreWhole`, `WorkflowFindsItsFiles`, `WaitingCanBeMatched` |

Bounds. Projects do not touch each other's records and environments, so one is enough; two handlers
beside the goroutine give three concurrent writers, enough for a stale copy to be overwritten and to
overwrite. `MaxAttempts` is the code's 4 where its end is the question and 2 (one retry) elsewhere.
`lifecycle_faults` uses symmetry in the handlers; runs with liveness use none. In `DeployBudget` two reserves of
different size and two balances admit none, one or both deploys; exempt users are in the proofs only. The payments of
one user meet only in the balance, where direct top-ups and charges (`MaxMoves`) stand for the
others. `MaxFaults` = 2 puts a fault into a notification and another one into its repetition.
`guard_memory` asks about the retention period and makes it 3 with a `Lag` of 1, `guard_postgres` asks
about the grace period and makes it 2 with the same `Lag`: a deadline can be missed by the time an
operation takes, and still be told from one that was not waited for. The period a run does not ask
about is as short as it can be (0 and 1). Two users in `guard_postgres` let one user's error keep the loop from the other.

In `environment` a wait of two tries can end well, late or not at all; one goroutine creates, deletes
and pauses, the other does everything else, so that every call meets every other; three changes give a
creation, its deletion and one more. In `releases` the second run may be of a workflow whose stage does
not exist; two runs and two releases let a pending release be taken by the wrong run, and a row be
written by an event, a list and a rollback. Two operations
meet in every pair at every point of each other; for longer histories there is what is proved. Two
goroutines, one for events and rollbacks, one for events and lists, give every pair but two rollbacks
and two lists, which read what the other wrote like any other. In `stages` two slugs give
production, which cannot be deleted, and one that can; the second row is the duplicate. In `bootstrap`
one second allows for the collision of branch names and the next for a second pull request; one of the
requests leaves everything blank, one asks for no ingress and too many replicas, one for another
service. One fault of each kind is enough for the properties of a single request or job, for the next
fault finds it ended.

The deadlock check is off where everything may be done: in `payments_*`, `releases`, `stages` and
`bootstrap` the bounds are used up, or nobody asks for anything any more.

Fairness. Goroutines run and the calls they make return (`WF` of each worker's steps); requests
are never fair. In `DeployBudget` a check of the guard ends, while a deploy may take for ever, and the loop comes to every user again
and again (`SF` of its `BeginEnforce`), since `EnforceAllBillingGuards` goes through all owners at
every tick; that is so as long as no error lasts, for one of an earlier user ends the round, and failing
reads are bounded there. `BillingGuard` models that round: it begins again and again and comes to each user unless an error ends
it early (`WF` of `BeginRound` and of `BeginCheck` of the loop), operations come to an end (`WF` of
`Step`), and time passes whenever no operation is late (`SF` of `Tick`: it waits for operations that
have used up their `Lag`). In
`Payments` the gateway keeps notifying until it is answered (`WF` of `Notify`). In `Stages` each goroutine goes on
and the cached URLs expire, after `urlsCacheTTL` (`WF` of `Expire`); that somebody lists stages is a
premise of `BackfillGivesAStage` and not assumed. `Releases`, `Provisioner` and `Bootstrap` have safety only: a run whose event is
lost and that nobody lists stays without a release, and waits in `Provisioner` are bounded by
counters. Restarts are bounded
or excluded where liveness is checked: a provisioning goroutine does not survive one, and the
project then stays in `creating`.

### What the runs found

- Two notifications of one payment served at once credit it twice (`payments_twice`). With
  notifications one after the other it is credited at most once (`CreditedOnce`), but not at all
  when crediting fails after the row was marked, which `PaidIsCredited` allows for by `dropped`.
- Overlapping top-ups and charges lose each other's change, since each writes an absolute balance;
  `LedgerExplainsBalance` holds up to what was lost so (`raced`).
- With Postgres a project suspended for non-payment is never deleted, since its deadline is neither
  written nor read (`guard_undeleted`); with the memory store it is (`guard_memory`).
- A user with money can be put into a grace period for a moment, because what their own deploys
  hold back counts as spent; `GraceFollowsMoney` shows that it does not last once the deploys are over.

What the models show in the exceptions their properties make, without a run of its own:

- A project deleted while it is being provisioned does not stay deleted: the goroutine later writes
  `failed` or `active`, for an environment that is gone (the last case of
  `OnlyStaleWritesLeaveTheGraph`; `tasks/task-011` has nothing leading out of deleted).
- The re-read in `provisionProject` protects the last write but not the write of the apps base
  domain before it, which drops concurrent updates (`stale` in `OnlyStaleWritesDropFacts`).
- A top-up does not cancel the deadline of a project that was resumed before the next check, as only
  suspended projects are looked at (`Scheduled` in `BillingGuard`).
- A reader of the kubeconfig makes the namespace of a deleted project again, and nobody removes it
  (`"revived"` in `DeletedIsGone`).
- A finished release is opened again by an event that comes late, and its stage follows
  (`OnlyOldNewsReopens`); the next list corrects the release from GitHub's answer.
- Listing the stages right after activation may create production beside `provisionProject`, though the comment at
  `service/project_service.go:1489` means to exclude it: activation comes before the stage
  (`"overlap"` in `OneStagePerSlug`). On Postgres one of the two is refused.
- The slug of a stage that failed or was deleted cannot be used again (`CheckSlug`), while the
  notification of the failure says to try again later.
- A deployment that comes late makes the namespace of a deleted stage again, and looking at its
  status makes it active (`"late"` in `DeletedStaysDeleted`).
- A Dockerfile that cannot be read for a moment gives a pull request with port 8080
  (`PullRequestsAreWhole`).

## Proofs

`ProjectLifecycleProofs` proves, for any sets of projects and handlers, any number of attempts, either store and any
faults, `Spec => []TypeOK`, `Spec => []NoHollowProject` and that a retry always finds its delay
(`DelayExists`). The assumptions are those of the module: projects, handlers and `NoProject` are
distinct, `MaxAttempts` is positive. `NoHollowProject` is not inductive: an `active` record comes from a
copy, and the copy from another record or from a goroutine that got through
`CreateProjectEnvironment`. The invariant `IInv` therefore says of *every* place a status can come
from (the store, the handlers' copies, the goroutine past `ProvisionFinish`) that the
environment was built, that a built environment stands until a deletion is requested, and that only
handlers of a requested deletion are at deleting steps. There is one lemma per action.

The other properties of the lifecycle say something of operations that did *not* overlap with another
one, as the model's history tells them apart. `CopiesInv` says what the copy of a record means that nobody has
outdated: the record is still like it, what failed or never was has no goroutine, and what is being deleted
somebody asked to delete. From it follow `OnlyStaleWritesLeaveTheGraph` and `OnlyStaleWritesDropFacts`. `AloneInv`
says that an operation that nobody joined is the only one on its project, and what it has
achieved by each of its calls (`Promised`): that gives `NeverOverpromises`. `MatchInv` compares the
status with the environment place by place (`Matches`), for `SettledRecordMatches`; its
theorem assumes, as its run does, that only cluster calls fail (`Faults \subseteq {"env"}`), for a store that fails or
a restart does leave records half-way. The actions are first reduced to what they do to the
compared fields of one handler or goroutine (`HandlerMoves`, `RequestBegins`, `GoroutineMoves`), and each
invariant has one lemma for each of these kinds.

`ProvisionerProofs` proves `Spec => ImplementsHostEnvironment` for any goroutines, waits, modes and
faults. The refinement mapping `View` takes a dying namespace, and all in it, for gone already, so
that its final disappearance is a stutter and the deletion happens when it is ordered. The steps are
first reduced to nine changes of the cluster (`CreateStepChange`, `ReadStepChange`, `NextChange`),
about which the rest is proved: `ChangeKeeps`, that `NothingOutlives` is an invariant, and
`ChangeIsHost`, that each change is a step of the abstract specification or none. Without
`NothingOutlives` a namespace made again could bring back what had been in it. `mode` never
changes; that is part of the first reduction.

It also proves `Spec => []TypeOK`, `Spec => []CreatedIsWhole` and
`Spec => []DeletedIsGone`, again for any constants. What a change answers rests on all its calls
before, so the invariant `IInv` follows it. `Fits` says of each goroutine which calls its operation can
have taken it to. `Reached` says what a creation has left behind by each of its calls (`Laid`: which
policies are applied before which call), and that a deletion orders the namespace away only when the
vcluster is gone. `Sound` adds that while no changes overlapped at most one goroutine changes
anything, and none does once one has answered. Beside it run readers, and `ReadsOnly` shows that all they do to the
data is to make a namespace that is missing: `NothingOutlives`, proved before, says that it is empty then, and
a creation or a finished one never sees it, since its own namespace is present. `CreateStepAdvances`,
`ReadStepAdvances` (a creation on its way into the vcluster) and `StepAdvances` follow the change itself.

`DeployBudgetProofs` proves `Spec => []TypeOK` and `Spec => []NoOvercommit` for any users, requests
and amounts. `NoOvercommit` is a bound on the highest balance less the lowest spending, not on the money
of one moment. `Admit` compares the reserve with a balance and a spending read earlier, so the
invariant adds that `high` and `low` enclose both the current money (`MoneyInMarks`) and every
snapshot a deploy still goes by (`ReadsInMarks`). That what is held back is the sum of what the deploys in
progress reserved is proved in two parts. The steps need only two facts of a sum, that it is 0 for no
goroutines and that a member adds its own reserve (`Adds`); `HeldAddsUp` says that some function with these
two has the value `pending[u]` for the deploys of `u`, and each step carries the function along.
`PendingIsTheSum` is `PendingIsReserved` as it is worded, with the library's recursive `SumFunctionOnSet`: a recursive
function stands for one chosen among those that satisfy its equation, the function carried along satisfies it (`AddsFoldsUp`),
and over a finite set no two functions do, as the smallest subset on which they differ would have a smaller one
(`FoldsUpOnce`, by the library's well-founded orders, without an induction rule). There may be infinitely
many goroutines, so the invariant `FinitelyMany` adds that only finitely many deploy at any time.
`NothingHeldAfterwards` follows: without a deploy in progress
nothing is held. `NoReserveYet` is needed because exempt users skip the reservation and not the release.

`BillingGuardProofs` proves `Spec => []TypeOK`, `Spec => SuspendedOnlyAfterGrace` and
`Spec => DeletedOnlyAfterRetention` for any users, projects, requests, periods, `Lag` and either store. A check compares the grace period with the time it noted when it began, while other
checks and refused deploys start and end grace periods. The invariant `GraceIsYoung` relates the
deadline to the history: a running grace period of `u` has used up at most `clear[u] + Lag`, where
`Lag` is for a check that started it and had noted the time before. Each action that writes `grace`
or `clear`, and `Tick`, has a lemma, and `OnlyJudgeDecides` shows that no other step takes a check from
deciding to enforcing. For `DeletedOnlyAfterRetention` the deadline is followed along its way: in the record, as long as
only the guard has written it (`DueIsLate`); in what a check listed, unless the project was suspended since
(`ListedIsLate`); and in the decision, which still stands for all that is left to do while
time goes on (`TodoIsDecided`). `DeletionIsDue` is what they come to when the deletion is read.
Every step but `Tick` is reduced to what it does to one record (`RecordMoves`) and one goroutine (`JobMoves`).

`PaymentsProofs` proves `Spec => []TypeOK`, `Spec => []CreditedOnce`, `Spec => []LedgerExplainsBalance` and
`Spec => []AcknowledgedIsCredited` for any users, payments, goroutines, amounts, moves and faults. For the first, `ServedOnce` follows the
notifications of a payment: while they do not overlap, whoever is past the row and has not credited
it is the only one, and nobody has before; `Recorded` adds that the row is created once and that nobody
hears of the payment earlier. `AcknowledgedIsCredited`, which `payments_faults` checks, is what `PaidIsCredited` rests on
besides fairness: no payment is lost without a call having failed for good. `Kept` follows the row for it,
whatever overlaps: it is there when the user can pay, marked before anybody credits the payment or the gateway
stops notifying, and a marked row has been credited or somebody is at it. With `CreditedOnce` it gives
`CreditedExactlyOnce`. For the ledger the invariant says that it lags the balance by what
goroutines still have to record. Of that sum, too, only two facts are used, that it is 0 for the empty set
and that a member adds its own amount (`Adds`). `Explained` says that some function with these two
relates ledger and balance, and each step carries the function along.

`StagesProofs` proves typing, `OneStagePerSlug`, `DeletedStaysDeleted` and `QuietStagesAreTrue` for any slugs,
handlers, either store and any faults. `Fits` says of a job at each of its places which row and copy it
has. Without overlap whoever is at work is alone (`Alone`), so that the slug it found free still is
(`Free`) and the row is as it left it (`Held`); that is `OneStagePerSlug` on the memory store. `RowsGone` and
`JobGone` say that nothing of a deleted stage is ready and no status query holds a copy that
says otherwise: hence nothing but late news brings it back. `TrueInv` says, without trouble, that a row that
is half-way is so for the job that works on it, any other is as the cluster is, and a cache that shows
something else is about to be thrown away.

`ReleasesProofs` proves typing, `SuccessIsEarned`, `RunsAreBoundWell`, `OnlyOldNewsReopens` and `StageAgrees` for
any stages, goroutines, runs and faults. `BaseInv` holds whatever overlaps: what a row says, or a copy that will
become one, GitHub has reported of the row's run or a rollback has done. That alone gives
`SuccessIsEarned` and that runs stay on their stage. `LoneInv` needs that no two jobs overlapped and no lookup failed: a copy that
will be written is still like its row (`Held`), a run looked up in vain still has no row (`Free`), and so no
run has two. `OnlyOldNewsReopens` compares the copy about to be written with its row through
`Held`. `StageInv` is for `StageAgrees`: a stage shows an outcome only if some run of it ended so
(`EndedSo`), and if one of its releases failed it shows that, or another's success, or somebody is about to report
it (`Reports`). The newest release that waits for a run is the maximum of a set of numbers, which exists by
well-founded induction (`MaxIn`).

`BootstrapProofs` proves typing, `PullRequestsAreWhole`, `WorkflowFindsItsFiles` and `WaitingCanBeMatched`
for any requests, goroutines, seconds and faults; that the repository's name gives a service a name that is not
empty is the one thing assumed of it (`PlaceAssumption`), and what `inferBootstrapSettings` sees to. First the
files of a request are described (`FilesOfAsk`): three or four, none of them empty, on different paths, and the
workflow names the manifests beside it. `JobsInv` says what a request has done by each of its calls: until its
pull request, its branch is as it was made but for the files it has written so far (`WrittenOn`).
That is kept since no two requests write to one branch (`AloneInv`), GitHub refusing a name that is taken, and gives
`PullRequestsAreWhole`. A merge takes from a branch only what it changed, which is never the
absence of a file; so the base branch keeps all files that a branch was made from (`ForksInv`), and a workflow
that arrives finds its manifests among the files that arrive with it or among those. The three facts
of `WaitingCanBeMatched` are each established by one call and lost by none (`Grows`).

Only model-checked are the liveness properties, which need ENABLED and are out of the prover's reach: `WorkSettles`,
`GraceFollowsMoney`, `PaidIsCredited`, `UnpaidIsDeleted`, `BrokeIsSuspended`, `BackfillGivesAStage` and
`DeletedStagesLeaveURLs`.

## Not modelled

- Registration, login, tokens and encryption: sequential checks around bcrypt, JWT and AES.
- Notifications: Telegram linking and alerts, de-duplicated in memory; nothing depends on them.
- Metrics, logs and tariffs: queries and arithmetic; metering enters as charges in `Payments` and as
  spending in `DeployBudget`. That `available` subtracts charges the balance has already lost
  needs the composition of the two, which is not written.
- Text: manifests, workflows, dashboards, messages, names and URLs, as far as no property tells them
  apart. That the URL shown for a project (`<project>.<domain>`) and the host of the generated ingress
  (`<service>.<project>.<domain>`) differ is visible in the code and not in a model.
- Two projects of one repository, among which the webhook takes the first it lists.
- `RotateProjectKubeconfig`, the kubeconfig and token columns.
- `reconcileProjectGrafana`, `reconcileProjectPublicAccess`, `EnsureProjectGrafana`,
  `EnsureProjectPublicIngress`, the cost and release caches: nothing calls or fills them.
- Stages and releases of a deleted project: deletion leaves their rows as they are.

## Plan

What could come next: the composition of `Payments` with `DeployBudget` through the balance.
