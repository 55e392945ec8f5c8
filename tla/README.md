# TLA+ models of the Django DRF base template

The service is a multitenant REST API (`apps/`, `config/`) with Celery workers
and a script that turns a copy of the template into a project. This directory
models the parts whose correctness depends on order: threads interleaving on one
database, context left over between requests, connections that die unnoticed,
redelivered messages, interrupted commands and scripts, counters and caches each
process has for itself. TLC checks the models on small
instances; TLAPS proves their safety properties for instances of every size.

Paths below are relative to the repository root.

## 1. Inventory

| Component | State | Operations | Hard behaviour | Correct means |
|---|---|---|---|---|
| Middlewares and context (`config/middleware/`, `config/context.py`) | three ContextVars per thread | accept, reject or skip tenant resolution; store the request id | a thread's context survives its requests; only some paths set it | a request runs, reads, writes and logs as its own tenant |
| Example app (`apps/example/`) | table `example_item` | create (resolve, validate, insert), read, ping | three statements, no transaction; tenants change between them | items go to, and come from, the request's tenant |
| Tenants (`apps/tenants/`) | table `tenants_tenant` | save, delete (admin) | rename, slug reuse, deactivation during requests | slugs unique, no item without tenant, deactivation takes effect |
| Admin site | none of its own | validate a form, then execute it | two operators at once; a row deleted between validation and save | the same, whatever operators do |
| Accounts (`apps/accounts/`) | users, groups | `HasAnyRole`, `bootstrap_roles`, `/me` | roles change during requests; non-atomic role bootstrap | only roles allowed by a view pass |
| Celery task (`apps/example/tasks.py`, `config/celery.py`, settings) | queue, unacknowledged messages | deliver, run, retry, acknowledge | lost processes, nodes and broker connections, time limits, failed retries | no event vanishes, every event ends, duplicates are bounded |
| Health and connections (`config/urls.py`, database settings, `deploy/k8s/deployment-web.yaml`) | one persistent connection per worker, kubelet counter | probe, serve, age, check, replace | outages between and during requests; probes on stale connections | outages between requests are invisible to clients, lasting ones stop traffic, recovery restores it |
| Bootstrap (`scripts/bootstrap.sh`, workflows) | the file tree, `.env`, `.initialized` | replace, rename, create, patch, stamp, clean | interruption anywhere, repetition with other answers | initialized means patched; a run can be repeated until then; only interruptions mix answers |
| Logging (`config/logging.py`) | none | add context, redact | context at the time of the call | records name their own request and tenant |
| Metrics (`config/metrics.py`) | a registry per process, Prometheus' samples | count, expose, permit | several processes, replaced processes, requests answered outside the middleware | a registry counts each request once; what may be inferred from samples |
| Throttling (REST framework settings, `config/settings/base.py:171`) | a client's history per process and scope | look up, store | read and write back between threads, histories lost with processes and full caches | a client gets its rate and hardly more, a refusal ends |
| Migrations and `bootstrap_roles` (`*/migrations/`, `apps/accounts/management/`) | schema, `django_migrations`, seed, groups | create, seed, fill and constrain, record, roll back; create and grant roles | interrupted and repeated commands, operators and two releases at work beside them | required means filled; repeating the commands completes them |
| Settings and production guards (`config/settings/`) | none at run time | refuse to start, reject or redirect a request | combinations of variables, also with the platform's probes | an accepted pod serves |
| Exception envelope, OpenTelemetry, Sentry, OpenAPI, JWT views | none | format, export | none | wording and library code |

How they interact: a request passes `RequestIDMiddleware`, `TenantMiddleware`
and the view on one thread (`config/settings/base.py:81-94`); the middlewares
hand the tenant to the service, the manager and the log processor through the
ContextVars, not through arguments. Requests, admin edits and direct callers of
the service meet only in the database. Throttles run between the permission and
the view, over a cache of the process; the metrics middleware is inside the
tenant middleware, so it does not see what that one rejects. The schema commands
meet requests and operators in the database. Items and tasks share the item table;
nothing in the repository publishes `process_item_event` yet. The readiness view
and the requests of a worker share its database connection, and the probe passes
the same middlewares as a client. Bootstrap and the CI
workflows share the literal `__PROJECT_SLUG__`.

The hazards, each at its line and with the properties that cover it, are listed
in `PROJECT.json`.

## 2. Modules

| Module | Models |
|---|---|
| `TenantCatalog` | abstract service: a caller holds a capability for one live tenant and spends it on at most one write |
| `TenantRequests` | middlewares, context, views, service, manager, admin edits, logs; refines `TenantCatalog` |
| `TenantRequestsProofs` | the theorems about `TenantRequests` |
| `ItemEvents` | delivery and execution of `process_item_event` |
| `Readiness` | production guards, readiness probe, persistent connections, kubelet |
| `Throttling` | the rate limits of one client over all processes |
| `Metrics` | registries, the metrics endpoint, what Prometheus reads |
| `Schema` | migrations and `bootstrap_roles` over the life of a database |
| `Bootstrap` | `scripts/bootstrap.sh`, interruptions, template detection |
| `SchemaProofs`, `BootstrapProofs`, `ReadinessProofs`, `ItemEventsProofs`, `MetricsProofs`, `ThrottlingProofs` | the theorems about the module each is named for |
| `SumProofs` | lemmas about the sums in `ItemEvents`, `Metrics` and `ThrottlingProofs` |
| `MCTenantRequests`, `MCReadiness`, `MCBootstrap`, `MCThrottling`, `MCMetrics` | the small instances TLC checks |

### TenantRequests

`slugOf`, `active` and `owner` are the two tables; `ctx[w]` the ContextVars of
thread `w`; `req[w]` what the thread is executing (view, own request id and
tenant, the key the service picked, the admin form); `pc[w]` its place; `log` the
record the last step emitted. Each database statement is one action, so anything
may happen between two of them:

| Action | Code |
|---|---|
| `Receive` | `RequestIDMiddleware.__call__`, with the warning logged before the new id is stored |
| `SkipTenantValidation`, `RejectTenant`, `AcceptTenant`, `DatabaseFails` | the paths of `TenantMiddleware.__call__` |
| `Dispatch` | authentication, `HasAnyRole`, throttling and body validation, in that order |
| `PickTenant`, `CleanItem`, `SaveItem` | the three statements of `create_item`; an insert may commit although its answer is lost |
| `GetItem` | `selectors.get_item` through the scoped manager (join on the slug) |
| `AdminClean`, `AdminSave`, `AdminShows` | a form validated, then executed; `Model.save` inserts a row that is gone |
| `CallService` | a caller of the service that sets only `tenant_id_var`, as the tests do |
| `Respond` | back up the chain; Django logs errors; the context stays as it is |
| `Restart` | gunicorn replaces a worker |

`Users` is a constant: one record per outcome of authentication and of the role
check. Throttled or not, valid or not are inputs. Names, descriptions, pagination
and the wording of answers are left out. A primary key is fresh when no row has
it and no thread holds it: UUIDs do not collide.

### ItemEvents

`ready` and `orphans` count the copies of each message in the queue and with lost
nodes or connections; `task[p]` is what pool process `p` runs; `processed` and
`outcome` record how executions ended. The task's three outcomes, `autoretry_for`,
`acks_late`, reject-on-loss and both time limits are actions. The task catches a
`ValueError` only, so an argument that is not a string (`Mistyped`) raises and is
retried. A retry is published before the old message is acknowledged, as
`Task.retry` does; its countdown is a delay. `ConnectionLost` is a broker
connection that breaks under an execution, at any place up to the acknowledgement:
the broker restores the message, the execution goes on, and what it acknowledges
in the end (`reserved` is false) has no effect. The broker's visibility timeout
exceeds the hard time limit, so no other messages than those of lost nodes and
connections are restored. `interruptions` counts lost processes, nodes and
connections and soft time limits, once for each execution they hit.

### Readiness

A connection is `none`, `live` or `dead` (its server side is gone, the process
has not noticed), with Django's `errors_occurred`, its age and
`health_check_done`. `CloseOld` is `close_if_unusable_or_obsolete` at the start
and the end of a request; `OpenCursor` does the health check; `EnsureConnection`
and `PingRedis` are the readiness view, which opens no cursor. `Count` is the
kubelet's: `failureThreshold` failures in a row take the pod out, one success
brings it back. `disturbed` and `spent` are history variables of the properties.

`settings` is the pod's environment. `Refuses` is the guards of
`config/settings/prod.py`: a worker that refuses does not start. That is a guard
of `Start` and not a property; what matters is what follows for the pods that the
guards accept (`AcceptedPodsBecomeReady`). `Admits` is what
`ALLOWED_HOSTS` and `SECURE_SSL_REDIRECT` make of a probe, which names the pod's
address as its host and comes over HTTP; `TurnAway` is the 400 or 301 it gets.

### Throttling

`cache[p][s]` is the history process `p` keeps of the client in scope `s`, as
ages in ticks. `Lookup` reads it and decides, `Store` writes it back, and both
happen once per throttle in `DEFAULT_THROTTLE_CLASSES`; a refused request asks
the remaining throttles too. `Restart` is gunicorn's, `Cull` the cache's, when it
is full of other clients. An entry is lost when one of these forgets it or when
two threads of a process write back what both read; `blind` counts down the
window after such a loss, `allowed` remembers what was let pass. Who the client is
(token or address) does not change.

### Metrics

`registry[p]` is the counter of process `p`, by view label: the view's name, or
the path when nothing was resolved. `Receive` is the way to the middleware, where
any of those outside it may answer first, whatever the request is for: the
security redirect, CORS, static files, the tenant. `Handle` and `Scrape` are the
view; `Count` the middleware on the way back, after an answer or an exception
(the code counts both, although Django turns nearly every exception of a view into
an answer before it gets there). `MaxRequests` is the most a process accepts:
gunicorn's `max_requests` with its jitter, and what the other threads have open
by then.
`Scrape` also hands the sample to Prometheus, which takes a smaller value for a
restart from zero. Methods and statuses split a counter without changing what it
means and are summed up.

### Schema

`done` and `recorded` differ while a migration has committed and Django has not
recorded it: statements the schema editor defers to the end of the transaction
make it record afterwards. A migration itself is one step, because PostgreSQL
runs it in a transaction and locks the tables. `migrate` and `bootstrap` are the
two commands; `Kill` ends either between two of its steps and `StartMigrate`,
`StartBootstrap` run them again. `RollBack` is `migrate example 0001`, whose data
part does nothing. `EditTenants` and `InsertItem` are operators and the two
releases. Permissions exist once a migrate command has ended (`PostMigrate`), and
`bootstrap_roles` sets whatever permissions it finds.

### Bootstrap

A file is the placeholders it holds, each raw or replaced by the answers of one
run. `PatchFile` is one `sed -i`; `NextPlaceholder` the next call of
`replace_in_files`; then the postman files, `.env`, the key, the sentinel and the
cleanup, in the script's order. `Crash` interrupts at any point, `CopyInterrupted`
within the copy of `.env`, whose empty result later runs keep. `Run` starts
over, with any answers, unless `AlreadyInitialized`; `RestoreScript` is the
README's advice. Prompts,
dependency installation and hooks change nothing the properties speak about.

## 3. Runs

Passing runs:

| Run | Instance | Question |
|---|---|---|
| `tenants` | 2 workers, 2 tenants, 2 slugs, 1 item, 1 request id | do context, tables, logs, reads and writes stay tenant-correct under every interleaving, and do the threads implement `TenantCatalog`? |
| `jobs` | a worker and a direct caller, 2 request ids | does the invariant of the proofs hold beside a direct caller, does deactivation take effect, is `TenantCatalog` implemented then, too? |
| `items` | 2 processes, 1 event, 2 retries, 2 interruptions | can an event be lost, processed again without an interruption, or never end? |
| `readiness` | 2 workers, threshold 2, 9 environments | which outages do clients see, does the probe follow outage and recovery? |
| `bootstrap` | 5 files, 3 answers, 2 interruptions | is an initialized repository patched, can a run always be repeated until it is, and how many answers can get mixed? |
| `throttling` | 2 threads in 1 process or in 2, rates 1 and 2, window of 2 ticks | how far can a client exceed its rate, and does a refusal end? |
| `metrics` | 2 threads in 1 process or in 2, 2 clients, 1 unresolved path, 4 requests, 2 per process | what do the counters of a process, and those Prometheus infers, mean? |
| `schema` | 2 tenants, 2 items, 2 kills | do items have tenants and roles permissions, whatever interrupts the commands and happens beside them? |

Why the bounds are enough: the tenant properties relate one request to one
interfering actor and to at most two tenants competing for one slug, so two
threads, two tenants and two slugs (one of them the default) produce every
conflict, and one item both the empty and the occupied table. Two request ids
matter only for stale ids and are in `jobs`. Workers, items and tenants are
symmetric in `tenants`, which has safety properties only; `jobs` has liveness and
no symmetry. Two processes are needed for a redelivery beside a retry, and two
interruptions for one duplicate more than one loss explains; two retries reach a
first, a middle and a last attempt (5 in the code). Two workers make a probe and
a request on different connections; threshold 2 separates one failure from being
out (3 in the code). The five files are the kinds the script treats differently:
searched by the workflow, the workflow, deleted, copied, copy; two interruptions
and three answers reach a tree with values of three runs, the most they allow. The
nine environments are the ConfigMap, three whose probes pass and one for each
guard. The throttles need
the narrower and the wider scope at different rates, a window of more than one
tick so that entries of two ages meet, and two threads that either share a
process or do not. A process that takes two requests is replaced within the four
of `metrics`, so counters go back between two scrapes. Two items and two tenants
give a migration that finds an item with and one without a tenant and a slug
handed over; two kills interrupt a command and its repetition.
`MaxRetries`, `MaxInterruptions`, `FailureThreshold`, `MaxCrashes`, `MaxTotal`
and `MaxKills` are the only bounds on counters (`MaxRequests` is gunicorn's). `bootstrap` does not check deadlock because the script ends.

Runs that show a disagreement, one property each (`findings` in `PROJECT.json`
has the quotations):

| Run | What the code does |
|---|---|
| `log_tenant` | records of rejected requests carry the tenant of the thread's previous request |
| `detect_initialized` | the literal CI searches for is replaced too, so initialized projects are taken for templates |
| `secret_key` | an `&` in the generated key puts the placeholder back |
| `probes` | a pod with the environment of the manifests answers its own probes with 400 (or 301, were its address allowed), so it never becomes ready |

Three more facts the models show without a run of their own. On a thread that has
served a request, `create_item` prefers the key left in the context to the slug its
caller has set, and writes for the other tenant (`TenantsForCreate`). Only the tests
call the service on such threads (`tests/example/test_services.py:36`), so no
property claims the slug is followed, and `ImplementsCatalog` is about direct
callers on threads of their own. `ReadIsolation` has an exception: reads filter by
the slug, so a slug handed to another tenant during a request lets that request read
the other tenant's item (`README.md:226` speaks of a foreign key; writes use it).
The readiness probe answers 200 on a persistent connection without asking the
database, until the connection ages (`OutageStopsTraffic`).

What the passing runs show beside their properties. A client's limit is its
rate times the number of processes; losses of histories add to it, and only for
one window (`AllowedWithinRate`). With several processes a scrape reads another
registry each time, and Prometheus takes the smaller value for a restart, so it
may infer more requests than there were; `OneProcessIsNotOvercounted` therefore
speaks of one process. An interrupted run of the bootstrap script that is repeated
with other answers leaves both in the tree, but a completed one is final: restored,
the script finds the sentinel, or no placeholders, and applies nothing
(`MixesNeedInterruptions`; `README.md:44` advises to restore it). A migration killed between its commit and its record stays
stuck (`MigratedUnlessStuck`): repeating it finds the table or column in place.

Each property of a passing run has a mutant: a plausible bug, defined beside the
definition it replaces and marked `mutant`, that makes TLC report that property.

## 4. Fairness

- `TenantRequests`: weak fairness of every thread's step. Statements return, fail
  or are ended by gunicorn's timeout. No request has to arrive, no worker has to
  be restarted.
- `ItemEvents`: weak fairness of every process and of the visibility timeout.
  Nothing has to be published, lost or interrupted.
- `Readiness`: weak fairness of a worker in a request (connect and socket
  timeouts bound it) and of time; strong fairness of starting a probe, because a
  worker is idle again and again but not all the time and the kubelet probes every
  period. Nothing has to fail, recover or be replaced.
- `Throttling`: weak fairness of each thread's step and of time. Nobody has to
  call, no process has to be replaced. `RefusalsEnd` assumes a client that asks
  again and again.
- `Schema`: a command that runs goes on, and the operator runs both again and
  again: `README.md:60` and `:82` list them as steps of a set-up,
  and every release with a migration needs the first.
  Interruptions are finite (`MaxKills`); nobody has to insert or edit anything.
- `Metrics` has safety properties only.
- `Bootstrap`: the script goes on unless interrupted, and its user runs it again
  while the repository is not initialized. Interruptions are finite (`MaxCrashes`).

## 5. Proofs

Every safety invariant and every action property a passing run checks is proved
for all values of the constants that satisfy the named assumptions, and so is the
refinement:

| Module | Theorem | States |
|---|---|---|
| `TenantRequestsProofs` | `Invariance` | `InductiveInvariant` |
| | `TypeCorrect`, `ContextIsCoherent`, `TablesAreConsistent`, `SlugsStayUnique`, `LogsAreAttributed` | its parts `TypeOK`, `ContextCoherent`, `ReferentialIntegrity`, `SlugsUnique`, `LogsAttributed` |
| | `WritesAreIsolated`, `ReadsAreIsolated` | the action properties `WritesGoToResolvedTenant`, `ReadIsolation` |
| | `RequestsImplementCatalog` | `ImplementsCatalog`, if no thread both serves requests and calls the service directly |
| `SchemaProofs` | `Invariance`, `TypeCorrect`, `ItemsAlwaysHaveTenants`, `CompletedRolesStayGranted` | `IInv`, `TypeOK`, `ItemsHaveTenants`, `CompletedRolesAreGranted` |
| `BootstrapProofs` | `Invariance`, `TypeCorrect`, `InitializedMeansPatched`, `InterruptedRunsCanBeRepeated` | `IInv`, `TypeOK`, `SentinelMeansPatched`, `ResumableUntilStamped` |
| | `CompletedRunsAreFinal` | `MixesNeedInterruptions` |
| | `KeysStay` | the action property `KeysAreKept` |
| `ReadinessProofs` | `Invariance`, `TypeCorrect`, `OutagesAreHidden` | `IInv`, `TypeOK`, `OutagesBetweenRequestsAreHidden` |
| | `OneStatementIsLost` | the action property `LosesOneStatement` |
| `ItemEventsProofs` | `Invariance`, `TypeCorrect`, `EventsAreNotLost`, `DuplicatesAreInterruptions` | `IInv`, `TypeOK`, `NoEventLost`, `DuplicatesNeedInterruptions` |
| `MetricsProofs` | `Invariance`, `TypeCorrect`, `RequestsAreCountedOnce`, `SeriesStayBounded`, `OneProcessCountsAreSound` | `IInv`, `TypeOK`, `RegistryCountsEachRequestOnce`, `SeriesAreBounded`, `OneProcessIsNotOvercounted` |
| `ThrottlingProofs` | `Invariance`, `TypeCorrect`, `RateIsKept` | `IInv`, `TypeOK`, `AllowedWithinRate` |

`SumProofs` holds the lemmas on sums that the last three rest on. In each module
there are lemmas about the operators the proofs need again and again, then one
lemma per action or group of actions, with a step per conjunct the action can
disturb; `Invariance` combines them.

### Assumptions

They are the `ASSUME`s of the modelled modules, which TLC evaluates on every run.
`None` and the other markers differ from the values beside them. Beyond that:

- `TenantRequests`: the default slug is a slug; users have roles of the three
  known names.
- `Bootstrap`: `.env`, its example and the workflow that is deleted are different
  files; `.env` would hold what its example holds.
- `Readiness`: the failure threshold is at least 1; an environment is a record of
  the variables the guards read.
- `ItemEvents`, `Metrics`, `Throttling`: finitely many processes, or threads;
  `Metrics` also finitely many paths, since gunicorn limits the length of a request
  line. The tables and files of the other modules may be infinite sets.
- `Metrics`, `Throttling`: a deployment assigns each thread to a process; rates,
  window and requests per process are positive.

### Request path

None of the safety invariants is inductive alone. `ContextCoherent` needs to know
what a thread holds at each place (`WellFormed`): a view that is past the tenant
middleware has a tenant, a direct call has a saved slug. `ReferentialIntegrity`
needs that the item a thread is about to insert is new and that no other thread
writes it (`ReservedItems`). `InductiveInvariant` is their conjunction with
`TypeOK`. The action properties follow from the invariant and
the one action that can end a request with an item. The refinement maps a thread
between resolution and its last statement to a holder of the tenant's capability
(`Handle`): resolution is `Open`, the insert is `Write`, every other end is
`Close`. It needs the extra invariant that the context of a direct caller's
thread holds no primary key, and that is where the hypothesis of
`RequestsImplementCatalog` is used: a thread that does both calls the service with
a stale key. A
deactivated or renamed tenant keeps its capability until the request ends, which
`TenantCatalog` allows and `DeactivationTakesEffect` bounds.

### Schema and bootstrap

`ItemsHaveTenants` is preserved by the migration that requires the column only
because every item had an existing tenant, or none, before (`ForeignKey`); the
order of the plan comes from `MigrateCoherent`, which says that a migration about
to be recorded has its dependencies recorded. `CompletedRolesAreGranted` needs
`RolesCoherent`: a run of `bootstrap_roles` that found permissions has granted
all roles before its place. A later run that finds none would empty the roles
again, but permissions do not go away.

`SentinelMeansPatched` needs what the script has patched at each of its places:
`PatchedSoFar` counts the placeholders that are gone from all files, which a
restored script or other answers do not undo, and `PlacesCoherent` collects this
for the later places. That `.env` has its contents when its key is patched comes
from `ExampleHasContents`: the file it is copied from is never empty; an
interrupted copy leaves a key that is not there, which no run patches.
`MixesNeedInterruptions` needs the answers a run has still to apply beside those
in the tree (`Claimed`), and how many there may be (`Allowance`): as many as
interruptions before a run begins, one more for a run under way or completed.

### Readiness

A worker with a dead connection is in a request that the outage disturbed, or has
yet to meet the health check (`WorkerOK`): at `execute` a connection that health
checks have passed is dead only if it died during the request. For
`LosesOneStatement` a worker that has lost a statement since the last outage
holds a dead connection only until the end of that request, which closes it
because `errors_occurred` is set.

### Events, metrics and throttles

`NoEventLost` counts an execution that is only about to be acknowledged as
holding its event. It is not inductive for that reason; `Kept` counts the
executions that will still record an outcome or publish a retry.
Its executions are those whose message the broker still holds for them: one that
has lost its connection goes on, but its event is with the broker again.
`DuplicatesNeedInterruptions` is inductive beside `Kept`: an action moves an event
between queue, process and unacknowledged set, and only a lost process, node or
connection or a soft time limit adds one.

`RegistryCountsEachRequestOnce` is inductive as it stands, with the types and the
fact that a disabled middleware counts nothing. `OneProcessIsNotOvercounted` is
not: it bounds what Prometheus has inferred, and a scrape adds the difference
between sample and registry. `NextScrapeIsCovered` says that this difference has
been handled, too; replacing the process resets the registry and keeps it.

`AllowedWithinRate` needs to know that what was allowed can be found again. An
entry that is younger than the last loss (`Clear`) is in the history of one of
the processes, or with a thread that is about to write it back; `Remembered`
counts the young entries on both sides, process by process. `OverwritesAreOld`
says that two threads of a process that both hold a history to write have it from
before the window that `blind` counts down. With `blind = 0` every entry in the
window is remembered, and no history exceeds its rate.

Sums over processes, labels and messages are folds, so recursive functions over
sets, and the library's induction theorems cannot be used on them here.
`SumProofs` does without: the pairs `<<x, i>>` with `i \in 1 .. f[x]` are as many
as the sum, which gives a function that satisfies the recursion, and a smallest
set on which two such functions differ shows that there is only one. What changes
a sum, what leaves it alone and what bounds it follow from counting the pairs.
REST framework's loop that drops expired entries from the end of a history is
`RecentLength`, the greatest length whose last entry is young enough;
`GreatestExists` shows that there is one.

### Model-checked only

The liveness properties, `DeactivationTakesEffect`, `EveryEventEnds`,
`OutageStopsTraffic`, `TrafficReturns`, `InitializedInTheEnd`,
`MigratedUnlessStuck`, `RolesInTheEnd` and `RefusalsEnd`: their proofs need
`ENABLED` of fair actions, which the prover does not handle. The four runs that
show a disagreement refute their properties, so there is nothing to prove.

## 6. Not modelled

- Edits of users and their groups during a request: `Users` is a constant of
  `TenantRequests`. The permission check and the write are separate actions, so
  what could happen between them is what happens with `is_active`.
- `/me`, `ping`, `/healthz` and list pages: they read or answer, and change
  nothing.
- Redaction in `config/logging.py` is a stateless recursive function on values;
  nothing it does depends on order. The exception envelope and log rendering only
  format.
- OpenTelemetry and Sentry are configured once and never read. JWT issuing and
  OpenAPI are library views without state.
- Durations: the latency histogram, and liveness and startup probes, which need
  the queue before the workers and real timeouts.
- Docker, compose and the remaining manifests declare things for a platform; so
  do the cookie and header settings. The development and test settings are not
  what runs.
- Django's own migrations, which come before those of the repository, are one
  step of `Schema`.

## 7. Plan

Done, in this order: `TenantCatalog`, `TenantRequests` and its proofs (the core
promise of the template), `ItemEvents`, `Readiness`, `Bootstrap`; then
`Throttling`, `Metrics`, `Schema` and the production settings in `Readiness`; then
the proofs of all their safety invariants and action properties.

Left:

1. `AllowedWithinRate` speaks of windows without a loss. How many requests a loss
   can add could be counted and proved the same way.
2. `Metrics`: a lemma about `InternalMetricsPermission`, that nobody outside the
   configured hosts and tokens reads the metrics.
3. `Readiness` and `ItemEvents`: abstract specifications of what the load balancer
   and a publisher rely on, with refinements like that of `TenantCatalog`.
