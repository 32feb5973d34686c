# Formal models of the turbo template

TLA+ models of the parts of this monorepo that keep state, run concurrently or
can fail half-way, checked with TLC on small instances. All the safety
properties are also proved with TLAPS, for every value of the constants.

    tlc -workers 2 -config JobQueue_safety.cfg MCJobQueue     # one run
    tlapm JobQueueProofs.tla                                  # its proofs

`PROJECT.json` lists the components, the runs, the source lines behind every
definition, the hazards, the findings and the theorems.

## 1. The system

### Inventory

| Component | State it keeps | Operations | What is hard |
| --- | --- | --- | --- |
| Job queue, `packages/infrastructure/src/queue.ts` | Map of job records, Map of idempotency keys, id counter | `enqueue`, `claimNext`, `ack`, `nack`, `sizeByStatus` | several workers, late and repeated reports, retries that return with their old position, time compared as text |
| Outbox relay, `packages/infrastructure/src/outbox.ts` | Map of rows, id counter | `enqueue`, `claimBatch`, `markPublished`, `markFailed`, `pendingCount` | overlapping drains, a crash between publish and mark, entries that never succeed |
| API process, `apps/api/src/main.ts` | the HTTP server, the flag `shuttingDown`, timers, the database pool, the exporter | boot, signals, `shutdown` | two signals at any await, a deadline against hanging steps |
| API request pipeline, `apps/api`, `packages/platform` | two AsyncLocalStorage stores, sessions, metrics, the access log | middleware, guard, handlers, exception filter, probes | requests interleave at every await; a failure leaves the chain early |
| Notes module and pagination, `apps/api/src/notes` | list of notes | list, get, create, update, delete | offset pages over a list others change |
| Fetch client, `packages/clients` | none | `createFetchClient` | decoding of empty and foreign bodies |
| Environment loaders, `packages/env` | none (pure, at start-up) | `pickEnv`, key guard, production requirements, five loaders, the check of the examples | defaults and transforms that run before a requirement is checked; what the check accepts is not what an app is started with |
| Template scripts, `scripts/*.mjs` | the working tree: app directories, env examples, `package.json`, `project.config.json`, README | prune surfaces, rename, switch auth mode, bootstrap | several files rewritten one by one; interrupted and repeated runs |
| MFE host and remote, `apps/mfe-host`, `apps/mfe-dashboard`, `packages/mfe` | load state, script elements, registered tags, the custom element | load manifest, import script, mount, unmount, relay | aborts, remounts, an element used again |
| Web account pages, `apps/web/src/app/{me,sign-in,sign-up}` | session, profile, error, pending | the loading effect, both forms, sign-out, navigation | answers that arrive after the session or the page changed |
| Other ports of `packages/infrastructure` | one Map or list each | cache, storage, audit, notification, policy, events, tenant, health | little; the policy evaluator has rules worth a reference definition |
| Authentication | sessions, in Better Auth | configuration only | third-party |
| Database package, jobs, desktop, mobile, UI, tooling | — | — | declarations, presentation, configuration |

### How the parts meet

`main.ts` mounts, in this order, the request id, the tenant and the access log
middleware, then Better Auth, then Nest with its guards and handlers; every
failure ends in `AppErrorFilter`. The contexts of `packages/platform` travel
with the promise chain of a request (AsyncLocalStorage). On SIGINT or SIGTERM
the same file closes the server, the Nest application, the database pool of
`packages/db` and the exporter of `packages/infrastructure`, in that order.
Domain code writes jobs and outbox rows through the ports of
`packages/infrastructure`; workers and drains, which the repository describes
in its port comments and recipes and leaves to the adopter, poll them.

### What makes each part correct

* Job queue: a job is started at most `maxAttempts` times; one worker at a
  time; a key names one job for ever; nothing starts before the millisecond it
  is scheduled for, or out of order; an outcome is final; every job is settled.
* Outbox: nothing is marked before the bus has it; the number of duplicates is
  bounded by what overlapped, crashed or lost its acknowledgement; every
  acceptable row gets published.
* Shutdown: exit status 0 means that no connected client was cut off; the pool
  outlives the requests somebody waits for and is ended once; only the deadline
  cuts a request; a shutdown ends.
* Pipeline: contexts never leak between requests; an error names its request;
  the guard holds; log and metrics are exact; every request gets one answer.
* Scripts: an interrupted script can be completed by running it again; the
  configuration never claims more than the tree holds to.
* Notes and fetch client: what the API tells a client is true and stays true;
  paging degrades by no more than was written meanwhile.
* Environment: an API in production uses no fallback of development; what the
  check of the examples accepts also boots.
* MFE host: a remote that is reported ready is; the slot has one root; each
  event is relayed once; a replaced run shows no failure; loading ends.
* Account pages: a profile or an error never belongs to another load or to an
  earlier attempt; neither a form nor the page waits for ever.

## 2. The modules

| Module | Models |
| --- | --- |
| `JobQueue` | the memory job queue, its producers and its workers |
| `JobLifecycle` | the abstract promise: the life of a job without clocks, keys or order |
| `OutboxRelay` | the memory outbox and the drains of the recipe |
| `GracefulShutdown` | one API process from boot to exit |
| `RequestPipeline` | concurrent requests from middleware to flush |
| `NotesService` | the notes store, its listing and its operations |
| `NotesClients` | the service with writers and a paging reader over the fetch client |
| `TemplateScripts` | the adopter's scripts and the working tree they rewrite |
| `EnvLoader` | the loaders, the check of the env examples, the boot of an app |
| `MfeHost` | the host's effects, the entry scripts and the remote's element |
| `AccountPages` | the account page and the two forms in one tab |
| `JobQueueProofs`, `OutboxRelayProofs`, `RequestPipelineProofs`, `NotesClientsProofs`, `TemplateScriptsProofs`, `MfeHostProofs`, `AccountPagesProofs` | the theorems about the module of that name |
| `ApiProcessProofs` | the theorems about `GracefulShutdown` and `EnvLoader`: how the API ends and what it starts with |
| `MCJobQueue`, `MCNotesClients`, `MCTemplateScripts`, `MCEnvLoader`, `MCMfeHost` | instances for TLC: schedule values, symmetry, surfaces, modes, examples, manifests |

Definitions whose name ends in `Deviation` are bugs that code could plausibly
have: an off-by-one, a dropped test, a missing reset. The specifications never
use them. Each stands before the definition it is a wrong version of, and
`mutants` in `PROJECT.json` says which property refutes it. A property that no
such bug could break would say nothing about the code.

### JobQueue

`records`, `seenIdempotencyKeys` and `nextId` are the three variables of
`createMemoryJobQueue`. `Enqueue`, `ClaimNext`, `Ack` and `Nack` are its
functions, each one action since each is synchronous. A worker holds a claim in
`held` until it has reported it; `Reported` lets it report up to `MaxReports`
times, because the port identifies a report by the job id alone and nothing in
the queue rejects the second one. `Abandon` is a worker that dies or hangs; the
queue has no visibility timeout, so its job stays `running`. `Tick` and
`StepBack` are the wall clock, in ticks of which `Millisecond` make one
millisecond. `Reached` is the string comparison `scheduledFor <=
now.toISOString()`. `job.ts` admits any precision, so a schedule is an instant
together with what its last written digit counts (`ScheduleForms`), while the
clock always prints milliseconds (`Printed`). Written with fewer digits it sorts
late (`"...:01Z"` is not before `"...:01.500Z"`), written with more it compares
as reached in the whole millisecond its instant falls in (`"...:01.0009Z"` is
before `"...:01.000Z"`). `claims`, `nacks`, `abandoned`, `misreported` and
`answered` are history: they are written and never read by an action, except for
the bound on abandons.

`JobLifecycle` has only a phase, an owner set and a number of starts left for
each job. `JobQueue!ImplementsLifecycle` maps the status to the phase, `held`
to the owners, and `maxAttempts - attempt` (plus one while pending, as the
attempt number is set before the start) to the starts left.

### OutboxRelay

`rows` and `nextId` are the relay. The drain loop is that of
`docs/recipes/enable-outbox-relay.md`: claim a batch, publish entry by entry in
order, report each failure at once, mark all successes at the end. `batch` and
`succeeded` are its local variables. `claimBatch` takes no lock and leaves no
mark, so drains overlap freely. `poison` is an entry the bus never accepts.
`PublishFails` is a publish the bus refused, `AcceptedButFails` one it accepted
and whose acknowledgement was lost: the recipe's `catch` cannot tell them apart
and reports both with `markFailed`. `lostAcks` counts the second kind.

### GracefulShutdown

`stage[s]` is what the run of `shutdown()` started by signal `s` awaits: `none`
or one of the four awaits; there is a run per signal, and only the flag
`shuttingDown` keeps two from interleaving. `handlers` are the `process.once`
listeners that are left: a signal without one has its default disposition and
kills the process (`Killed`), a signal with one runs it (`StartShutdown`,
`Ignored`). `deadline` are the armed `forceExit` timers. They are unref'd, so
they do not keep the process alive: `Drained` is the end Node comes to by
itself, with status 0, when an awaited step never settles and nothing else holds
the event loop. Requests arrive, are answered, refused, or cut by the process's
end. A client may also leave (`ClientLeaves`): its connection is gone and
`httpServer.close` no longer waits for it, but its handler goes on until
`HandlerEnds`. `InFlight` are the connections, `Handled` the handlers.

### RequestPipeline

One action is one synchronous stretch of code; requests interleave at every
await: the resolver, the body parser, the session lookup, the database check,
the flush. `loggerStore` and `tenantStore` are the two AsyncLocalStorage stores
of each request's promise chain. `Arrive` is the request id middleware up to
the resolver's await; `Resolved`/`ResolveFails` the rest of the tenant
middleware with the registration of the access log's `finish` listener;
`BetterAuth` the handler mounted before Nest; `Guard`, `SessionRead`,
`Refused`, `Admitted` the authenticated guard around its await; `Ready` and
`Checked` the readiness probe and the scrape, which await something before they
answer; `Filter` is `AppErrorFilter`; `Flush` fires `finish`, `Drop` is a client
that has left. `Skipped` is the access log's test on the path, by prefix:
`Prefixed` are the two probes, the scrape of `/metrics`, and any other path that
begins like them, `/healthz` for one. The session store, the throttler and the
body parser are outside the repository: the first issues and revokes tokens, the
others may refuse.

### NotesService and NotesClients

`store` is the Map in insertion order, which `Set` keeps as `Map.set` does.
`Precedes` is the comparison of `list`, by `createdAt` and stable, and `Listed`
the sort by it: place k holds the note that k - 1 others precede. `Page` is the
slice, `PlaceOf` the lookup by id. A note has its two timestamps and the set of
fields an update has given; titles and bodies themselves make no difference. The
wall clock may be set back at any time. `NotesClients` extends the service with
the calls: `Call` is `request()` up to its fetch, `HandleCreate`,
`HandleUpdate`, `HandleDelete` and `HandleList` are the controller's handlers,
`NotFound` and `Refuse` its refusals, `Intercept` an intermediary that answers
with a body of its own (`Foreign`, which may well be an error envelope; the call
is then in `intercepted`), `Settle` the rest of `request()` and `Disconnect` a
fetch that rejects. `settle` classifies what the caller gets from a body: data,
an `AppError` with the envelope's code, whoever wrote the envelope, or a failure
of another kind. A request given up on its way that still arrives is, for the
store, the call of one more writer that has given it up itself. The reader
is how a client uses `pageInfo`: it goes on until the page it is on is the last
by the answer it came with. `applied` and the reader's `survivors`, `inserts`
and `removals` are history.

### TemplateScripts

The state is the working tree as far as the scripts read and write it:
`appDirs`, `examples` and `envFiles` (which files exist, and whether an env
file was copied or edited since), `devScripts` and `devMfe` (`package.json`),
`surfaces`, `authMode` and `projectName` (`project.config.json`), `readme` (the
marked sections), `exampleAuth` (the auth lines of the env examples) and
`fileName` (the project name a file carries: a text of the repository, an env
example, or an env file, which gets the name of the example it is copied from).
`Walked` are the files a rename opens: `SkippedTexts` stands for the directories
and files it skips and for the extensions it does not know, and an app's env
file is among them exactly when it is called `.env.local`
(`CalledEnvLocal`). A script reads and computes
first, then writes file after file, and nobody else writes meanwhile: a run is
one action, which either writes everything or, when interrupted, a prefix.
`PruneOrder` and `AuthOrder` are those orders; the removal of directories and
examples goes file by file, so an interruption may leave any part of them.
`Prune` is `select-surfaces.mjs` with `--drop` and `--keep`, `SelectAuth` is
`select-auth-strategy.mjs` and has no step once an env example it reads was
pruned (the script fails before it writes), `Rename` is `rename-template.mjs`,
`Bootstrap` is `bootstrap.mjs` with and without `--force`, and `Edit` is the
adopter. `torn`, `authTorn` and `bootstrap` are history for the properties.

### EnvLoader

A variable has a class of values (`good`, `empty`, `malformed`, a literal), a
source is a function on the variables that are set, and a loader is the
operators `Offenders`, `pickEnv`, `Hydrated` and `requireInProduction`, which
`Accepts` puts in the code's order for each of the five apps. `CheckFile` and
`Report` are `check-examples.ts` over a tree of `.env.example` files, with its
parser. `BootApp` starts an app with the variables of an example and a drift:
the platform sets, changes or forgets some. `Fails` takes the names of
`Object.prototype` (`Inherited`) for apps, as `in` does. `Passed` is what the
app hands its loader, which is not always what the check gave it:
`apps/web/src/env.ts` names three keys. `Database`, `Sessions`, `Signing` and
`corsOrigin` are what `main.ts` and `auth.ts` then make of the hydrated
environment.

### MfeHost

`run` numbers the executions of the host's effect; a run below it has been
cleaned up (`aborted`). `Rerun` is both cleanups and both effects, as
StrictMode and fast refresh cause them. `ManifestArrives` and `ManifestFails`
are the fetch with its schema, `importRemoteEntry` the test for a script
element that is there already, `ScriptLoads` the evaluation of the remote
(`customElements.define` unless the tag is taken, the upgrade of an element
that waits, the ready event) followed by the load event, `ScriptFails` the error
event. `remote` is the state as set, `shown` as committed: `Commit` renders it
and creates, keeps or replaces the custom element, with `connectedCallback` and
`disconnectedCallback`. `Move` takes the element out and puts it back. Each
variant of `remote` names the run that set it, for the properties.

### AccountPages

One tab. `cookie` and `accounts` belong to the browser and the API, and other
tabs change them (`ChangeCookie`); `session` is what `useSession` returned
last, and `signal` that the store owes a refetch. `RunEffect` is the cleanup
and the new run of the account page's effect, `AnswerMe` the answer to its
load, `FinishLoad` the rest of `load()` with the two places where `cancelled`
is tested and the one where it is not. `Submit`, `AnswerForm` and `FinishForm`
are `handleSubmit` of both forms, `handleSignOut` and `FinishSignOut` the
button. `Navigate` shows what `router.push` named; `FollowLink` is a plain
anchor, which loads a new document. `visit` numbers the pages shown: what
belongs to an earlier one no longer has a state to write to.

## 3. The runs

| Run | Question | Bounds |
| --- | --- | --- |
| `JobQueue_safety` | budget, exclusive claims, keys, order, schedule, final outcomes with vanishing workers and repeated reports | 2 workers, 2 jobs, 1 key, 1 or 2 attempts, 2 reports per claim, 1 abandon, 4 clock ticks of half a millisecond, 1 step back, schedules coarser and finer than a millisecond or none |
| `JobQueue_lifecycle` | refinement of `JobLifecycle`, and that every job is settled | as above with one report per claim and without the finer schedule |
| `OutboxRelay_relay` | marks, duplicates, progress | 2 drains, 3 rows, batches of 2, 1 poison row, 1 crash, 1 lost acknowledgement for each row |
| `OutboxRelay_starvation` | *violation*: progress when poison rows fill the batch | 1 drain, 2 rows, batches of 1, 1 poison row |
| `GracefulShutdown_shutdown` | clean exit, order of closing, cuts, termination | 2 signals sent twice each, 3 requests |
| `RequestPipeline_requests` | isolation, error ids, guard, log, answers | 2 requests, 8 routes of which 4 begin with a skipped prefix, 1 client id, 1 tenant or none, 1 session token, a failing resolver |
| `NotesClients_notes` | honest outcomes, no resurrection, no lost edit, paging | 2 writers with 2 calls each, 1 reader, 4 notes, pages of 2, 2 instants, 2 kinds of foreign body |
| `NotesClients_delete` | *violation*: the API's answers can be decoded | the same with 3 notes |
| `TemplateScripts_runs` | commit points, healing by repetition, agreement of modes, provisioning | 4 surfaces, 3 modes, 2 texts of which 1 is skipped, the examples and env files of the surfaces, 3 names, 3 runs, 2 of them interrupted |
| `EnvLoader_environments` | fallbacks in production, and whether checked examples boot | every API and web example over the variables their loaders decide on, pairs of small examples of all apps, 12 platforms |
| `MfeHost_compose` | what ready means, roots, relays, failures of replaced runs, end of loading | 3 runs, 2 entries and tags, 3 manifests of which one does not fit its script, 1 move |
| `AccountPages_tab` | profile and errors are current, forms and page do not wait for ever | 2 accounts of which 1 exists, 3 moves of the user, the focus and other tabs |

Why the bounds suffice: every hazard these properties are about needs at most
two parties and a third thing for them to differ on. Two jobs give every order
of two records, a tie in one millisecond, and a retry that overtakes a younger
job; two attempts give the boundary and one step below it; two reports give a
repeated and a contradictory one. Two drains overlap in every way, and batches
of two over three rows leave a row behind a batch with a poison row in it.
Requests only ever meet through shared state, so two show every leak. One
tenant next to "no tenant" is a pair of different tenants. Four writer calls are
enough for three notes on two pages and a creation, a deletion or an edit
between them (a creation pushes the last note of the first page onto the
second, so the reader sees it twice), and for a note that one client deletes,
another misses and the first edits late. Two ticks to a millisecond, over a
clock of two milliseconds, put an instant inside a millisecond, and a schedule
whose last digit counts two of them past one. For the
scripts, the four surfaces include the two with auth settings, one without env
examples and the two that share `dev:mfe`, and three runs are enough for one
that is interrupted, another that meets what it left, and a third that repeats
it. The examples of the API and the web app take every combination of the
variables their requirements read; the files of a tree only meet in the exit
status, so pairs are enough. Three runs of the host's effect give a replaced
run, its successor, and one that finds what both left. Three moves in a tab are
a submission, a change of the cookie or a navigation meanwhile, and what the
user does next, each with its answers in any order. Every bound is a constant
named in the module and read in a guard. `CHECK_DEADLOCK FALSE` stands where
the bounds, or the process itself, come to an end.

### Fairness

* `JobQueue`: workers poll (`ClaimNext` for some worker), a worker that does
  not vanish reports (`Report(w)`), time passes. Producers owe nothing. The
  clock reaches every schedule, since it steps back only `MaxStepBacks` times.
* `OutboxRelay`: a drain takes its next step (`Drain(d)`). A failure that is
  not permanent passes: an entry that is tried again and again is accepted and
  its acceptance acknowledged, which is strong fairness of publishing it.
* `GracefulShutdown`: an armed timer fires, if the process is still there.
  Neither clients nor the awaited calls are assumed to return, that is the point
  of the deadline.
* `RequestPipeline`: the event loop runs continuations and what a request
  awaits settles. The code sets no timeout on any of its awaits, so this is an
  assumption on the resolver, the session store and the database.
* `MfeHost`: the browser settles every fetch and every script element, with
  success or failure, and React commits a state that was set. Neither `Rerun`
  nor `Move` is owed.
* `AccountPages`: the browser settles every request and runs what awaits it,
  the session store does the refetch it owes, the router shows what was pushed.
  Users and other tabs owe nothing. Each call has fairness of its own, since
  calls are answered in any order.
* `NotesClients`, `TemplateScripts`, `EnvLoader`: none; clients, adopters and
  platforms owe nothing.

### What the violations show

* `OutboxRelay_starvation`: `claimBatch` always returns the oldest unpublished
  rows and `attemptCount` is never read. As many permanently refused entries as
  the limit block all later rows, against ADR 0005's at-least-once.
* `NotesClients_delete`: `request()` awaits `response.json()` whatever the
  status, so the empty body of a 204 rejects with a `SyntaxError`. A deletion
  succeeds and its caller is told it failed; the `AppError` and decoding paths
  are never reached.

### What the passing properties make visible

A property says what holds, so its exceptions say what does not.

* *Queue.* A job reported twice for one claim is exempt from `ExclusiveClaim`
  and `SettledIsFinal`: an `ack` followed by a `nack` reopens a succeeded job.
  `Reached` compares text (`queue.ts:95`), so a schedule written finer than a
  millisecond starts early, by less than one (`InItsMillisecond` in
  `NeverEarly`), and one written with fewer digits than the clock prints is
  skipped until the unit of its last digit is over: a whole second for `:01Z`,
  somewhat longer than ADR 0007's "until the clock catches up". `StartsInOrder`
  speaks of jobs that were not deferred, under a clock that never went back.
* *Outbox.* `DeliveredWithinBounds` allows one delivery for each drain, one more
  for each crash and one more for each acknowledgement of the entry that was
  lost: exactly once only for a single drain that never crashes, on a bus that
  never rejects what it accepted.
* *Shutdown.* `CleanExit` promises an ended pool and flushed spans for the
  `process.exit(0)` of `shutdown()` only. Because of `forceExit.unref()` a step
  that hangs with nothing left on the event loop ends the process with status 0
  before the deadline, with the pool or the exporter left open, although the
  comment at `main.ts:96` promises a forced exit when a step hangs; the force is
  only there while something else keeps the process busy. `PoolOutlivesRequests`
  excepts handlers whose client has left: `httpServer.close` waits for
  connections, so such a handler may find the pool ended under it.
  `CutIsExplained` admits a signal without a listener next to the
  deadline: the listeners are `process.once`, so the same signal a second time
  during the drain kills the process with requests in flight, before the
  deadline that the comment in `main.ts:91-96` names.
* *Pipeline.* `AccessLogExact` exempts requests whose tenant resolver failed:
  the filter answers them, with neither an access line nor metric samples.
  It skips by prefix: an unknown `/healthz` or `/metricsx` gets a 404 without a
  line, while another spelling of a probe that the router accepts gets one.
  Probes are skipped by the access log's middleware and so are in no metric
  either, although the comment on `SKIP_PREFIXES` sends operators to the
  histogram. Probes pass through the tenant resolver like all requests; the
  default one cannot fail, but an adopter's can take readiness down with it.
* *Scripts.* A removal interrupted after `project.config.json` is finished by
  `--drop`, not by `--keep`, which starts from the configured surfaces and finds
  nothing to drop; what is left is the README section, so `CommitPointsLast`
  covers directories, examples and scripts but not `readme`. A second rename
  changes `project.config.json` only, since the replacement looks for the
  template's name. The name half of `CommitPointsLast` is about the files a
  rename opens: `.env.local` copies that bootstrap made before the rename, and
  files the walk skips, keep the template's name under a configuration that says
  renamed. `rewriteEnv` leaves the line of a value that is not given
  alone, so the service URL of a previous mode stays active after switching
  back; `AuthAgrees` therefore compares modes, not URLs.
* *Environment.* `PassedExamplesBoot` speaks of an API without another app's
  public variables on its platform: these make its loader throw. The web app is
  checked with all its keys and started with three, so `AUTH_MODE` and what it
  requires are never tested at boot, and its production requirements name keys
  that have defaults, so they never fail. With `APP_ENV` forgotten the stage is
  `local`, whatever `NODE_ENV` says. `CORS_ORIGINS=","` satisfies the
  requirement and admits no origin. An optional URL set to `""` is refused.
  `check-examples.ts` recognises an app with `in`, so a file named after a
  function of `Object.prototype` that throws nothing (`Inherited`), say
  `constructor.env.example`, passes the check without any loader.
* *Notes and fetch client.* `OutcomeIsHonest` and `ToldStaysTrue` are about
  calls whose answer is the API's. `request()` throws an `AppError` for any JSON
  body with an `error.code` and no `ok`, so a gateway's error document is
  indistinguishable from a refusal by the API, also when the API had already
  applied the call; a caller that takes `AppError` for "not done" is wrong then.
* *MFE host.* `ReadyMeansLoaded` exempts a run that found the script element of
  an earlier one: that script may still be loading, or have failed, and the page
  says REMOTE READY. `ReplacedRunsFailSilently` is about failures: a success of
  a replaced run is shown, and may put an older manifest over a newer one. A
  manifest may declare a tag its script does not register; the slot then keeps
  an element without content. An element that is moved stays empty, since the
  second `attachShadow` throws; `RootsFollowTheSlot` has no root for it.
* *Account pages.* `LiveLoadWins` allows an error next to a profile: an answer
  that is not ok sets the error also for a cancelled load, and neither `me` nor
  `error` is ever cleared while the page is mounted. `signOut()` resolving with
  an error is not looked at: the page goes to the form with the session alive.
  A form that was left with a call under way still navigates when it ends.
  `ProfileOrError` takes an answer that is ok to carry a user, as the API's
  does; with status 200 and no `data` the page would go on saying "Loading…".

## 4. The proofs

Every theorem is proved from the module's own assumption on its constants and
nothing else, for all values of these: any number of workers, jobs, drains,
rows, signals, requests, surfaces, runs, manifests, accounts, and so on. In
each case TLC had checked the invariant on the instance first.

**`JobQueueProofs`.** `TypeCorrect`, then the six properties of
`JobQueue_safety` and the refinement.

* `RetryBudgetHolds`. `RetryBudget` bounds `claims` by `maxAttempts`, and a
  claim increments `claims` without looking at `maxAttempts`. `BudgetInv` adds
  what the step needs. `Accounted(j)` relates the history to the attempt number:
  a pending job has been claimed fewer times than its attempt number, any other
  at most as often; the attempt never exceeds `maxAttempts`; the nacks keep up.
  `IdsInOrder` says that ids above `nextId` are unused and `HeldKnown` that a
  worker only holds jobs that exist.
* `ClaimsAreExclusive` and `NothingStartsEarly`, `OutcomesAreFinal`: the first
  is inductive over `BudgetInv`, the others are steps from it. `ReachedIsDue`
  is the arithmetic behind the second: whatever unit a schedule is written in,
  one that compares as reached is due, or is finer than a millisecond and in the
  millisecond the clock prints (`PrintedFacts`).
* `KeysNameOneJob`: `KeysInv` has the map, the records and the answers agree in
  both directions, so that a key is never handed to a second record.
* `OrderIsKept`: `StampedInOrder` (ids follow stamps unless the clock went
  back) and `UntouchedIsPending` (a job nobody was given is pending) make
  `StartsInOrder` inductive.
* `QueueImplementsLifecycle`, for `MaxReports = 1`: `OneReport` turns
  `ExclusiveClaim` into "one owner exactly while running", `Accounted` gives the
  starts left, and `LifecycleStep` maps each action to one of `JobLifecycle` or
  a stutter.

**`OutboxRelayProofs`.** `DeliveryIsBounded` counts. `Bound(r)` owes every
delivery of an unmarked row to a drain about to mark it or to a crash, and for a
marked row adds the drains that still hold it and the lost acknowledgements;
with `InUse`, `Delivered` and `Disjoint` this is inductive, the steps being
facts about the cardinality of the sets of drains that hold and that mark a row.

**`ApiProcessProofs`**, first about `GracefulShutdown`: `ExitIsClean`,
`PoolIsThere` and `NothingElseCuts`, none of whose properties is inductive.
`ShutdownInv`: nothing of a shutdown has happened until the flag is set, and
connections are accepted exactly until then (`BeforeAndAfter`); all stages but
one are `none`, and past the first await no connection is left, though orphaned
handlers may be (`OneRun`); the
pool is open exactly until that run ends it (`PoolFollowsRun`); requests are cut
by the exit and by nothing before it (`CutAtTheEnd`).

Then about `EnvLoader`, whose specification is `EnvSpec`:

* `ProductionUsesNoFallback`. `BootInv` ties what was started to the loader;
  `ApiHydrates` and `ProductionIsComplete` are lemmas about the loader itself: a
  variable that is set and not empty keeps its value, and an accepted production
  environment has every required one.
* `CheckedExamplesBoot`, for trees of finitely many files and platforms that set
  a mode only to one of its literals (`EnvAssumption`). `CheckInv` says that
  every file before `next` was looked at and that what the loader refused is in
  `failures`, so exit status 0 means that all were accepted. The rest is about
  the loaders: a platform that differs harmlessly gives each field the value it
  had in the check or a good one (`HarmlessFields`), adds no name the guard
  refuses (`HarmlessNames`), also when the app passes on only some of the
  variables (`PassedOn`), and so every requirement that was met stays met
  (`HarmlessIsAccepted`).

**`RequestPipelineProofs`.** `ErrorsNameTheirRequest`, `RequestsAreIsolated`,
`LogIsExact`, `GuardedRouteIsSafe` and `OneAnswer`. `RequestInv(r)` speaks of
one request: answered exactly when a response was written, nothing known before
the tenant is decided, the filter's id that of the header, both stores of the
request's own tenant, the `finish` listener there exactly for what is to be
logged, the guard's user that of the cookie and not revoked when it asked.
`RequestFrame` shows that a step of one request preserves it for the others;
what is left is one request's own step.

**`NotesClientsProofs`.** None of the three properties is inductive.

* `TypeCorrect` with `StoreInv`: the Map is in the order of the ids, which no
  operation changes, so a note is found at one place only. `CreateFacts`,
  `UpdateFacts` and `DeleteFacts` say what the operations do to the ids, the
  fields and the times of creation (`Births`).
* `OutcomesAreHonest` and `PromisesAreKept`: `CallInv` has every answer that was
  not intercepted carry what its call did; `Foreign` may be any set of bodies.
  `StoreKeepsPromises` shows that no operation, of whichever client, takes back
  what an answer or an outcome has said.
* `PagingIsBounded` is about ranks. The rank of a note is the number of notes
  before it in the listing; ranks are distinct and without gaps (`RankOrders`,
  `RanksAreTaken`), `Listed` has at each place the note of that rank
  (`ListedFacts`), and a page holds those between two multiples of `PageSize`
  (`PageFacts`, `PagesSuffice` for the last). The invariant keeps `Books` for
  the place m a traversal stands at: the survivors before m that were not seen
  are at most the removals; the repetitions so far and the notes seen that are
  again at m or after it are, together, at most the inserts; and without inserts
  what was seen precedes all that is to come. A creation moves ranks up by at most
  one and so returns one note at most, a deletion moves them down and lets one
  slip at most (`BooksAfterCreation`, `BooksAfterDeletion`), a page turns the
  books at m into those at m + `PageSize` (`BooksWithPage`). Books are kept both
  with and without an answer that is under way, as it may still be lost.

**`TemplateScriptsProofs`.** `RemovalsCommitLast`, `PartsAgree`,
`SelectionsAgree` and `ProvisioningWorks`. An interrupted run is a prefix of
`PruneOrder` or `AuthOrder`; `StepOrder` says what a prefix of length n has
written, and the invariants are preserved prefix by prefix. For the names: the
files a rename opens only become fewer by a removal, and one that provisioning
adds carries the name of an example the rename opened as well.

**`MfeHostProofs`.** `ReadyIsTrue`, `RootsAreNotLeft`, `EventsAreRelayedOnce`
and `ReplacedRunsAreSilent`. `HostInv`: the only listener is that of the live
run; only the live run fetches; a script element was appended by a run whose
manifest names it and which waits for it while it loads; what is shown as ready
has a manifest; the element is plain until its tag is registered and has a root
exactly while it is mounted.

**`AccountPagesProofs`.** `ProfileIsCurrent` needs that an answer that was not
ok carries no user and that the load not cancelled belongs to the page shown;
`ErrorIsCurrent` that the call under way on the page shown is the last one and
that the form waits for it. The lemmas before them say what appending to and
writing one element of a sequence leave alone.

Only model-checked: liveness (`EveryJobSettles`, `EveryRowPublished`,
`ShutdownTerminates`, `EveryRequestAnswered`, `StopsLoading`, `FormReleases`,
`ProfileOrError`), which is beyond the prover, and the two violations, which are
counterexamples.

## 5. What is not modelled

* Better Auth, PostgreSQL and Drizzle, Next, React and Vite are modelled only
  as the repository's code uses them, and marked external in `PROJECT.json`.
* The remaining ports of `packages/infrastructure` (policy, audit, notification,
  storage, cache, events, tenant, health): each operation is atomic and touches
  one Map or list, nothing in the repository calls them concurrently, and the
  noop adapters have no state.
* The database package (schema and a pool wrapper), the cron tick (one log
  line), the desktop and mobile screens, the UI packages, the agent-rule lint,
  build and CI configuration: no state of their own.
* Of modelled parts: `sizeByStatus`, `pendingCount` and `GET /notes/:id`, which
  only read; the counts of the throttler, CORS beyond the origins it is given;
  `strictForeignKeys = false`, which nothing passes; the `error` event of a
  remote, to which nothing listens; a sign-out pressed twice before the first
  call ends; the wording of logs and messages.
