# A verification of the sync coordinator

The repository is a small web application that mirrors directories of a remote
host with rsync. Web replicas accept requests, worker processes run rsync, and a
Redis hash of reservations keeps the two from working on the same files at the
same time. This directory holds TLA+ models of that system, the TLC runs that
check them and the TLAPS proofs about them.

## The system

| part | source | state | operations |
|---|---|---|---|
| reservation store | `sync_store.go` | one Redis hash `id -> record` (path, state, stop, expires, progress) | Lua scripts reserve, update (claim, launch_failed, heartbeat, progress, finish), list, stop |
| sync worker | `sync_worker.go`, `startSync` in `main.go` | a claimed record, a cancellable context, a monitor goroutine, an rsync process | claim, report progress every second, run rsync, final progress, finish, notify |
| web handlers | `main.go`, `removeWithRedis` | one request each; a removal also has a heartbeat goroutine | StartSync, CancelSync, ListSyncs, Remove, ListDirs |
| launcher | `worker_launcher.go` | none; what it reads of its environment and its pod | detached process, or a Kubernetes Job made from the running pod |
| process control | `startSync`, `terminateProcessGroupOnCancel` | waiter and watcher goroutines, a process group | SIGTERM, five seconds, SIGKILL |
| progress parser | `rsyncProgressWriter`, `parseRsyncProgressToken` | a partial token | split at white space, parse |
| directory listings | `buildLocalTree`, `buildRemoteTree` | two maps per request, an ssh process and its pipe | merge local and remote trees, compute `synced` |
| notifications | `sync_notifications.go` | an MQTT client that works in the background | Notify (connect, publish), Close |
| authentication | `auth.go` | none in the server; signed cookies in browsers | login, callback, logout, middleware |
| server start and shutdown | `main.go`, `auth.go` (`oidcEnabled`) | settings, the signal's context, requests under way | check the settings, serve or work, drain |
| dashboard | `frontend/app.go` | lists, requests under way, errors, a poll timer, a filter, rendered rows | refresh, sync, cancel, remove, filter, render |
| static frontend | `frontend_fs.go` | immutable files of one build, HTTP caches in browsers | serve, ETag, revalidate |
| frontend build | `frontend/generate.go`, `frontend/cmd/wasm` | none | generate go-app's site with its service worker, compile, copy |

Components meet in few places. Handlers and workers call the store, and only the
store: a stop request travels from CancelSync through the record's `stop` flag
to the reply of the worker's next progress report. The launcher starts a worker
with the reservation's id and the web process's own command line. The web process
and its workers do not share a lifetime. Authentication, static files and the
dashboard meet the rest only at the HTTP interface.

What is hard here: the record is the only thing that ties a directory to a live
process, and it ends by time; calls fail before or after their effect; a worker
has two goroutines and a process that cancel, wait for and outlive one another;
launching, claiming and cleaning up race; logins of several tabs share cookies;
replicas run different builds during a rollout; and a page is drawn some time
after the state it shows.

What makes each part correct:

* store: no two live reservations overlap; no dead one comes back; stop is durable;
* worker: rsync runs only under a live lease, at most once per reservation, ends
  when asked to, and what is reported and recorded is what happened;
* web: a failed launch releases the directory; a removal excludes syncs while it
  deletes; every request is answered, and one that was refused leaves nothing that
  anybody works for;
* process control: a cancelled rsync is gone within the grace, whatever its
  descendants do, and `startSync` leaves nothing behind;
* listings: `synced` says what was on the disk; a broken listing is never used;
* dashboard: it shows the newest state it was told and never stops asking; a click
  acts on the directory its row names;
* progress parser: fields are those of complete words, however output is cut;
* launcher: one worker at most, with the server's settings, and success only for
  one that was started;
* notifications: bounded, never replayed, silent only about what the broker has;
* authentication: a session belongs to whoever signed in, in the login that browser
  began, and ends with its token; logins are not confused, and only acts of its own
  browser end one;
* server: a zero exit status means that all was answered;
* static frontend: no HTTP fetch yields a file of a build that was replaced before it
  began;
* system: rsync and removals never work on overlapping directories; nothing is
  held for ever by the dead.

## Modules

| module | models | state | in the code |
|---|---|---|---|
| `PathLease` | the abstract lease service: acquire without overlap, release | `held` | (promise of the store) |
| `SyncStore` | the Lua scripts; extends nothing of the project, refines `PathLease` | `records` | the Redis hash; `ttl` is `expires - now` |
| `RedisClient` | how a call of the store can end for its caller | `faults` | go-redis, external; `update` |
| `SyncWorker` | the worker's two goroutines and rsync, with deadlines | `main`, `monitor`, `cancelled`, `rsync`, `outcome`, ... | `runSyncWorkerWithNotifications`, `startSync` |
| `WebServer` | StartSync, Remove and its heartbeat, CancelSync, ListSyncs | `request`, `heartbeat`, ... | the handlers, `removeWithRedis` |
| `SyncSystem` | all of them together, launching, time, fairness, the system's properties | `vars` | |
| `RsyncRun` | abstract: a run of rsync as a worker sees it; a cancelled one has `KillGrace` left | `phase`, `stop`, `left`, `exit`, `result` | (promise of `startSync`) |
| `RsyncProcess` | refines `RsyncRun`; waiter, watcher and calling goroutine of `startSync`, the process group, the timer | `group`, `waiter`, `watcher`, `caller`, `ctx`, ... | `startSync` after `cmd.Start`, `terminateProcessGroupOnCancel`, `signalProcessGroup` |
| `RemoteTree` | one listing: walk, ssh and its pipe, the marking loop, beside a disk that changes | `phase`, `disk`, `localPathMap`, `pipe`, `pathMap`, `linked`, `notSynced`, ... | `ListDirs`, `buildLocalTree`, `buildRemoteTree`, `remoteRequestContext` |
| `Dashboard` | the client's requests, polls, clicks and error list | `work`, `syncs`, `dirs`, `syncRefreshInFlight`, ... | `frontend/app.go` without its rendering |
| `DashboardView` | tables, filter, late rendering, element and handler reuse, clicks | `dirs`, `dirFilter`, `rows`, `message`, `clicked` | `Render` and what it calls |
| `ProgressWriter` | the byte loop and the parser, with rsync's words as the reference | `words`, `word`, `col`, `writing`, `pending`, `discarding`, `sync` | `rsyncProgressWriter`, `parseRsyncProgressToken` |
| `WorkerLaunch` | abstract: one worker at most, success only after it was started | `started`, `outcome` | (promise of the launcher) |
| `Launcher` | argument list, local process, pod and Job, the API server; refines `WorkerLaunch` | `pc`, `post`, `job`, `jobs`, `procs` | `worker_launcher.go` |
| `Notifier` | Notify and Close beside the MQTT client and the broker | `call`, `due`, `client`, `outbox`, `broker`, `result` | `sync_notifications.go`; the client is external |
| `OIDCAuth` | browsers, tabs, provider, requests and responses on their way | `cookies`, `session`, `net`, `used`, ... | `auth.go` |
| `ServerMain` | settings, modes, requests, signal, graceful shutdown | `main`, `auth`, `quit`, `handler`, ... | `main`, `testConfig`, `oidcEnabled`, `remoteRequestContext` |
| `StaticFiles` | replicas of different builds and a browser's HTTP cache | `build`, `cache`, `wire`, `fetched` | `frontendFS`, the two middlewares for files |
| `Parts` | `ProgressWriter`, `Launcher`, `Notifier`, `ServerMain`, `StaticFiles` and `DashboardView` side by side | `part` and theirs | |
| `SyncStoreProofs`, `RsyncProcessProofs` | the theorems about the store and about `startSync` | | |
| `SyncSystemProofs`, `SyncStoryProofs` | the theorems about `SyncSystem`: leases and exclusion; announcements and early stops | | |
| `OIDCAuthProofs`, `RemoteTreeProofs`, `DashboardProofs` | the theorems about the module of that name | | |
| `PartsProofs` | the theorems about `Parts` and the six modules in it | | |
| `MC*` | the instances TLC checks | | |

Correspondence. `main[w]` is the point the worker's main goroutine has reached:
`claim`, `check` and `recheck` (the two looks at `ctx.Err()` around the start
notification), `start` (in `startSync` before `cmd.Start`), `wait` (rsync
started), `cancel`, `join` (`<-done`), `final`, `finish`, `notify`, `exit`.
`monitor[w]` is `select`, `update` (inside the Redis call) or the value it sent on
`done`. `request[i]` is the point a handler has reached, or its answer: `launched`
and `removed` are 200, `conflict` is 409, the errors are 500. `events[i]` is the
sequence of notifications published for `i`.

`SyncWorker` sees rsync as one process that ends at the latest `KillGrace` after
the cancellation. `RsyncRun` says so as a specification of its own: the goroutines
and signals of `RsyncProcess` implement it (`IsRsyncRun`), and each worker of
`SyncSystem` has and uses no other rsync (`RunsRsync`). In the mapping `left` is what
`grace[w]` says there and `KillGrace - since` here; a killed worker's run is `lost`,
and nothing more is promised of it. `ProgressWriter` keeps its place in rsync's
output as a word and a column; a `Write` may begin and end between any two bytes. In
`RemoteTree` a line is scanned, a directory visited and a map entry marked in one
step each, in any order the code or the remote side may produce; `ever` and
`always` record what was on the disk at some time, and all the time, of the walk.
In `Dashboard` the server's lists are the version of its state they were read
from; `work` is the bag of requests under way, each waiting or with its result,
and one step answers, loses or dispatches one. Responses are told apart as far as
`decodeResponse` and `handleError` do. Handlers are dispatched after
`OnDismount`, too: the code guards against it and the model does not rely on the
framework dropping them.

`SyncSystem` launches with one step that starts a process or fails, with or
without having started one. `WorkerLaunch` is that promise as a specification of
its own, and `Launcher`, with its requests to the API server that go on after the
caller has given up, is checked to implement it. A command line is a sequence of
flags (with or without a value of their own), words and the terminator `--`;
`Setting` reads it as the flag library does.

In `OIDCAuth` the random tokens of a login are its number and a signed cookie is
a record nobody can make up. A request carries the cookies its browser had when
it was sent, a response sets them when it arrives: that is where tabs interleave.
A session's browser is protected twice, by the state and by the nonce, so that
dropping either check alone breaks no property about whose session it is; the
mutants for those properties are elsewhere. The provider may fail at every
exchange. Tabs of a browser share one set of login cookies, and they do disturb each
other: the response to a later login takes the cookies over, and that of a finished
login or of a logout, which any tab may ask for with or without a session, clears
those of a login under way, whose callback then fails. `EndedByOwnActs` says that
nothing else does: no callback that fails, is repeated or comes late, and nothing
another browser does. The branch for an ID token without expiry is kept as it is in
the code. Requests under way are a set, so logouts of one browser that are under way
together are one.

In `DashboardView` the framework keeps an element where the new one is of the
same kind and its handler where function and scope are the same; `EventScope` is
why a row that moved does not keep another's handler. A first listing that failed
counts as loaded, as in the code. In `StaticFiles` modification times are left
out: every file has an ETag, and HTTP then ignores the time. `Fetch` is an HTTP fetch,
which `no-cache` makes the browser's HTTP cache ask a server about. It may be a page's
or that of go-app's service worker, which `GenerateStaticWebsite` puts into the site
(`generate.go:47`; go-app's code is not in the repository). That worker answers
pages from a store of its own first and fetches to fill it, so the first page after
a rollout may still be that of the replaced build. The properties say what fetches yield, not what such a page shows.

In `ServerMain` the settings are checked as the code does: `oidcEnabled` looks neither
at the client secret nor at the allowed e-mails, so a server with only those set runs
without authentication, and `testConfig` takes a secret of spaces for one. No document
says otherwise and no property is about it.

Paths are sequences of segments, so that the script's string comparison with a
trailing slash is the prefix relation. Error texts, speed, size and remaining
time are left out: they are written wherever state or progress is.

**Time.** A record holds `ttl`, the seconds left; `Second` makes one pass for the
store and everyone with a deadline. The monitor's select and Redis call, the
heartbeat's, and the grace of a cancelled rsync have deadlines and act before
them (`WorkerOnTime`, `WebSecond`); everything else takes any time, including
none. Two consequences are assumptions about the world: Redis and the workers
count seconds at the same rate, and a worker process is not suspended for the
length of a lease. After `CallStartSync` the model lets no second pass between
cancellation and `cmd.Start`: a `MkdirAll` that hangs is outside it.

**Failures.** A call may be refused by the script, not reach Redis
(`unreachable`), or run and lose its reply (`lost`; the client library may repeat
it, and the repeated script is refused: same result). A call whose context is
cancelled may fail at any time. A launch may fail with or without having started
a process; a process may be started twice, get SIGTERM, or be killed, leaving its
rsync behind; a web process may die within a request. `MaxFaults` bounds how many
of the kinds in `FaultKind` one behaviour contains.

## Runs

| run | instance | what it shows |
|---|---|---|
| `store` | 3 ids, 4 paths (root, `a`, `a/b`, `b`), any client calling anything | `ExclusiveLeases`, `NeverRevived`, `StopDurable`, refinement of `PathLease` |
| `lifecycle` | 1 id, 2 processes, any 2 faults of all kinds | rsync only under its lease and only once; events in order, and `complete` only for what was done and saved, a launch that alone fails leaves no reservation behind (`EventsAreTrue`); only legal use of the store; each worker's rsync is a run as `RsyncRun` has it (`RunsRsync`); the reservation of a request that was answered with a conflict or an error, there because a reply was lost, is nobody's and runs out (`RefusedLapses`) |
| `exclusion` | 2 requests (sync or removal) on `a` and `a/b`, 1 failing call | `DirectoryExclusive`, `RemovalLeased` |
| `liveness` | 1 id, 2 processes, any 1 fault of all kinds, fairness | stops take effect, workers and removals end, leases of the dead and of lost replies are given back |
| `process` | rsync with 2 descendants, grace 2 | `NothingLeftBehind`, `IsRsyncRun` (refinement of `RsyncRun`), `CancelReturns` |
| `tree` | 5 directories, 8 listings, 2 changes of the disk, a pipe of one line | `SyncedIsTrue`, `OnlyComplete`, `PipeIsRead`, `CancelAnswers` |
| `dashboard` | 2 server states, 1 click, 1 request that fails on the way or at the server, fairness | `ShownIsTrue` (syncs never go back, "Loading" is true), `DashboardSettles` (syncs and directories follow, a dismounted one rests) |
| `login` | 2 logins in 2 browsers, 2 users of whom 1 is allowed, 2 seconds, a provider that may fail | `SessionIsRightful`, `LoginsNotConfused` |
| `parts` | see below | one property or two for each of six parts |
| `healthy_sync` | no fault | **violation**: a successful sync recorded as failed |
| `removal_heartbeat` | one unreachable call | **violation**: a removal outlives its lease |
| `stray_kill` | rsync with 1 descendant, grace 2 | **violation**: SIGKILL is sent although `Wait` has completed |

`Parts` puts side by side the six modules that share no variable with one
another: in a behaviour one of them is at work and the others stay in an initial
state. No step of one is visible to another, so that a property of one holds of
all interleavings if it holds of these.

| module | instance in `parts` | property |
|---|---|---|
| `ProgressWriter` | up to 3 of 11 words, well-formed, malformed and too long, cut in every way | `FieldsFollowWords` |
| `Launcher` | every command line of up to 4 arguments, 3 pods, local or cluster, every failure | `WorkerIsApplication` (not downgraded, configured as the server, the right container), `KeepsPromise` (refinement of `WorkerLaunch`) |
| `Notifier` | 3 events, timeout 2, 2 broken connections | `BestEffort` (bounded, sent is received, no replay) |
| `ServerMain` | every configuration, 2 requests, grace 2, a signal at any moment | `ShutdownIsGraceful` |
| `StaticFiles` | 3 builds, 2 replicas, 2 rollouts, 3 fetches | `ETagsTellContents` |
| `DashboardView` | lists of up to 2 directories, 4 filters, 3 changes | `PageIsTrue` |

A property with several parts is the conjunction of named definitions, each with
its own comment; `PROJECT.json` has mutants for the parts.

Bounds. Three ids are enough for a third reservation to meet two live ones and an
expired one to be pruned by a refusal. `LeaseTTL` is the least value the timing
assumption `LeaseOutlastsWorker` admits for the chosen `Poll`, `CallTimeout` and
`KillGrace`: every larger one leaves more slack, so the tightest is the one to
check. In `exclusion` the call timeout and grace are 0 to keep two full workers
small; `lifecycle` has all of them at 1. Two processes are a worker and its
duplicate, or one for each request. Symmetry is used for ids and workers, only in
runs without liveness properties. Two descendants can end in either order around
rsync; one failed request, together with those `OnDismount` cancels, fills an
error list of one (`MaxErrors` is 4 in the code) and overflows it; a pipe of one
line is full most of the time; two changes can delete a directory the walk is
about to enter and create another behind it.

Three words are one that is cut or discarded between two others; `MaxToken` is 6
and there are words of 6 and more bytes, some of which end like a shorter one
(the code's limit is `maxScannerTokenSize`). Four arguments hold a flag with a
separate value, the terminator and a word behind it; a separate value is
never itself spelled like a flag or `--` and never missing (`ArgsAssumption`):
`syncWorkerArgs` looks at the arguments one by one and does not know which of them
are values; a missing one is an error to the flag library. No setting
is a boolean, whose flag would need no value. Two timeouts of
2 seconds are enough for every order of answer and expiry. `KillTTL < GraceTTL < ListTTL` as in the code. Two rollouts go to
another build and back. Three changes fill a list, change it and filter it before
one rendering. Two logins are what two tabs, or two browsers, need to be
confused; `MaxInFlight` bounds requests under way; in two seconds cookies of a
login (2 s in the instance) vanish one by one and a token (1 s) expires before the
session's own limit (2 s). In `dashboard` a request fails in transport or with
status 500, which push different messages; one that cannot be decoded pushes a third
in the same way, and one refused for want of a login pushes none.

Fairness. Goroutines that can run do (weak fairness of each goroutine's step);
SIGKILL ends rsync; time passes. Go's select picks at random among ready cases, so
the cancelled context is not passed over for ever (strong fairness of that branch
for monitor and heartbeat). Nothing is assumed about rsync ending by itself, users
or faults. In `RsyncProcess` goroutines do not let a second pass when they can
act; in `RemoteTree` only the handler and the kill after the context's end are
fair, ssh may hang; in `Dashboard` the timer fires, requests end (the client's
60 s) and dispatched handlers run, where the requests for the syncs, which never
stop, do not starve the others. The other modules state safety only.

### The three violations

`healthy_sync`: when rsync has exited, main calls `cancel()` and waits for the
monitor. If the monitor's ticker has just fired, its report runs under a context
derived from the one cancelled, fails with *context canceled*, and is sent on
`done` as an error: the sync is recorded as `failed` with "worker lost Redis
connection" and announced as `error` although all went well.

`removal_heartbeat`: the heartbeat goroutine of a removal returns at its first
failed call. `RemoveAll` goes on; the reservation expires; another sync may be
granted the directory being deleted. The handler does answer with an error in the
end, so an answer of 200 still means that the lease held (`RemovalLeased`).

`stray_kill`: if `Wait` completes when the five seconds are over, the last select
of `terminateProcessGroupOnCancel` may take the timer's case although
`processDone` is closed, and signal a group number that no longer is rsync's. The
comment there speaks of the case that `Wait` has not completed.

Two weaknesses of the dashboard contradict no document and so have no run: two
directory listings may overlap and be shown in the wrong order, and the refresh
after a cancel can use up the change of the count that a poll would have answered
with a new listing. `DirsFollowPoll`, a part of `DashboardSettles`, states what does hold.

## Proofs

`SyncStoreProofs` proves for all ids, paths and lease times:

* `StoreTypeCorrect`, `StoreExclusive`, `StoreNeverRevives`, `StoreKeepsStops`,
  `StoreImplementsLeases`.

They use `StoreAssumption` only. `ExclusiveLeases` is inductive together with the
type invariant, because of two lemmas about steps: only a granted reservation
makes a lease (`OnlyGrantsLease`: no other script makes a record live, moves it
or drops its stop flag), and a grant meets no live overlapping record
(`GrantIsExclusive`). The refinement maps a grant to `Acquire` and every other
script to `Release` of the leases it ends.

`RsyncProcessProofs` proves for every process group and grace period:

* `ProcessTypeCorrect`, `ProcessNothingLeft`, `ProcessSignalledIsCanceled`,
  `ProcessGoneInGrace`, `ProcessIsRsyncRun`.

They use `ProcessAssumption`. The inductive invariant adds two things to the
type. `Handover`: `Wait` returns for an empty group only, the caller has passed
the waiter's result and then the watcher's end, signals imply a cancelled context.
`Clock`: no second has passed since the cancellation while the watcher is not at
its timer, there `since + timer <= KillGrace`, and when the watcher is done the
group is empty. Without the last part `NothingLeftBehind` would not follow, and
without the sum `GoneInGrace` would not be inductive. For the refinement of
`RsyncRun` one fact more is needed, that the exit of rsync is known when the rest of
its group ends (`ExitKnown`). The last process to go is the abstract `Exits`, whoever
it is; a second of a cancelled group is one the watcher spends at its timer, and so
one the run has left. `GoneInGrace` and `SignalledIsCanceled` say in this module's
own variables what the refinement promises the worker.

`SyncSystemProofs` proves for any ids, paths, workers, faults and times that
satisfy `LeaseOutlastsWorker` (1 + 5 + 5 + 5 < 120 s in the code) and
`WebAssumption`:

* `SystemTypeCorrect`, `SystemImplementsStore`, `TransferIsLeased`,
  `TransferIsSole`, `RemovalIsLeased`, `RefusedRunsOut`, `DirectoriesExclusive`,
  `SystemKeepsLeases`, `SystemRunsRsync`.

The inductive invariant `SystemInv` says which points of a worker's goroutines go
together (`Control`), that deadlines are no later than they were set
(`Deadlines`), what a reservation was made for (`Provenance`), that a claim is
made once (`ClaimIsFinal`, `ClaimIsSole`), and the margins: while the monitor
selects, `due + CallTimeout + KillGrace` is less than what is left of the lease,
while it calls, `due + KillGrace`, and once the transfer is cancelled, `grace`
(`LeaseOutlasts`; `BeatOutlasts` for removals). `LeaseCoversTransfer` alone is not
inductive: it says nothing of how long the lease will last. Steps of others
matter to a worker only through its record, which they leave calm: the same
state and path, and no less time. `SystemImplementsStore` makes the store's theorems
theorems about the system, and exclusion follows from the leases' exclusion and
what covers what. `SystemKeepsLeases` states the first of these. `RefusedRunsOut` needs
that workers exist only for requests that were launched (`JobLaunched`) and heartbeats
only for removals at work (`Provenance`). `SystemRunsRsync` goes
worker by worker: besides `SystemInv` it needs that the grace is whole until rsync runs
and that a living worker waits as long as it does (`RunControl`). With
`ProcessIsRsyncRun` it closes the gap between the two models of `startSync`: what
`SyncWorker` takes for granted is what the goroutines and signals do.

`SyncStoryProofs` adds `StoryInv`, which names the worker that stands behind every
announcement, and proves `AnnouncedIsTrue`; and `EarlyStopPreventsRsync`
(`StoppedBeforeClaim`): a stop that finds the reservation queued is still in the
record when a worker claims it, and the claim's reply cancels that worker before
it starts rsync. That is the safety half of `StopTakesEffect`; that a running
transfer ends is liveness and model-checked.

`OIDCAuthProofs` proves `AuthTypeCorrect`, `SessionsRightful` and `LoginsUnconfused` for
any browsers, tabs, users, logins and lifetimes. `AuthInv` follows a login along
its messages: who asked for it, who signed in, which cookies a callback carries,
that a session on its way is in no browser yet. What is known of a login only
grows, so that messages and cookies a step does not touch stay what they were.
`AuthAssumption` says besides types that the values for "nobody" and "access
denied" are no browser and no user.

`RemoteTreeProofs` proves `TreeTypeCorrect`, `PipeAlwaysRead`, `ListingsWhole` and
`ListingsTrue` for any finite or infinite set of paths closed under `Dir`, any
listings in the order `find` prints them, any pipe and any changes of the disk.
`TreeInv` says which lines of the listing are where (`InOrder`), that the scanner's
items are those it has taken (`Scanned`), that the walk has visited or still has
to visit what is below a visited directory and was there all the time (`Walked`),
and what is marked and why (`Marked`). That a finished walk has seen all that was
always there needs an induction over the depth of a path; it is done with the
library's theorem that a set of numbers has a least member, of a shortest path
that was missed.

`DashboardProofs` proves `DashboardTypeCorrect` and `ShownNeverGoesBack` for any
versions, clicks and failures. `DashboardInv` says that the bag of requests holds one
refresh of the syncs at most, only while `syncRefreshInFlight`, and none that would
bring something older than what is shown.

`PartsProofs` proves of the six parts, each from its own assumption:

* `GracefulShutdown`: a listing under way has been ending for as long as Shutdown
  has been waiting (`left + GraceTTL <= KillTTL + grace`), so that with
  `KillTTL < GraceTTL` it ends first;
* `TagsTellContents`: an entry of the HTTP cache has the tag of its content (`Tagged`),
  and a fetch carries every build that ran since it began (`FetchInv`);
* `NotificationsBestEffort`: only events that were published are on their way
  (`OnlyPublished`), and each wait began with the whole timeout (`InTime`);
* `LauncherKeepsPromise`, the refinement of `WorkerLaunch`: what was asked of the API
  server is there once or not at all (`Requested`), and a local worker is one that
  was reported (`Reported`);
* `WorkersRunTheApplication`: for every command line the worker reads what the server
  reads. `KeptFrom` and `SettingFrom` go through the arguments position by position,
  and so does the proof, downwards from the end: from each position on, what is kept is
  read as what was there (`KeptIsRead`), a dropped flag with its value included, and
  nothing a worker flag's removal brings together is read differently
  (`SettingInFront`);
* `FieldsOfWords`: between two bytes `pending` is what has come of a word, or empty
  when it is too long, `discarding` says which, and every field is that of the last
  complete word for it (`WriterInv`). That a word is parsed as it is meant is
  assumed of the words (`WriterAssumption`, evaluated by TLC for each of them);
* `PageTellsTruth` and `ViewTypeCorrect`: the scope of every handler on the page is its
  row's path, and the page has rows or a message;
* `PartsAreThemselves`: a behaviour of `Parts` is one of each part's own
  specification; `PartsTypeCorrect` and `PartsCorrect` carry their types and invariants
  over to it.

A recursive function is a CHOOSE to the prover, and says nothing until one is known to
exist. The library's theorem for that takes an operator as a parameter, so the module
proves it for its loops: functions that agree with the loop on a part of the
positions exist for one position more (`CountingUp` and `CountingDown`, inductions made
with the theorem that a set of numbers has a least member), and `LoopResult` gives the
loop's equation, which `KeptUnfolds`, `SettingUnfolds` and `MatchingIsList` use.

Assumptions are on constants only and hold of the program's: numbers are numbers
(`MaxVersion` is not 0, as the server's first state is 1), sequences are sequences
(paths, listings, events, a pod's containers, words), values for "none" are not values
(`NoContent`, `Nobody`, `Ignored`), a flag has a value (`ArgsAssumption`), a word is
known for what the parser takes it for (`WriterAssumption`), lists hold directories
(`ViewAssumption`), and ending a listing takes no longer than letting it run
(`KillTTL <= ListTTL`). TLC evaluates all of them.

Every invariant, action property and refinement of the runs is stated by a theorem.
Only model-checked is liveness: `StopTakesEffect` but for its safety half,
`NobodyWaitsForever`, `OrphanReleased`, `CancelReturns`, `CancelAnswers`,
`DashboardSettles`. Fairness and ENABLED are out of the prover's reach. The parser is
evaluated by TLC on the words of the instance; what `strconv` makes of digits is
not proved.

## Plan

Steps of the liveness arguments that are safety could be stated as action properties
of the same invariants: what a fair goroutine's step leads to. `Launcher` implements
`WorkerLaunch`; that `SyncSystem`'s launch steps use no more than it, which its
actions show at a glance, could be stated in the way `RunsRsync` is.

## Not modelled

The frontend build (`frontend/generate.go`, `frontend/cmd/wasm`) generates go-app's
site, compiles the client, copies files and stops at the first error; it keeps no
state. The service worker in that site and its store, see `StaticFiles` above. Of the
dashboard,
number formats, styles and icons. The signatures of cookies and tokens, which are
assumed to hold; MQTT and HTTP wire formats; numbers with decimals in rsync's
output; rsync, ssh and Kubernetes themselves beyond the answers they give. A
request that is refused for its path changes nothing and is no step. Redis
Cluster and persistence: an evicted or lost hash breaks coordination and the
repository's README says so.
