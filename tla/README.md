# buddy-proxy, formally

buddy-proxy is one Go process that offers an OpenAI-compatible API and serves it
from a pool of CodeBuddy accounts.  It keeps no database: a JSON file holds the
accounts, a few goroutines keep it up to date, and everything else is in memory.
What is hard about it is not any single handler but that dozens of them run at
once over one pool, that each of them may retry along half a dozen paths, and
that the process replaces its own executable.

This directory holds TLA+ models of those parts, TLC configurations that check
them on small instances, and proofs of the most important invariants.

## Inventory

| Component | State it keeps | Operations | Meets others through | What makes it correct |
|---|---|---|---|---|
| Account pool: persistence (`internal/accounts/pool.go`, `atomicwrite`) | `mem`, `loaded`, `dirty`, `wakeCh`, `stopCh`, the file | `Upsert`, `Delete`, `UpdateAccount`, `SetEnabled`, `AssignProxies` (synchronous); `Select`, `MarkResult`, `ApplyQuotaState` (memory only); `Flush`, `flushLoop`, `Close` | `Pool.mu` around memory, `persistMu` around the rename, nothing across the two | acknowledged changes are in the file; memory never goes back; no update is stranded; `Close` returns |
| Account pool: selection (same file) | cooldowns, per-model limits, quota snapshots, `NextIndex` | `Select`, `MarkResult`, `ApplyQuotaState` | called by every request under `Pool.mu` | cooldowns are respected as long as there is a choice, model limits always |
| Pooled requests (`internal/gateway`) | the options a handler passes to itself | `CompleteFromPool`, `ImageFromPool`, `withSearchAccount` | the pool, the pins, billing, upstream | budgets, no replay of delivered content, bound requests stay |
| Session pins, conversation IDs (`internal/sessionpin`) | two tables with TTL and capacity | `Lookup`, `Remember`, `Forget`, `ID` | requests | a session stays with its account while that is usable |
| Self-update (`internal/update`, `cmd`) | `Manager.busy`, the staged file, executable and backup, helper, ready file | `Check`, `Start`, `Cancel`; `Prepare`, `Commit`, `RestartOriginal`, `Abort`; `runHelper`, `launchReady` | main loop, a pipe, three processes, the file system | one service at a time; the original survives; a service comes back |
| OAuth, credentials (`internal/oauth`, `service.go`) | the login session, tokens | `StartOAuth`, `PollOAuth`, `refreshSelected`, `SaveRefreshedToken` | pool, requests | a late renewal never replaces a newer credential (a late login may); a success is announced by a login that was saved |
| Upstream client (`internal/provider`) | one stream per call | `Complete`, `readSSE`, `stallGuard`, searches, images | requests | a truncated stream is an error, terminal frames are believed, nothing delivered is lost |
| OpenAI formats (`internal/openai`) | the state of one streamed response | conversions, the Responses stream | server | events in the documented order, exactly one final event |
| HTTP server (`internal/server`) | one request each, keys and their bindings | routes, SSE writers, the built-in search, `recover` | everything | a key decides where its request goes; the search stays inside; one answer per request |
| Usage journal (`internal/usagejournal`) | ring, totals per day, dirty flag, file | `Record`, `Query`, `Flush`, `flushLoop`, `Close` | requests | memory and file stand for a prefix of what was recorded; views add up; no record is stranded |
| Concurrency tracker (`internal/concurrency`) | counters, buckets, rate-limit events | `Begin` and its end, `RecordRateLimit`, `Snapshot` | every call upstream | what it shows is what happened |
| Watch (`internal/watch`) | ring of samples, problems, what was sent last | `Record`, `Evaluate`, `send` | requests, webhooks, mail | trouble is not its own baseline; alert, reminders, recovery in order |
| Daily check-in (`internal/checkin`, `billing/checkin.go`) | rules file, switch, the last tick | `Run`, `due`, `SetRules`, `SetAuto`, `RunPoolCheckin` | pool, billing | never twice per due minute and account, and once unless the minute is lost at midnight, to a failed read or to a change; a batch that went well left nobody out |
| Quota (`internal/billing`) | snapshots in the pool | `FetchAccountUsage`, `QuotaStateFromUsage` | selection, requests | exhausted accounts rest until their reset |
| Model lists (`internal/models`, `models_flight.go`) | cache, flights, bad hosts | `ListModels` | upstream | one flight per key, lists are young, waiters are released |
| Configuration (`internal/config`, admin routes) | configuration in memory, env file, process environment | the settings handlers, `LoadDotEnv`, `UpsertEnvFile` | restarts and self-updates | what operators were told is what the service runs with |
| Egress and proxies (`internal/egress`, `internal/proxies`) | connections, the list of exits, the exit of each account | `DialContext`, `Add`, `Remove`, balance | every call upstream, the pool | a dialled connection is like a fresh one; lists and balances add up |
| Import, export, admin page, helpers | - | parse, render | - | conversions |

Hard behaviours, at their lines, are the `hazards` of `PROJECT.json`.

How a request travels: the server authenticates it, finds the account its key is
bound to, and calls one of the three pooled handlers.  The handler follows the
session's pin or lets the pool choose, renews the token if need be, calls
upstream, and tells the pool how it went.  On a failure it decides between the
same account, the next account, a new token, or giving up, and calls itself with
changed options.  The pool's memory changes on every such step and is written to
the file later, by the flush loop; credentials and settings are written by the
handler that changes them before it answers.

## Modules

| Module | Models | Checked by | Proved about in |
|---|---|---|---|
| `AccountPool` | persistence of the pool | `MCAccountPool`, three configurations | `AccountPoolProofs` |
| `DurableStore` | what a handler may rely on: no version older than the last one acknowledged, in file or memory | as a property of `StoredPool` | `AccountPoolProofs` |
| `StoredPool` (extends `AccountPool`) | the same steps with the history of puts and promises, and the mapping to `DurableStore` | `MCStoredPool` | `AccountPoolProofs` |
| `AccountSelection` | `Select` and what changes its next answer | as part of `PoolRequest` | `PoolRequestProofs` |
| `PoolRequest` (extends `AccountSelection`) | the three handlers, running concurrently over pool and pins | `MCPoolRequest`, three configurations | `PoolRequestProofs` |
| `OneAnswer` | what a client may rely on: content of one attempt, one end | as a property of `UpstreamStream` | `UpstreamStreamProofs` |
| `UpstreamStream` | one request reading the streams of its calls upstream: `readSSE`, `Complete`, the stall guard, the decision to replay | as part of `ResponsesStream` | `UpstreamStreamProofs` |
| `ResponsesStream` (extends `UpstreamStream`) | the builder of streamed responses and the callbacks that drive it | `MCResponsesStream`, two configurations | `ResponsesStreamProofs` |
| `SelfUpdate` | Manager, main loop, helper, services | `MCService` | `SelfUpdateProofs` |
| `Credentials` | logins, renewal of tokens | `MCService`, `MCOperations` | `ServiceProofs` |
| `ModelLists` | cache, flights and bad hosts of model lists | `MCService` | `ServiceProofs` |
| `SessionTables` | the tables of pins and conversations | `MCOperations` | `ServiceProofs` |
| `UsageJournal` | ring, totals, queries, flush loop and file | `MCService` | `ServiceProofs` |
| `Settings` | what operators change, across restarts and updates | `MCOperations`, two configurations | `OperatorProofs` |
| `Proxies` | the list of exits, and the balance | `MCOperations` | `OperatorProofs` |
| `CheckIn` | the runner, its rules, and the batch | `MCOperations` | `OperatorProofs` |
| `Admission` | key, binding, site and account of a request | `MCOperations` | `TrafficProofs` |
| `SearchRound` | the two completions of the built-in search | `MCOperations` | `TrafficProofs` |
| `Egress` | the SOCKS5 dial with deadline and cancellation | `MCOperations` | `TrafficProofs` |
| `Tracker` | flights, buckets, rate-limit events | `MCOperations` | `TrafficProofs` |
| `Watch` | samples, verdicts, and what is sent | `MCOperations` | `TrafficProofs` |

`ServiceProofs`, `OperatorProofs` and `TrafficProofs` each hold the proofs of several
components, one section per component.

`MCService` and `MCOperations` each hold several components that share no state.
A behaviour runs one of them (`part`), the others stand where they begin: their
interleavings would multiply the states and show nothing.

### AccountPool

`mem`, `loaded`, `dirty` are the fields of `Pool`; `wake` is the token in
`wakeCh`, `stop` says that `stopCh` is closed; `lpc` and `cpc` say where
`flushLoop` and `Close` are; `stage[p]` and `snap[p]` are the progress and the
local snapshot of whoever writes (a handler, the loop, `Close`); `disk` is the
file.  Each critical section of `Pool.mu` is one action, and so is each file
operation outside it.  An account is reduced to the version of its credentials
and settings (`cred`, 0 if it is not there) and of its counters (`hot`).
`atomicwrite.Write` writes a temporary file and renames it, so a write either
happens or does not (`Land`, `WriteFails`).

The variables `claim`, `parked`, `newer`, `overtaken`, `stale` and `raced` are
history: no action's guard depends on them, except that another program does not
add an account whose mutation is still unanswered (`External`).  `claim[id]` is
the last mutation of an account and whether its caller has been told it is saved.

The code does **not** write snapshots in the order it takes them, and a flush
works with a file it read some time ago.  Three races follow, and the model names
them: a writer lands over a newer snapshot (`Overtakes`), a flush lands over a
change it has not read (`StaleRead`), a flush merges into memory behind a later
change (`LateAbsorb`, when that changes memory).  `AckedDurable`, `CleanMeansSaved`
and `StoreUntilRaced` say what holds as long as none of them has happened; the two
runs that expect a violation show what documents promise without that exception.

### DurableStore and StoredPool

`DurableStore` is what callers of the pool may rely on, without snapshots, flushes or
locks: versions are put into memory, or by another program into the file; the file is
saved; memory recalls what the file has, all of it after a restart.  `promised[id]` is
the last put whose caller was told that it succeeded, and a save never has less than is
promised then.  What was put and not yet promised is there or is not: a handler whose
write failed has its change in memory still, and may lose it in a crash.

`StoredPool` adds the history that the store has to the steps of `AccountPool`: a
mutator puts (and holds a `ticket`, which of the puts it is saving), `SyncWritten`
promises the tickets of the handler it answers, `External` puts into the file, and
everything else (`Quiet`) neither puts nor promises.  `file` is the credentials in
`disk`, `memory` those in `Current`: a pool that has not read its file yet has what is
in it.  `StoreUntilRaced` says that until a race every step is a step of the store, or
changes nothing of it.  After a race the history is dropped (`Forgotten`), which keeps
the states finite; `raced` stays.

### AccountSelection and PoolRequest

Time is a countdown: a deadline is the number of ticks until it.  Quota is a
small number, `Unknown` without a snapshot.  An account is `usable` if it is
enabled, has credentials and is of the requested site.  `Choose` is the order of
`Select`: the richest account whose quota is known, the rotation from
`NextIndex`, the blocked account that recovers first, or nobody if all that is
left is limited for the model.

A request is the record of the options its handler passes to itself, plus where
it is; a recursive call takes it back to `"enter"`.  Each call of the pool or of
the pins is atomic (they take one mutex each) and everything between two calls
interleaves with the other request, the clock, pins that expire and an
administrator.  The quota probes of `refreshCandidateQuotas` answer in any order
or not at all.  Errors are the eight classes that the handlers tell apart by their
text (`Errors`).  `outcome` carries the error of the last frame that moved on to
another account, which hides an error of the pool (`Answer`).

`sent`, `cuts`, `hollow` and `delivered` are history: calls upstream, transport
errors, empty turns, and whether content reached the client.

### OneAnswer, UpstreamStream and ResponsesStream

`UpstreamStream` is one request, seen from the stream.  `sink` says who asks: a
client that wants one JSON answer, a chat that is streamed, a Responses stream, or
one with the built-in search, whose rounds have no callbacks.  `held` is the data
line in `dataBuf`, which the blank line after it or the end of the stream
dispatches; `fired` is the stall guard's flag; `read` is what `readSSE` knows of
this stream (`saw`, `delivered`, `terminal`: its `sawContent`, `delivered`,
`sawTerminal`) and what its accumulator holds; `try` counts the calls of
upstream.  Text is only there or not; the arguments of a call are not begun,
empty, unfinished or whole, which is all that `looksTruncatedToolArgs` tells
apart.  `source` is history: the attempt whose content the client has been given,
by the callbacks themselves (`ReachesClient`) and not by the reader's idea of them
(`CountsAsDelivered`); `AnswersOnce` is about the two agreeing.  Thinking does not
count as content, as in the code: a second attempt may show its thinking after
that of the first.

Upstream sends one event per data line, begins calls in their order and sends
nothing but endings after the end; otherwise it may send anything, interleave the
fragments of several calls, stop after any line, close the connection with or
without having finished, reset it, or fall silent.  When the gateway may replay
(`Replayable`), whether its budgets allow it is left open here: `Replay` and `Fail`
are both possible.  `PoolRequest` has the budgets.

`ResponsesStream` adds the client's view of a streamed response.  `items` are its
output items, with the pieces their deltas brought (`given`), what their "done"
events said (`final`), how often they were done, and whether an event came late or
under another item's output index (`astray`).  `builder` has the fields of
`ResponseStreamBuilder`.  As in the code, deltas and "done" events of messages and
reasoning take the *current* output index.  The operations of the builder are
operators on the pair of both, `Now`, and `OnEvent` composes them as the callbacks
of `streamResponses` do.  `Complete` writes what callbacks have not, the calls of a
turn in any order because `snapshot` takes them from a Go map.  `ordered` is
history: whether upstream kept to thinking, text, calls, one after another.  Only
then is what the client puts together the turn (`StreamedIsTheTurn`); the life of
items is right in any order (`ItemsDoneOnce`).

Left out: usage frames, the repair of Markdown headings, keep-alive comments (they
are written under the same mutex and the same `done` flag).  The searching round of
the built-in search is in `SearchRound`.

### SelfUpdate

`busy`, `phase`, `available`, `cancel` and `requests` are the fields of `Manager`;
`download` and `checking` say where its goroutine and its handler are; `main`,
`helper` and `service` are the processes; `pipe` is what the helper was told;
`file` says which program is in the executable, the backup and the staged file;
`ready` that the ready file is not empty.  Renames are atomic, everything the
operating system does may fail (`Fault`), and a new version may hang, exit, or
die after it reported to be ready.  `Cancel` and the hand-over take the same
mutex and are atomic.  Released checksums and sizes are one step (`Staged`).

### Credentials

`session` is `Service.oauth`, `lastState` what the OAuth client remembers of the
last attempt; `start`, `poll` and `renew` say where the goroutines of handlers are
between two locks or calls upstream.  A credential is the number under which
upstream issued it, and `origin` says which one a renewal was made from, so that
"newer" is a chain and not a date.  `pool` holds an account per user.  A write to it
is one step, with or without the error of a failing file: memory has the change in
either case, and `AccountPool` has the rest.  `assigned`, `stored`, `used` and
`announced` are history.

`PollConfirms` marks whatever session there is by then, as the code does: a poll
remembers the session it asked for (`id`), the code does not look at it again.  So a
late answer may turn a session into a success that nobody logged in to, and
`announced` keeps which login announced which session and which one it was asked for.
`SuccessIsSaved` says what is left to rely on: a session that says success was
announced, by a login that the pool has held and that was asked for in that session or
an earlier one, and no login announces two sessions, however many polls there are at a
time.  The answer to a login is put over whatever the pool holds, so the login that is
answered last wins, were it the older one; `NewerCredentialStays` is about renewals,
which replace only the credential they were made from, and about credentials that were
replaced, which nothing brings back.

### ModelLists

`cache`, `flight` and `badUntil` are the maps of the code, `lister[l]` one call of
`listModelsForSite`.  A catalogue is the time it came in.  `ConsoleAnswers` covers
every set of hosts that fail and of hosts that answer, and the leader whose client
has left, for which all of them fail.  The clock moves only while upstream is waited
for, or nobody runs.  Not modelled: a panic inside a flight.

### UsageJournal

The fields of `Journal` have their names, with a `j` where another module has the
name; `jloop`, `jclose` and `jflush` say where `flushLoop`, `Close` and `Flush` are.
Time counts hours, an entry keeps what queries tell apart, and one number stands for
every column that is summed alike.  `View` is `Query` for every range and filter.
`log` is every record that memory stands for and `logged` how many of them the
snapshot and the file stand for: `JournalIsTrue` says that ring, totals, views and
file are what these records make them, through failing writes and restarts.
`unwoken` is the one case in which a dirty journal wakes nobody, after a failed write.

### Settings

Four names stand for what operators change while the service runs: the gateway key
(with `REQUIRE_API_KEY`), the bound keys, the routing of the pool, and automatic
check-in.  Each has a value in `config`, in the env `file`, and in `environ`, and
they are not written together: a handler reads the file, writes it, and then sets
memory and, for two of the four, the environment.  The update helper is handed the
environment of the moment it is started (`Prepare`); `Stop` returns to the one
operators start the service with (`outer`).  `Boot` and `FirstRun` are `LoadDotEnv`
and what follows.  `told` is history, what a setting may be by what operators were
told; `raced`, `lossy` and `carried` mark changes that overlapped, a restart after
such, and an environment that a self-update handed over.  `SettingsSurvive` claims
nothing of memory after `lossy`, and nothing of the keys after `carried`: those are
the exceptions the code has, and the run `settings_key` shows the second one.

### SessionTables

Two functions from sessions to entries with an end.  `MakeRoom` evicts what has
expired, then whichever entry ends first, for a key that is in the table as well.
`PoolRequest` has the order in which requests use the tables, without capacity.

### Admission, SearchRound

`Admission` follows one request through `authorizeAPI`, the resolution of its site
(model prefix, header, key), `boundSiteAllowed` and `Select`, with an operator who
changes keys, accounts and the active site between any two steps.  `SearchRound`
follows one request through the two completions of the built-in search: `opts` and
`messages` are what upstream is asked with, `turn` what it said and in the end what
the client gets, `asked` (history) all that was asked and used.  The calls of a turn
are known by their ids; a round that is answered becomes one assistant entry and a
tool result for each id.  Usage is a number of `Amounts`, or `Untold` when upstream
did not send any.

### Egress, Proxies

`Egress` counts bytes: `inbox` has what was received and not read, `payload` of
which is the far end's, so that reading one byte too few or too many shows.  The
deadline, the watcher of the request's context and the dialer race each other.
`Proxies` is the list of exits, edited under its lock, and the balance, which is
not under any: it reads the list, then the pool, then assigns.  Accounts are numbers,
because the balance deals exits out in the order of account ids (`Rank`).

### CheckIn

A tick covers the minutes after the previous one up to now, however late it is.
`runner` keeps its local variables (`prev`, `now`, the rules it has read, whom it is
asking for), `batch` those of `RunPoolCheckin`; both ask the state first and then
ask to check in, and an answer may be lost after its effect.  `Draw` is the hash of
day and account.  A read of the rules or of the pool that fails ends the round, and its
interval is lost (`IntervalLost`): the code does not go back to it.  `tried`, `settledAt`
and `ticks` are history: how often a rule has been tried for which minute, when what
decides about it last changed or failed to be read, and when ticks came.
`DueIsTriedOnce` is about the minutes of every day up to the last tick.  It excepts
those before `settledAt` and those that no tick followed on their own day
(`MissedTheDay`): `due` asks only about the day its interval ends in, so what came due
after the last tick before midnight is lost.

### Tracker, Watch

`Tracker` has the counters, buckets and events of `concurrency.Tracker`, goroutines
that begin and end calls, are limited, or panic (then nobody ends the flight:
`leaked`).  `Watch` has the ring, the two windows it is split into, the verdict with
its frozen baseline, and what is sent; `streak` is history, the problems every sample
has shown since they were found.

## Runs

Passing runs:

| Run | Bounds | What it shows |
|---|---|---|
| `pool_races` | 1 account, 2 handlers, loop, Close; 2 new versions, any deletions, 1 hot update, 1 failing operation, 1 crash, 1 external edit | `StoreUntilRaced` (the pool is a `DurableStore` until a race) and `MemoryNeverRegresses` in every interleaving (about 840,000 states) |
| `pool_faults` | 1 account, 1 handler, loop, Close; 2 new versions, 2 hot updates, 1 failing operation, 1 crash, 1 external edit | `CleanMeansSaved` with failures, and liveness: `DirtyGetsFlushed`, `CloseReturns` |
| `request_races` | 2 chat requests, 2 accounts, 1 model, 1 session, quota 0 or 1; upstream answers "busy" or well | `GivenUpForGood`, `SelectionRespectsCooldowns` across requests (about 1,072,000 states) |
| `request_solo` | 1 request (chat or image, bound or not), 2 accounts, every class of error, 1 switch by an administrator | `BudgetsHold`, `BoundStays`, `TurnedAwayForCause`, `DeliveredNotReplayed`, and that every request is answered (`RequestsReturn`) (about 245,000 states) |
| `stream` | every kind of client, 2 calls upstream of up to 4 events each, 2 tool calls | `AnswersOnce` (content comes from one attempt: the refinement of `OneAnswer`), `StreamedHalfCallFails`, `ItemsDoneOnce`, `StreamedIsTheTurn`, `RequestEnds` (about 655,000 states) |
| `service` | what must come to an end, each part at an instance of its own (below) | an update: `NeverTwoServices`, `OriginalKept`, `CancelHonoured`, `ReadyIsFresh`, `BusyEnds`, `ServiceComesBack`; logins: `SuccessIsSaved`, `HandlersReturn`; lists: `ListingsAreYoung`, `HandlersReturn`; journal: `JournalIsTrue`, `JournalGetsFlushed` (about 129,600 states) |
| `operations` | the handlers and loops operators work with, each at an instance of its own (below) | `KeyDecides`, `SearchStaysInside`, `DialIsClean`, `ExitsAddUp`, `PoolHasTheWord`, `NewerCredentialStays`, `SettingsSurvive`, `DueIsTriedOnce`, `BatchIsHonest`, `LiveEntriesStay`, `TrackerAddsUp`, `WatchKeepsItsWord` (about 524,600 states) |

Why the bounds are enough: every race of the pool needs two writers, or one and a
flush, and two versions of one account; a third party adds no new order of
*take snapshot / read / write / merge*, and a second account is one more row in the
same snapshots (the theorems hold for any number of either).  Retries are counted in `RetryDepth`,
which the two passing request runs bound by 3 in place of 16: with two accounts every
kind of retry and every pair of them fits, and the depth limit is reached.
`MaxResets` is the code's 2 where budgets are checked.  Four events are enough for
thinking, text, a call and the end, for a call that text or another call interrupts,
and for an ending after an unfinished call; each may be the last one.  What a second
attempt can spoil it spoils after the first one, so two attempts suffice.

`service`: an update is one process, its helper and two launches, with 2 failing
operations; two login sessions, started by two handlers, polled by two others, with 2
credentials issued (so that one answer may be late, and two may confirm one session); 3 listings of one key with one host (a leader, one that joins,
one that comes later), where a cached catalogue and a bad host last one tick of two;
a journal with 2 slots, 3 records, and one write that fails or one restart, over five
hours of two to a day, so that the ring drops a record, a request ends on the day
after it began, and the first day outlives its retention; `Close` is called in the
first hour or not at all.

`operations`: two renewals of one account's token with an edit between them, and 3
credentials (the login's and one by each renewal); two handlers of settings with 2
changes, and 2 stops, so that what is lost at the first is still lost at the second;
two accounts with rules, days of two minutes, 3 minutes (a tick can span midnight, and
what it loses there is seen the day after), reads of rules and pool that fail in any
round, 2 changes of rules and one start; tables of 2 entries and 3 sessions, so that
one must go; keys of one site, one account, or neither, over two accounts and sites,
with one change by the operator; turns of up to 2 calls; replies with a name of no
byte and of 3, an IPv4 and an IPv6 address, and 2 bytes of payload behind them; two
editors of a list of two exits, and three accounts to balance over them; two
flights that begin twice with buckets of two seconds; a watch with a window of 2, a
baseline of 1 and 4 samples, over 5 evaluations with one restart.  A scaled constant
(days, buckets, windows) keeps the relations between the code's constants that the
`ASSUME`s of the modules name.

Runs that expect a violation (each is a finding of `PROJECT.json`):

| Run | Broken promise |
|---|---|
| `pool_acked` | "credentials must not be lost" (overview.md:117): two mutators land in the wrong order |
| `pool_deleted` | "Delete does not bring deleted ids back" (CHANGELOG.md:393): a flush merges the account back |
| `request_replay` | delivered content is not replayed (service.go:480, runbook.md:101): a streamed search is |
| `stream_parallel` | events of a call agree on its item (responses_stream.go:56): fragments of parallel calls go to the last item |
| `settings_key` | a generated key is "still valid after a restart" (server.go:798): not in the service that a self-update starts, which inherits the environment with the earlier key (restart.go:56, dotenv.go:92) |

The violation run of requests uses the retry limits of the code.
`CHECK_DEADLOCK FALSE` is set everywhere because the systems may stop: bounded
pools run out of steps, answered requests stay answered, an update ends.

## Observations

Met while modelling, with no run of their own:

- Images and searches have no budget of transport failures (image.go:60,
  search.go:157), which overview.md:83 gives every request.
- A half tool call passes for a complete answer without it when nothing was streamed
  (client.go:913), unlike CHANGELOG.md:80 has it.
- A retry on the same account that finds it switched off or limited returns the
  pool's error and not upstream's (service.go:495, 534; runbook.md:98).
- A fresh listing that joins a flight which is not fresh gets the hosts that one
  passed over (docs/api/http.md:66); and when the leader's client leaves, all who
  joined get "auto" alone, which is then cached.
- Quoting and unquoting of values in the env file are not inverse (dotenv.go:244, 102).
- Two changes of settings at once may lose one of them; a bound key that was deleted
  works again after a self-update, for the reason `settings_key` shows.
- An alert that no channel takes is logged and counts as sent (monitor.go:321).
- When the second completion of a built-in search fails, the usage of the first is
  not journalled (responses_search.go:78).
- An account that is deleted during a balance is answered as assigned
  (egress_admin.go:302).
- Due times of the last minutes of a day are lost if the tick that covers them ends
  on the next day (runner.go:86, 108), and those of a round that cannot read the rules
  or the pool are not tried later (runner.go:90).
- A poll that is answered late marks whatever session there is by then, as success or
  failure, and its login replaces a newer one (service.go:1540, pool.go:824).

## Fairness

- `AccountPool`: the loop, `Close` and a running `Flush` are goroutines, so they
  are weakly fair; file operations return.  Leaving through `stopCh` is strongly
  fair because Go's `select` picks at random among ready channels, so a loop
  that is woken again and again cannot overlook `stopCh` for ever.  Handlers,
  other programs and crashes are under no duty.
- `PoolRequest`: a request's own steps are weakly fair as one action: handlers
  keep running, and calls upstream end by an answer, a timeout, or the stall guard.
- `ResponsesStream`: the code runs on, the transport's time-out ends the wait for a
  response header, and the stall guard's timer goes off when no bytes come: streams
  are bounded, so one that does not end falls silent.  Upstream is under no duty at all: it may fall
  silent, and no data line or end of stream is fair.
- `SelfUpdate`: handlers, the download (three minutes at most), the main loop and
  the helper (all its waits are bounded) are weakly fair, and the original
  program gets to listen.  A new version is under no duty at all.
- `Credentials`: a `StartOAuth` that has begun goes on (`Starting`); upstream answers
  or times out.  Nobody needs to poll or to renew.
- `ModelLists`: each listing goes on (`Proceed`), its calls upstream time out.
- `UsageJournal`: the loop, a running flush, and a `Close` that has begun are
  goroutines.  `JournalGetsFlushed` needs no strong fairness: both ways out of the
  loop's `select` flush.
- `MCService` assumes all of these.  A part that does not run in a behaviour has no
  step that is enabled, so its fairness asks nothing.  The other modules of
  `MCOperations` have safety properties only.

## Proofs

Each theorem holds for every value of the constants that the named assumptions of its
module allow; the runs check the same formulas on small instances.  A proof module has,
for each component, the invariant in named parts, one lemma per action that the action
keeps it, and then the theorems.  `PROJECT.json` lists the theorems with what each
establishes.

### The pool

`AccountPoolProofs` proves, for any accounts, any handlers and any bounds:

- `PoolTypeCorrect`: `Spec => []TypeOK`.
- `PoolNeverLosesWakeup`: `Spec => []NoLostWakeup`.  It needs that the loop
  flushes only where its code does (`FlushesInPlace`).
- `PoolMemoryNeverRegresses`: `Spec => MemoryNeverRegresses`, by cases over the
  actions: mutators start from current memory, and a merge lets memory's rows win.
- `PoolAckedDurable`: `Spec => []AckedDurable`, through the inductive invariant
  `DurabilityInv` (at the end of `AccountPool`).  `AckedDurable` alone is not
  inductive, because whether the file keeps a change depends on snapshots that are
  still under way.  The strengthening says that holders of snapshots are ordered
  (`SnapshotOrder`); that a flush which has landed had read the file after its
  last change (`LandedFlush`); and that, without a race, memory, file and every
  snapshot that may still land agree with what was acknowledged (`MemoryAgrees`,
  `FileAgrees`, `SnapshotsAgree`), while snapshots taken at or after a mutation
  which is not answered yet contain it (`SnapshotsFollow`).

- `PoolCleanMeansSaved`: `Spec => []CleanMeansSaved`, through `SavedInv` beside
  `DurabilityInv`.  That memory is clean says nothing of the file while a flush is
  under way: the invariant follows the latest snapshot until it lands.  While nothing
  is dirty, either somebody holds a snapshot which no later one follows and which has
  all of memory (`Carried`), or the file has it and whoever may still write is
  behind (`UpToDate`); and a latest flush that has landed brings into memory only
  what is in the file (`LandedLatest`).

- `PoolIsDurableStore`: `StoredSpec => StoreUntilRaced`, and from it
  `PoolImplementsStore`: a behaviour without a race is a behaviour of `DurableStore`.
  The initial states map to initial states, and every step to a put, a save, a recall
  or a stutter.  The invariant is `StoredInv`, beside `DurabilityInv` and `SavedInv`:
  everything that may still get into file or memory has nothing older than what is
  promised (`AllFresh`: memory, the file, and every snapshot but those that could
  only land with a race); and what a handler is about to be told is saved is in
  memory and in every snapshot taken since, until the flush that took it reads the
  file (`PutsFollow`), so that a promise makes nothing stale that could still land.
  A merge is a recall because of `LandedLatest`: a flush that changes memory without a
  race brings in only what the file has.
- `PoolLosesNothing`: `StoredSpec => [](raced \/ Durable!NothingLost)`, what the store
  is for.  It says more than `AckedDurable`, which is silent on an account as soon as
  another change of it is under way.

They rest on the two assumptions of `AccountPool` only: the bounds are numbers,
and handlers are neither the loop nor `Close`.

`PoolRequestProofs` proves the three handlers of requests right, for any number of
requests, accounts, sessions and any budgets.  `RequestsInv` is one predicate of every
request, `RequestInv`, beside the types of the pool (`PoolInv`): a step of another
request cannot break it, because nothing in it depends on the pool or on the pins.  That
is the point: what the handlers promise they must carry in their options.  Its parts say

- what has been spent, at each place of the loop: `DepthOK`, `SentOK` (calls upstream
  follow the depth), `CutsOK` and `HollowOK` (transport failures and empty turns, up
  to one more where the failure is still being judged).  From these `RequestBudgets`;
- whom the request may use: a bound one only its account (`BoundOK`), any other none
  that it has given up (`GivenUpOK`, which has to follow the account through pins,
  probes and the selection).  From these `BoundRequestsStay` and
  `RequestGivesUpForGood`;
- that after delivery the request is at its end (`DeliveredOK`), for
  `DeliveredIsFinal`.  It is proved for chats and images, where `Kinds` has no search:
  for searches it is false (`request_replay`).

`SelectionIsSound` is about `Select` itself and needs nothing but the types: whatever
the pool is like, for a chat request that is not bound it selects no account that is
limited for its model, and one that cools down or is exhausted only if all that the
request may still use do, or are.
`RefusalIsSound` says why a request may be turned away.  No account is left for it only
if all it may still use are limited for its model, which is again about `Select`; and
the client is told of the pool's errors in place of upstream's only in one case.  This
takes an invariant of its own (`Shown`): a request that has been upstream keeps the
error it met there, from one account to the next, through renewed tokens and dropped
pins, unless the same account is tried again (`SameAccountNext`).  The exemption is what
the code does, not what it means to do: when that account was switched off or limited
meanwhile the client sees the pool's error, where `docs/operations/runbook.md:98` has
it see upstream's.
The proofs rest on `PoolShape`, `RequestShape` and `FailuresAreErrors`: there is an
account, cooldowns are not empty, there is one retry at least, and failures are classes
of errors.

### Updates

`SelfUpdateProofs` proves, for any number of failing operations,
`UpdateTypeCorrect`, `UpdateNeverTwoServices`, `UpdateKeepsOriginal`,
`UpdateHonoursCancel`, `UpdateReadyIsFresh` and `UpdateDrainsFirst`, all from one inductive invariant
(`UpdateInv`, at the end of `SelfUpdate`) whose parts follow the data flow of an
update: the manager does one thing at a time (`OneAtATime`); a confirmed
cancellation reaches the context before the hand-over looks at it
(`CancelReaches`); whatever may be renamed over the executable is complete
(`StageComplete`); the helper's progress follows what the main loop told it
(`Order`), which says where the original program is (`OriginalAt`) and that a
service is launched only when no other is alive (`LaunchOrder`).  It rests on the
assumption that the bound of failures is a number.

### Streams

`UpstreamStreamProofs` proves, for every kind of client and any number of calls,
events and attempts, `StreamTypeCorrect`, `StreamCompleteIsTerminal`,
`StreamHalfCallFails`, and `StreamAnswersOnce`: the stream implements `OneAnswer`.
The inductive invariant `StreamInv` adds to the types what the reader's flags say
about the turn it has accumulated (`ReaderOK`: nothing is accumulated that was not
seen, and for a Responses client nothing of a call that was not delivered), that an
attempt which passes for complete is (`VerdictInv`), and that content the client has
is of this attempt and known to the reader (`SourceInv`), which is why a replay
cannot follow it.

`ResponsesStreamProofs` first shows that building events does not interfere with
reading (`ResponsesReadStreams`), so that all of the above holds of
`ResponsesStream`, and then proves `TypeCorrect`, `ItemsAreDoneOnce` and
`TheStreamIsTheTurn`.

`ItemsDoneOnce` says nothing before the end; the invariant is
that an item has been done, once, exactly when the builder no longer holds it to be
open (`Good`).  Each operation of the builder gets a lemma that it keeps `Good`,
and `OnEventGood` composes them for any event at any point.

`StreamedIsTheTurn` holds while upstream keeps its order, and what that order buys is
`Orderly`: at most one item is open, and it is the last; reasoning is the first item, a
message follows reasoning only, and what each item has been given is what the buffer
of its kind holds, so that its "done" says the same.  That alone is not enough to add
the next delta to the right item, because a whole call with its input is closed at
once: `LastOpen` says the last item is open unless it is such a call, whose fragments
upstream does not send.  `Matches` relates the items to the turn that the reader
accumulates: a message if and only if there is text, the items' calls are the calls
begun.  A retry starts the turn anew with the items left from the first attempt, which
is right because only thinking can be left (`~read.delivered`).  At the end a begun
call is a call of the turn because an unfinished one has failed the request
(`StreamHalfCallFails`).  What is filled in for a search is treated by a lemma of its
own: the calls come out of a map in any order, and a sequence that lists a finite set
without repetition has all of it (`ListsAll`).

Both modules rest on the assumption that the bounds are numbers and the sinks are known
ones.

### Logins, tables, lists, journal: `ServiceProofs`

For `Credentials` it proves, for any users, handlers and bounds,
`CredentialsTypeCorrect`, `CredentialsInPool` (requests go upstream only with what
the pool has held, and the egress operators bind stays), `CredentialsSaved` (a session
that says success was announced by a login of its own, which the pool has held) and
`CredentialsNeverOlder` (a renewal replaces only what it was made from, and nothing that
was replaced comes back; about two logins it says no more than that).  The inductive
parts of `CredInv` are `CallsOK`: what is under way was made from a credential that the
pool has held, and was issued after it; `FreshOK` and `HandsOK`: a credential that is
in some hand is in no other, and one that is not saved yet has announced nothing
(`InHand`, `TokensApart`), so that an answer cannot count twice.  The number of the
next credential is a cardinality, hence `IssueAdds`, from the theorems on finite sets.

For `SessionTables` it proves `TablesKeepTheLiving`, for any sessions, capacity and
time to live: tables are finite and never exceed their capacity (`TablesInv`), so
that room is made only by what has expired or ends first.

For `ModelLists` it proves `ListsAreYoung` and `ListsAskOnce`, for any keys, hosts,
times and number of listings.  `ListsInv` has to follow a catalogue through cache and
flights: a cached one is as old as its end says (`CacheOK`), one that has landed is
of this moment (`Timely`), and who asks upstream for a key is the one in its map
(`InTheMap`).

For `UsageJournal` it proves `TheJournalKeepsItsLog`, for any requests, capacity, days
and number of failing writes and restarts: the half of `JournalIsTrue` about what is
kept (`JournalKeepsItsLog`).  Memory and file stand for a prefix of everything recorded;
to be inductive, `LogInv` says the same of the snapshot on its way to the file
(`SnapStands`).  The ring keeps the newest records because a full one loses its oldest
(`LastOfMore`), and a day's total, counted record by record, grows by each one
(`DayTotalsOfMore`, for which the function that counts has to be shown to exist).  It rests
on `JournalAssumption`: no request lasts as long as the days are kept (90 days), or else
it would be added to a total that has been dropped (`EndedIsKept`).

### What operators do: `OperatorProofs`

For `Settings` it proves `SettingsAreKept`, `SettingsSpec => []SettingsSurvive`, for
any number of handlers, changes and restarts.  `SetInv` says where each setting is at
each point: who is between reading the file and writing it knows what is in it
(`ChangesOK`); what is not set from outside comes back from the file (`FileOK`); the
two settings that are put into the environment are current there, and in the copy the
helper was handed (`HandedOK`, `UpOK`); and between two processes the next one will
find what operators were told (`DownOK`).  It rests on `SettingsAssumption`: the
default routing is one, bounds are numbers, keys from outside are not generated ones.

For `Proxies` it proves `TheExitsAddUp`, for any number of editors, exits and accounts.
The list (`ListOK`) is what the changes made of it because each change works on the list
that it read under the lock (`EditorOK`).  For the balance, the code deals exits to
accounts in the order of their numbers; that the shares differ by one at most comes down
to counting the numbers below a bound that leave a given remainder (`TurnsAreEven`), and
to the ranks of a finite set being all the numbers up to its size (`RanksAreAll`,
`RankGrows`).

For `CheckIn` it proves `CheckInTypeCorrect`, `EveryDueRuleIsTriedOnce` and
`BatchesAreHonest`, for any accounts, windows, draws of a minute and lengths of a day.
A tick covers the minutes since the last one; the invariant follows the rules of a round
from being read to being tried: no attempt is ahead of the round, and a rule that was
tried is behind it (`RoundOK`, `TriedOK`), while one that is due and not tried is still
before it (`DueOK`, over the minutes of every day, but those no tick followed on their
own day), as long as rules, pool and process are what they were and could be read
(`settledAt`).  As long as the batch counts as gone well, everybody it has dealt with has
checked in since it began, or cannot (`BatchOK`).  `WindowsAssumption` says that windows lie within the
day and do not end before they start: `normalizeRules` refuses others.

### Around a request: `TrafficProofs`

For `Admission`, `KeyDecidesTheRoute`: for any keys, sites and accounts, and any changes
of them while the request is read, it goes where the key said when it was let in; its
binding is copied then, and a bound request is routed only to the site of the copy
(`RoutedOK`).

For `SearchRound`, `TheSearchStaysInside`, for any number of calls.  `SearchInv` follows
what the two completions are offered (`OffersOK`), that the second one is not asked
before every call has its result (`ProgressOK`), that a result is of one call and no
call has two (`ResultsOK`), and what it all cost (`CostsOK`: a credit that upstream
left out makes the sum unknown).

For `Egress`, `DialsAreClean`, for any answers of the proxy and any lengths.  `InboxOK`
counts the bytes that are still unread at each step of the handshake, so that a
connection that is handed out has nothing of it left; `ConnOK` says who may still close
the connection, or has, and that the deadline is gone before the dial is over.

For `Tracker`, `TrackerTypeCorrect` and `TheTrackerAddsUp`, for any accounts, flights and
spans: the counters are the numbers of flights in the air and of those a panic left
behind (`CountsOK`), and within the hour no bucket forgets what began in it, nor has a
peak above what can be in the air (`BucketsOK`).

For `Watch`, `WordsComeInOrder`, the half of `WatchKeepsItsWord` about what is sent:
alert, reminders, recovery, one incident after the other, reminders no closer than they
may, whatever the samples are judged to show.

### What stays with TLC

- Liveness, which the prover cannot treat: `DirtyGetsFlushed`, `CloseReturns`,
  `RequestsReturn`, `RequestEnds`, `BusyEnds`, `ServiceComesBack`, `HandlersReturn`,
  `JournalGetsFlushed`.
- The other half of `WatchKeepsItsWord`, `TroubleStays`: verdicts rest on medians of
  filtered and sorted samples, operators that no installed prover looks into.
- `JournalViewsAgree`, the other half of `JournalIsTrue`: the views' totals and series
  are folds over filtered records, and induction over the records is what a proof needs.
- What a recursive definition computes for every input.  Inductions over numbers that
  the proofs need are done by a least counterexample (`SmallestOf`, `LeastOf`, from the
  well-foundedness of the order on numbers).

## Not modelled

- The formats of requests and answers (`internal/openai` but for the stream and the
  search), catalogues of models, billing answers, imports and exports, HTML: these
  convert data, and what they produce enters the models as a value.
- The readers of images and searches (`provider/image.go`, `provider/search.go`):
  `PoolRequest` has their retries, their answers are an outcome.
- Usage frames, the repair of Markdown headings (it may hold text back for a moment)
  and keep-alive comments of streams.
- HTTP exits, transports and probes (I/O); validation and parsing of the variables
  that `Settings` does not name.
- Sites in `AccountSelection` (an account of another site is one that cannot be
  used); `Admission` tells them apart.
- A panic in a flight of `ModelLists`, which would leave its waiters hanging; no path
  of the code is known to panic there.

## Plan

1. `AccountPool`, `SelfUpdate`, `AccountSelection`, `PoolRequest`, `UpstreamStream`,
   `ResponsesStream` and the abstract `OneAnswer` that they implement: done.
2. `Credentials`, `ModelLists`, `UsageJournal`, `Settings`, `SessionTables`,
   `Admission`, `SearchRound`, `Egress`, `Proxies`, `CheckIn`, `Tracker`, `Watch`: done.
3. Proofs of what is checked: every invariant and action property of a passing run is
   stated by a theorem, except half of `JournalIsTrue` and of `WatchKeepsItsWord`, for
   the reasons above.
4. The abstract `DurableStore` that `AccountPool` implements outside the three races
   (`StoredPool`), as a refinement: done.
5. The readers of images and searches.
