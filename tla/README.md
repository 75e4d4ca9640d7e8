# FlowProxy: TLA+ models and proofs

FlowProxy offers an OpenAI-like API on top of a pool of Google accounts. Each
request is served by one account of the pool; the accounts are kept alive by a
sidecar that drives a real Chrome per account, and they enter, leave and re-enter
the pool for many reasons: an operator, a rate limit, repeated errors, a revoked
session, an expired membership. This directory holds models of the parts whose
correctness depends on what several of those actors do at once, the TLC
configurations that check small instances, and TLAPS proofs of the properties that
matter most for every instance. The models are translated from the code, and
`PROJECT.json` maps every definition to the lines it stands for.

## Inventory

Three processes share one SQLite database (`data/flow.db`, WAL): the API service,
the keepalive sidecar and the account CLI. Every write is a transaction opened with
`BEGIN IMMEDIATE` under a lock (`shared/db/engine.py`), so a transaction is atomic
and anything may happen between two of them. Inside the service and inside the sidecar one
asyncio loop runs, so code is atomic between two awaits that suspend.

| component | state | operations | how it interacts | what makes it correct |
|---|---|---|---|---|
| lifecycle policy (`core/account_lifecycle.py`, `token_states.py`) | none, pure | classify a tier, debounce an observation, decide the row's move | called by the lifecycle repository inside its transaction | a status flips only on two consecutive observations; states stay constructible |
| token pool (`services/token_manager.py`, repositories) | `tokens` rows: active, ban reason, banned at, error count; `token_lifecycle` membership columns | enable, disable, error counting, 429 ban, hourly unban, refresh, sweep, verified snapshot, publish, delete, backfill at start | admin API, generation handler, sidecar, CLI write the same rows | each reason has one owner that may lift it; a row is never stranded or half enabled |
| selection (`services/load_balancer.py`, `core/account_tiers.py`) | round-robin cursors, pending counters | `select_token`, `release_pending` | reads rows and limits, refreshes tokens while selecting | a burst overflows, laps are fair, counts are exact |
| concurrency limits (`services/concurrency_manager.py`) | limits per account; inflight counters nobody uses | initialize, reset, remove, remaining | admin API changes limits while requests run | limits apply to the pending counts |
| generation (`services/generation_handler.py`) | per request: the account, its slot, its uploads, its task row | select, check, upload, submit, poll, upsample, cache, answer, account for the outcome, release | calls selection, token manager, the Flow client and the file cache | the slot comes back on every path; one answer, which the row agrees with; nothing ordered twice, nothing finished lost |
| keepalive sidecar (`services/keepalive/supervisor.py`, `profile.py`) | runners, leases (flock), Chrome processes, schedule | reconcile, run due attempts, stop; watchdog and systemd restart it | reads desired state; contends with the CLI for profiles | one driver per profile, every enabled account is attempted again and again |
| keepalive alerts (`alerts.py`) | active code, episode, alerted: on the row and in each runner | failure, recovery, delivery, persistence | webhook; a gate beside the daemon | one alert per episode, no recovery without a failure |
| keepalive scheduler (`scheduler.py`) | none, pure | due time, backoff | called by runners | bounded, phase-stable due times |
| refresher (`refresher.py`, `silent_reauth.py`, `account_identity.py`) | none of its own | drive Chrome, read the cookie, verify, persist a snapshot | one transaction per attempt | nothing unverified is written |
| onboarding (`services/tokens/onboard.py`, `scripts/tokens.py`) | a global lease, the paused flag, a placeholder row, a profile directory | pause, lease, login, verify, pool, publish, compensate | contends with the sidecar, operators | a new account is there whole or not at all |
| project pool (`tokens/project_pool.py`) | `projects` rows, the pointer to the current one | create remotely, persist, take the next | Flow API; requests and the CLI | the projects of an account take turns |
| captcha pool (`browser_captcha_personal.py`) | resident tabs, their locks, the browser | acquire a tab, solve, rebuild, reap, restart | many concurrent solves and a reaper | no solve on a closed tab, bounded tabs, no deadlock between its locks |
| Flow client (`flow_client.py`, `captcha/cooldown.py`) | a cooldown per project, sessions at the remote captcha service | await the cooldown, solve, submit, reroute, retry, finish the session | captcha pool, external API | bounded retries, no session left open, no token asked for inside a cooldown |
| video polling (`generation_handler.py`) | `tasks` rows | poll, upsample, finalise, fail | external API | a task ends exactly once |
| file cache (`shared/storage/file_cache.py`) | files, per-file locks, a cleanup task | download and cache, clean up, clear | generation, admin API | a hit is a whole file |
| configuration, API, model tables, telemetry, scripts | | | | outside the models, or constants of them |

The hard behaviours are, in the order of what they can cost: interleavings of the
many writers of an account row, each of which reads, awaits something slow and
writes; slots counted before the code that guarantees their release; restarts
between two transactions; timeouts that leave a thread, a Chrome or a lock behind;
alerts sent and not yet persisted; retries of what the upstream already did; tabs
that vanish under the requests that hold them. `PROJECT.json` lists them under
`hazards`, each at its line.

## Modules

| module | what it is |
|---|---|
| `AccountLifecycle` | the pure policy: operators only |
| `TokenPool` | the account rows and everything that writes them, on top of `AccountLifecycle` |
| `MCTokenPool` | deployments of `TokenPool` for TLC |
| `TokenPoolProofs` | theorems about `TokenPool` |
| `Dispatch` | selection, pending slots and the skeleton of a generation request |
| `MCDispatch` | fleets of accounts for TLC |
| `DispatchProofs` | theorems about `Dispatch` |
| `Sidecar` | the keepalive daemon, the one-shot gate, the re-login and operators, who share browser profiles |
| `MCSidecar` | scenes (casts of actors) for TLC |
| `SidecarProofs` | theorems about `Sidecar` |
| `Generation` | what a request does once it has an account: uploads, calls with their captcha cooldowns and sessions, polling, upsampling, answers, task rows |
| `MCGeneration` | configurations and demands for TLC |
| `GenerationProofs` | theorems about `Generation` |
| `CaptchaPool` | the pool of resident captcha tabs with its locks, rebuilds, recovery, reaper and stop |
| `MCCaptchaPool` | scenes of requests and mishaps for TLC |
| `CaptchaPoolProofs` | theorems about `CaptchaPool` |
| `Incidents` | what the operators are promised about an account: the abstract specification of the alerts |
| `Alerts` | the alerts of the sidecar, which implement `Incidents` |
| `AlertsProofs` | theorems about `Alerts`, the refinement among them |
| `Onboarding` | `onboard_new`, project pools, and the requests that use them meanwhile |
| `OnboardingProofs` | theorems about `Onboarding` |
| `FileCache` | the cache of generated media, its locks, its clean-up |
| `MCHousekeeping` | one instance for `Alerts`, `Onboarding` and `FileCache`, which share no state |
| `HousekeepingProofs` | theorems about `FileCache`, and about the three side by side |

### AccountLifecycle and TokenPool

`row[t]` holds the business columns of an account, `member[t]` its debounced
membership, `op[p]` what process `p` is in the middle of, `unban` the auto-unban
task. A transaction is one action; an operation of several transactions is several
actions with a program counter: `EnableStart`, `EnableClear`, `EnableReset` are the
three of `enable_token`, `ErrorCount`, `ErrorRead`, `ErrorDisable` those of
`record_error`, `RefreshStart` to `DisableRevoked` a refresh with its browser retry
and its alert, `UnbanScan` to `UnbanReset` the hourly task, `PublishSnapshot` and
`PublishDesiredState` the onboarding publish. `ApplySnapshot` is
`apply_verified_snapshot`: one transaction that reads, debounces and writes both
tables; whoever has a verified answer in hand and only this write left is the
single action `Observe`. `RestartService` kills the coroutines of the service and
runs the backfill of the migration; `ToolDies` kills a CLI process.

`heard[t]` is history, not code: the last two known observations applied to the
account, which the debouncing properties compare with the flips. Time is the age of
a ban (`"recent"`, `"old"`) and whether the stored access token is unexpired (`fresh`),
which the auto-unban asks and which only a refresh or a verified snapshot renews.
`SidecarObserves` is the observation of the sidecar, which attempts every account whose
keepalive is enabled, in the pool or not. Google's answers (tier, verdict) are any answer at any
moment. What is abstracted: credentials, identity conflicts (an aborted transaction
writes nothing, as a `transient` verdict does), the project pool, the pool-low
alert, the columns nothing here decides on.

### Dispatch

`acct[t]` holds the columns that selection reads, `limit` the limits of the
concurrency manager, `pending` the load balancer's counters, `last` the round-robin
cursors, `req[r]` a client request. From the rows read to the pending count,
`select_token` suspends only when the first candidate in order needs its access
token refreshed, and then no candidate is ready: `Select` is the whole selection or
its part before that await, `RefreshAnswered` and `RefreshRefused` the loop after
it, with the order computed before. `EnterTry` and `DisconnectBeforeTry` are the
await between the pending count and the try block. The service always calls
`select_token(reserve=False)`; the inflight counters of the concurrency manager are
therefore constantly zero, and only its limits are modelled. `lap` (whom the round
robin chose since when) and `leaked` (counts whose request is gone) are history.

### Sidecar

`row[a]` is what the loop reads of an account (enabled, mode, provisioned, proxy),
`runner[p][a]` the `ManagedAccountRunner` of account `a` in process `p` (the daemon
or `--once`): the phase of its attempt, `via` the proxy of the browser it keeps
(none if it keeps no browser), whether a restart was asked for, whether it is being
stopped for good, and the target it was last given. `lease[a]` is the flock on the
profile, by process, `chrome[a]` the Chrome that has the profile open: a runner's
own, the login window of a re-login, or a stray that nobody controls. `thread[p][a]`
is a lease acquisition, or a preparation of the profile, in a worker thread that outlived
its budget. `daemon` is the loop: its place, what the query answered, which accounts
reconcile has still to handle. `onboard` is the re-login.

One pass of `run_forever` is `List`, then `RemoveRunner`, `UpdateTarget` and
`CreateRunner` one account after the other in the order of ids, each drain awaited
(`StopBrowser`, `ReleaseLease`), then `RunDueOnce`, the attempts side by side (`Acquire`
... `Record`), `CycleEnds` and `Wake`. Rows change underneath at any moment. `Record` is
the telemetry and alert write with what follows it in the `finally` clause, the one
await of an attempt that has no budget of its own. It may be "wedged" on something that
a cancellation ends, or "stuck" on the worker thread of the database connection. The
watchdog's `wait_for` cancels the pass and then waits for it, and a cancelled session
rolls back and closes on the same worker (`shared/db/engine.py:57-59`): with a stuck
attempt the watchdog does not get through. `Watchdog` leads to "stopping", the
self-exit, and `Exit` from there waits for every thread that has not returned, because
neither `asyncio.run` nor the interpreter leaves one behind and nothing calls
`os._exit`; `Terminate` leads to "terminated", where systemd's stop timeout kills what
is left. `ThreadReturns` and `WorkerReturns` may happen, and need not. `DaemonKilled` is
the third end, `Start` is systemd. The re-login is `onboard_existing` step by step, with
its `finally` clause as `Unlock` and `Restore`.

Abstracted: when an account is due (any set of idle runners may be), the global and
the launch semaphores (they only queue attempts), the codes and texts of outcomes,
what alerts and telemetry contain, deletion of rows, `onboard_new`. `intent` and
`excused` are history: what the operators last asked for, and the accounts whose
re-login was killed or could not write.

### Generation

`Dispatch` has the skeleton of a request, from the selection to the `finally` clause;
`Generation` is what happens inside. `req[r]` is where the request is and what it holds:
its demand, its project, the call in hand with its attempt, sends, last error and how it
will end (`after`), the polls and their consecutive errors, its session, the address of
its product, and how many generations and upsamples the upstream is known to have taken
(`mains`, `ups`). `shots[r][i]` is the upload of input `i`, `cooling[p]` the captcha
cooldown of a project, `sessions` the sessions open at the remote captcha service,
`task[r]` the status of the row, `answers[r]` what the client was told: a success, a
failure, or a "hollow" success, whose address is `None`. `refused` counts the writes the
database refused and `excused` the requests whose session nobody could finish: history,
which the properties need to say what is not promised.

Every submitting method of `FlowClient` has the same loop, and the model has it
once: `AwaitCooldown`, `Wake`, `Solved` or `NoToken`, `Progress` for images, the
submission through the browser (`SubmitFlowRequest`), the HTTP client (`Post`) or
urllib (`UrllibPost`) with their reroutes and resends, `Pause`, and `Finish`, the
`finally` clause that finishes the session. What `call` is decides where the handler
goes on (`Returned`, `Raised`). `Leave` is a cancellation at whatever await the
request is at; inside the `try` of a call the `finally` clause still runs. `Refuse`
is a database write that fails, at each place where the code makes one, with what
the code does about it there. An error is one of seven classes, which is all that
the classifiers of `flow/errors.py` distinguish.

`_captcha_cooldown` reads its delay once, so a request that sleeps may wake inside a
cooldown that was renewed meanwhile: `Unsettle` marks those sleepers. `gather` does not
cancel the other uploads when one fails, nor those that wait for their turn, so the
uploads of an image may outlive their request and even begin after it failed. A poll
whose status was answered ends the row of consecutive errors also when what follows it
fails (`PollFails`, `UpsamplePollFails`).

Abstracted: prompt assembly, storyboards, progress texts, request bodies and headers;
the retries inside `check_video_status` are one outcome of a poll; the cache is a
step that cannot fail the request.

### CaptchaPool

`pool[s]` is the tab of slot `s`: a page of the browser and the number of the
`ResidentTabInfo` that wraps it, because a page that is taken over gets a new wrapper
with a lock of its own while requests may still hold the old one. `ready`,
`affinity` and `strikes` are the marks on tabs and slots, `doomed` what the reaper
has collected, `closing` the pages a removal is closing, `build` the holder of
`_tab_build_lock`. `req[c]` is the request of a caller: the operation, where it will
resume (`at`), what it holds (`slot`, `tab`), and, for the holder of the recovery
lock, how far the recovery has come (`phase`). Sections under `_resident_lock` do
not suspend and are parts of one step. Three locks are not variables: the recovery
lock is held by the request whose `phase` is set, `_browser_lock` by the one that
launches, the lock of a tab by the request that works in it.

A step may end where the code runs on without suspending, so the model has all the
interleavings of the service and a few more; picking an idle tab and taking its lock
are one step, as they are in the code. `Crash` kills Chrome, `Age` ends the
validity of a health probe, `Forget` is an unmapped project, `Collect` and `Reap` the
idle reaper, `Stop` and `StopAll` the operator, `Cancel` a client that leaves.

### Incidents and Alerts

`record` is the `AlertState` on the account's row, `memory[p]` that of the runner in
process `p`, `attempt[p]` the alert step of its attempt (judged, sending, persisting),
`heard` the last notice that reached the operators and `teller` whose it was. There are
two runners: the daemon's, which reads the row when the loop reconciles, and that of a
gate (`--once`, which `docs/operations/browser-keepalive.md` has operators run beside
the daemon), which reads it when it starts. They share the row only. Whichever does not
get the lease of the profile fails with `PROFILE_BUSY` and judges, posts and writes that
like any failure; who has the lease is left open. `WriteFails` and `RunnerKilled` are
failed writes and kills, on either side of the webhook, `AnswerLost` a notice that
arrived without its answer.

`Incidents` is what the operators can rely on: a failure is told once per episode, a
recovery only ends the incident told last. The promise is suspended while there is a
`doubt`: from a delivery until its record ("unrecorded"), or after the two runners
crossed each other ("crossed"), because one wrote over a record it had not read, or
wrote what its own notice had told after the other's had been heard. `Alerts` implements
it (`NoticesOnce == Promise!Spec`). The mapping keeps `heard`, forgets the records, the
attempts and the mishaps, and maps `doubt` to itself, or to "crossed" while a runner is
about to post what calls for a record that is no longer on the row (`Outdated`). TLC
finds `NoticesOnce` violated when any of these excuses is left out: the code does repeat
notices there.

### Onboarding

`row[a]`, `projects[a]`, `current[a]` and `profile[a]` are what an account leaves in
the database and on disk, `temps` the temporary profiles, `run` the onboarding that
holds the global lease, `call[p]` a call of `ensure_project_pool`, by the onboarding
(`Cli`) or by a request. The two live in different processes: the lock of the
project pool is known to the requests only. A new account is `StartNew`, `LoggedIn`,
`Insert` (the placeholder), the pool, `Rename` (the profile), `Publish`; `Fails` leads to
the compensation, `DropRow` or `RowStays` and then `Sweep` or `SweepMisses`. `Killed` is
also Ctrl-C, because `CancelledError` and `KeyboardInterrupt` pass the `except
Exception` of `onboard_new`. `torn` and `lost` are history: accounts and runs that
could not be cleaned up. `turns` is history: the last projects taken.

### FileCache

`age[f]` is the age of a file, `queue[f]` the lock of its name with those who wait,
`broken` the files that a command-line tool left cut or wrong, `cleaner` the clean-up
task. `RaceWon`, `Fetched`, `ToolFetched` and `ToolsFail` are the ways a download goes;
a file fetched by wget may have any age, because wget dates it by the server. The unlink
of a stale file may fail, in `Miss` and in `CleanUp`; both swallow it. A clean-up pass
and the downloads by wget and curl block the event loop and are one turn of it.
`overlapped` is history: a setting came while the task was being stopped.

## Runs

| run | question | instance |
|---|---|---|
| `pool_races` | do ownership and debouncing survive every interleaving? | 1 account, 2 service coroutines, all writers but the publish, 1 restart, threshold 2 |
| `pool_recovery` | does an account come back when it should, and does the publish respect owners? | 1 account, 1 coroutine, 1 CLI process, browser refresh on, access tokens that expire, the sidecar observing, 1 crash, no disabling or deleting operator, fairness |
| `pool_unban_stale` | is only a rate-limited account released? (no) | 2 accounts, no crash |
| `pool_retired_out` | does a retired member stay out until two paid observations? (no) | 1 account, refreshes and observations |
| `dispatch_slots` | are the counts exact, do bursts overflow, are laps fair? | 2 requests; 3 polled accounts, or a limited Ult beside limited and unlimited Pros, or stale accounts |
| `dispatch_return` | does every slot come back? | 1 account, 2 requests, every change of an account, 1 leak, fairness |
| `dispatch_leak` | can a slot leak for good? (yes) | 1 account, 2 requests |
| `sidecar_profiles` | is a profile driven by one at a time, do browsers fit their rows, do pauses end, are accounts kept alive or let go? | four scenes: one account with the daemon, the gate, a re-login, an operator and 1 fault; daemon and re-login with 2 faults; two accounts with 1 fault; one account whose row changes in every way, 1 fault |
| `sidecar_late` | does a slow acquisition cost only a thread? (no) | 1 account, 1 fault |
| `captcha_tabs` | do tabs, pages and slots stay consistent, is the pool bounded, does every call end? | 2 callers, 1 project, pools of 1 and 2; seven scenes: browser deaths, removals under the requests that hold the tab, verdicts of the upstream |
| `generation_calls` | is every request answered once and truly, with nothing ordered twice, lost or left open, and does it end? | 1 or 2 requests; every error on every channel, refused writes, remote sessions, inputs of all kinds, a shared cooldown |
| `housekeeping_parts` | do alerts keep their promise, onboardings their all-or-nothing, projects their turns, broken files their end? | alerts: 2 codes (`PROFILE_BUSY` one of them), 2 changes, 1 gate, 1 mishap; onboarding: 2 accounts, 2 requests, pools of 2, 2 runs, 1 upset; cache: 1 file, 3 requests, 3 timeouts |

Why the bounds suffice. The properties of the pool speak of one account at a time, and
accounts are coupled only by the unban scan (hence two of them in `pool_unban_stale`)
and by the sweep, which handles one at a time; two coroutines give every overlap of two
multi-transaction operations on the row, and the unban task and the restart are there
besides. `MaxErrors` bounds a counter that is only compared with the threshold. In
`Dispatch` overflow needs a full preferred account and a free one of another tier, laps
need three accounts, a leak needs one disconnect and a second request to outlive it. In
`Sidecar` accounts meet only in the loop (hence one scene with two), and faults are what
is bounded: two, in the scene of the re-login, let one fault happen inside the recovery
from another. The proofs then drop the bounds.

In `Generation` requests meet only in the cooldown of a project (hence one scene with
two); the numbers of tries are the code's defaults, except for the polls, which are
fewer but still more than the errors that end them, and the inputs, which pass each
limit by one. In `CaptchaPool` two callers make every pair of operations overlap, with
the reaper, the operator and the crash beside; with two callers one permit of the
legacy semaphore blocks where the code's two would with three. Names of slots and
pages are reused when nothing refers to them, so the names do not bound the
behaviours. Alerts need two codes for a change of illness, a gate for the
crossings and a mishap for each kind of loss; a larger instance (3 changes, 2 mishaps) was
checked apart from the configurations. In `Onboarding` projects never exceed four, so
`MaxProjects` does not bite; a pool of three was checked apart from the
configurations. `MCHousekeeping` runs one of its three parts in each behaviour, so their
states add instead of multiplying.

Fairness. `ObserverFairness`: the sidecar attempts every account whose keepalive is
enabled, whether it is in the pool or not, and the snapshot of a success stores a new
access token (`token_lifecycle_repository.py:275-278`). What it observes is open;
`RenewedMemberReturns` is stated so that free observations excuse it. `UnbanFairness`: the
task is a loop around a sleep of an hour that swallows exceptions. It passes over an account
whose access token has expired, hence strong fairness of a scan that finds the account: a
token that was just stored outlives the hour to the next scan. Nothing else renews the token of an
account that is out of the pool, so both assumptions are needed: without
`ObserverFairness` TLC finds `RateLimitEnds` violated, and an account whose keepalive is off
does stay out once its token has expired. In `Dispatch` every await of a request
ends, because the HTTP client and the polling have timeouts; clients need not stop, and
`SlotsComeBack` speaks of the case that they do.

In `Sidecar` the loop takes its next step whenever it can (timers fire, systemd restarts
the daemon whatever its exit code), each attempt of the daemon goes on for the same
reason, and an account that is found idle again and again is due some time, because
`next_due_at` lies at most twelve hours ahead: strong fairness of the sweep that includes
it. Nothing is assumed of operators, of the human at the login window, of strays, of the
gate, of a blocked database worker, or of threads that outlived their budget. Such a worker
or thread may hold the daemon for as long as it stays, and `KeptAlive` and `LetGo` excuse
exactly that, by name (`Held`); with any other fault both must come true.

In `Generation` every await of a request has a time limit (the HTTP clients, the captcha
service, the sleeps), so each request goes on, and a cooldown ends; clients need not
leave and the database need not refuse. In `CaptchaPool` the awaits of the service are
bounded as well: some caller that can go on does. Weak fairness of all callers together
is enough, because the calls are finitely many. In `Alerts` the daemon attempts for
ever, attempts of either runner end, and the webhook is not down for ever for the
daemon's notices (strong fairness of `Delivered`). In `FileCache` downloads have
timeouts, the clean-up loop wakes every five minutes, and the unlinks of a file, whose
failures are swallowed, do not fail for ever (strong fairness of `Dropped`).

The configurations that do not check for deadlock are those where the system
legitimately stops: every account deleted, every request done, every bounded change
made.

### What the code does not keep

* **`OnlyRateLimitReleased`** (`token_manager.py:874`). The unban task decides on
  the rows it read at first and enables them one by one; an account that was
  disabled by an operator in between is enabled and its reason cleared.
* **`RetiredStaysOut`** (`docs/architecture.md:128`). A refresh is under way while two
  free observations retire its account with `membership_expired`; the refresh then fails
  and overwrites that reason with an auth mark (`GRANT_EXPIRED` in the trace), and the next verified
  snapshot of any tier clears auth reasons and activates the row: a free account is
  back in the pool without a paid observation.
* **`NoSlotLeak`** (`generation_handler.py:317-318`). The pending slot is counted
  and an await follows before the try block whose `finally` returns it. A client
  that disconnects there leaks the slot until the service restarts; with a limit of
  1 the account is ranked as full from then on.
* **`OnlyTheThreadLeaks`** (`docs/operations/browser-keepalive.md:162`). A lease
  acquisition that outlives its budget goes on in its thread. If it gets the lock
  later, the lease object is dropped with its descriptor open: the daemon holds the
  profile's lock and nothing in it can release it. The account answers
  `PROFILE_BUSY` from then on and its re-login times out, until the daemon exits.

Met while modelling, reached by TLC and recorded as hazards rather than runs: the
daily sweep reads `is_active` again for each account, but replaces the reason of one that is
disabled after that read, during the await of its refresh; a
disable that falls between the first two transactions of an enable loses its reason
(the next start gives the row to the operator); a sweep killed between marking and
disabling leaves a dead account active for ever.

Met while modelling the sidecar: the comment at `supervisor.py:657-659` and the
docstring of `run_forever` (:859-867) let a wedged database worker end in a
`TimeoutError`, an exit and a restart. That is so for a wait that the cancellation ends;
while the worker itself stays blocked, `wait_for` waits with it, and a daemon that wants
to exit waits for its threads. `KeptAlive` without `Held` is violated in both ways.

Met while modelling the captcha pool: a rebuild pops the error streak of its slot
(`browser_captcha_personal.py:771`), so the restart that the comment at :1536 announces
as the last escalation (reload, recreate, restart) is reached only when a third report
falls before the rebuild that the second one called for; the pool may outgrow `_max_resident_tabs`
when the slot being rebuilt is removed meanwhile (`PoolBounded` says by how
much); the reaper closes by slot name what it collected before, also a tab rebuilt in
that slot since; a build takes over pages that a legacy solve or a removal still uses,
and two requests may solve in one page through its old and its new wrapper.

Met while modelling the alerts: if incident A was told, the notice of B was not
delivered and the account recovers, nobody is told of the end of A; a lost answer on a
recovery, followed by the same failure, leaves the operators believing in the recovery.
Both are outside the promise (`doubt`, or a notice that is silent). "Alert once per
code/episode" (`alerts.py`) is not kept with a gate beside the daemon: each judges by
the record it read, so both may tell the same incident, and one may overwrite what the
other recorded. Met while modelling the onboarding: `onboard_new` does not check that
the email has a row already; projects created upstream and not recorded are wasted; the
pointer of an account may be reset by a re-login beside its requests, which starts the
round over. Met while modelling the cache: a setting that comes while the task is being
stopped leaves the cache without clean-up although files expire; the dictionary of locks
only grows. Met while modelling generation: a departed client's row stays "processing";
when an upsample has completed and its address is refused (`get_media_url` returns
`None`), that `None` takes the place of the good address
(`generation_handler.py:1564-1567`) and the client is told a success whose video has the
source `None`, though the branches around it fall back to the original.
`ProductDelivered` excuses this case by name.

## Proofs

TLAPS checks, for any accounts, processes, requests, thresholds, limits, pool sizes, fleets,
scenes and bounds, every property of the passing runs but the liveness properties:

| theorem | statement |
|---|---|
| `TokenPoolProofs!TypeCorrect` | `Spec => []TypeOK` |
| `TokenPoolProofs!ExpiredOnlyWhileRetired` | `Spec => []ExpiredImpliesRetired` |
| `TokenPoolProofs!CandidatesAreHeard` | `Spec => []CandidateIsLastHeard` |
| `TokenPoolProofs!FlipsAreDebounced` | `Spec => FlipNeedsTwoInARow` |
| `TokenPoolProofs!NoHalfEnabledRows` | `Spec => []HalfEnabledInFlight` |
| `DispatchProofs!TypeCorrect` | `Spec => []TypeOK` |
| `DispatchProofs!SlotsAccountedFor` | `Spec => []PendingCountsHolders` |
| `DispatchProofs!BurstsOverflow` | `Spec => BurstOverflows` |
| `DispatchProofs!LapsAreFull` | `Spec => FullLaps` |
| `SidecarProofs!TypeCorrect` | `Spec => []TypeOK` |
| `SidecarProofs!Exclusive` | `Spec => []ProfileExclusive` |
| `SidecarProofs!IdleFits` | `Spec => []IdleRunnersFit` |
| `SidecarProofs!PausesAlwaysEnd` | `Spec => []PausesEnd` |
| `AlertsProofs!TypeCorrect` | `AlertsSpec => []AlertsTypeOK` |
| `AlertsProofs!NoticesAreToldOnce` | `AlertsSpec => NoticesOnce`, the refinement of `Incidents`, for two runners |
| `GenerationProofs!TypeCorrect` | `Spec => []TypeOK` |
| `GenerationProofs!ClientsAnsweredOnce` | `Spec => []AnsweredOnce` |
| `GenerationProofs!RowsTellAnswers` | `Spec => []TaskTellsAnswer` |
| `GenerationProofs!ProductsDelivered` | `Spec => []ProductDelivered`, the lost address of an upsample excused by name |
| `GenerationProofs!JobsAreOrderedOnce` | `Spec => []JobsOrderedOnce` |
| `GenerationProofs!SessionsAreFinished` | `Spec => []SessionsFinished` |
| `GenerationProofs!CooldownsHeeded` | `Spec => CooldownHeeded` |
| `CaptchaPoolProofs!TypeCorrect` | `Spec => []TypeOK` |
| `CaptchaPoolProofs!StrikesPooled` | `Spec => []StrikesArePooled` |
| `CaptchaPoolProofs!PagesApart` | `Spec => []PagesDistinct` |
| `CaptchaPoolProofs!PoolBound` | `Spec => []PoolBounded` |
| `CaptchaPoolProofs!BuildsFit` | `Spec => BuildsFitPool` |
| `OnboardingProofs!OnboardingTypes` | `OnboardingSpec => []OnboardingTypeOK` |
| `OnboardingProofs!NewAccountsWhole` | `OnboardingSpec => []AllOrNothing` |
| `OnboardingProofs!TurnsDistinct` | `OnboardingSpec => []ProjectsTakeTurns` |
| `HousekeepingProofs!CacheTypes` | `FileCacheSpec => []FileCacheTypeOK` |
| `HousekeepingProofs!HousekeepingTypes` | `Spec => []TypeOK` of `MCHousekeeping` |

The assumptions on the constants are the `ASSUME`s of the modules, which TLC evaluates on
every run. They name what the code gives: accounts are rows with positive ids, defaults and
thresholds are positive, the sets of names are finite, and a null value is no name. The
thresholds of the captcha pool must be at least 2 and 3, as its configuration clamps them.

The arguments. `TypeCorrect` of the pool carries the constructor's condition on the
membership columns: `TransitionLifecycle` maps `MembershipStates` into itself, by
cases on the observation. `ExpiredOnlyWhileRetired` needs the fact that only
`ApplySnapshot` writes `membership_expired` and that it does so together with the
flip, and that any flip back restores a row it finds expired; every other writer
either keeps the reason or replaces it by another. `CandidatesAreHeard` is
inductive with the types; `FlipsAreDebounced` follows from it step by step: a flip
happens only when the candidate equals the observation, and the candidate is the
class heard before. `NoHalfEnabledRows` needs to know what each process in the
middle of an enable has done, and that no crash has happened. `SlotsAccountedFor`
needs `EditsAreVideos` (an edit's account is counted as a video's) and one lemma
on the cardinality of the holders when a request starts or stops holding, and the
clamp of `release_pending` is harmless because the releasing request is a holder.
`BurstsOverflow` is an action property of `Select`: the first element of an order
that respects the sort key precedes no ready account that is not full.
`LapsAreFull` needs to know which accounts a lap has served (`LapsFit`): those on the arc of
the ring of ids that ends at the cursor (`Arc`). The account that comes next on the ring has
therefore been served only if all have (`ChoiceIsNew`), and serving it makes the arc longer
or starts a new one (`LapAfterFits`); that the cursor goes by order of ids and not by
position in a list is what makes this true while candidates come and go.

For `Sidecar` neither invariant is inductive alone. `ProfileInv` adds what a runner
is between any two steps: a browser is kept only under the lease, a Chrome of its
own is the browser it keeps, the phases before the launch and after the drain have
none, a lease that a thread took late belongs to the process and not to the runner
(`RunnerInv`); a browser not about to be stopped fits its target (`FitInv`); only
the login step has a login window (`LoginInv`); and no attempt is under way while
the loop lists, reconciles or sleeps (`LoopInv`), without which reconcile could swap
the target of a running attempt. `RunnerFrame` says that a step that touches neither
a runner nor its claim on lease and profile leaves it alone, and most of the proof is
showing which single runner a step touches. `PausesInv` says who still owes the flag
of a paused account: the re-login that remembers it. TLC has checked both
strengthenings on the instance of `sidecar_profiles`.

For `Alerts` the invariant (`ToldInv`) speaks of the row and of each runner by itself.
While there is no doubt, the operators' last notice is the one the row implies (`Knows`): an
alerted incident is the one heard last, and no notice has an episode beyond the record's. A
runner about to post has a notice that is news to whoever knows the record it remembers
(`ToPost`), and one about to write has a record that its own notice told, or that whoever knows the
record it remembers knows as well (`ToWrite`). None of this mentions the other runner. That the two
meet on the row is handled where they do: a write that crosses makes a doubt, a post while
`Outdated` is mapped to one, and otherwise the record remembered is the one on the row, so what
the runner knows of its record holds of the operators. Every step then maps to a step of
`Incidents` or leaves its variables alone.

For `Generation` one invariant carries everything: `Facts(q, t, a, n)` relates one
request, its row, its answers and its refused writes. What it says goes by where the
request is: which calls and steps its kind has (`KindFits`), how a call will end
(`EndFits`), that a session is in hand only between its opening and the end of the call
(`SidFits`), what the row and the client were told so far (`RowFits`, `AnswerFits`),
that an address leads to a delivery (`UrlFits`), that one is lost only to an upsample
that was taken (`DropFits`) and what the upstream has been made to do (`JobsFit`). The
value-level lemmas (`...Keeps`) show that each step's new request, row and answers
satisfy it again; `MoveFine` lifts that to the state, where the other requests change at
most in how they wait; one lemma per action (`...Fine`) applies it. `SessionsFinished`
and `CooldownHeeded` ride along, the latter as a fact about the step.

For `CaptchaPool` the invariant has two halves. `Shape(r)` is what the control of a request
says of it, whatever the others do: which calls each operation makes (`OpFits`), in which
states of the recovery they may be (`PhaseFits`), whether it has a slot (`SlotFits`) and a
tab (`TabFits`) there. Without it `TypeOK` is not inductive, because the cases of a returning
call (`Gives`, `GivesNone`, `Missed`) would not cover the states. The other half is about the
pool. `BuildFits` says that whoever retires or creates a tab is the holder of
`_tab_build_lock`, that its page is no slot's, and that a build which is to add a slot has
found room; this gives `PagesDistinct` when the tab is registered, and `BuildsFitPool`.
`PoolBounded` is not inductive alone: a rebuild registers its slot without looking for
room. `WantedFits` bounds the union of the slots in the pool and those that a request may
still rebuild, by the limit plus the number of callers, less one. Only two steps make that
union larger. A build that adds a slot found room in the pool, and the other requests
remember one slot each; a recovery that starts the browser anew wants its slot again, but it
has emptied the pool.
Each action is reduced to what it does to the holder of the lock, the pool and the slot its
request wants, and the `...Goes` lemmas say where a request may go on.

For `Onboarding` the invariant relates the run to what it has left on disk and in the
database. `NewFits` places the row and the profile of a new account at each step of the run,
compensation included, so that the end of the run leaves them whole or gone, and the accounts
where that failed in `torn`; `OldFits` does it for a re-login, which must not spoil what was whole.
`AccountFits` says that an account no run is working on is whole, absent or torn. `ClientFits`
is what the lock of the project pool gives: between its reads and its write a request works on the
current project and on a pool that only grows. Then the turns taken are a walk back from the
current project round the first `PoolSize` projects (`Turning`, `Back`), and no project is in
it twice. The first turn is the exception: it may come from a list that was read before the pool was
full.

For `FileCache` the lock of a name is a queue: whoever asks is in it once, where its place says
(`JoinsQueue`, `LeavesQueue`, `RemoveAtFits`); this carries the types, because `queue` ranges
over sequences of requests and a broken file is one that exists. `MCHousekeeping` composes the three
parts: in each behaviour one part moves and the others keep their variables, so the
invariants of the parts hold side by side (`PartsInv`).

TLC has checked `Inv` of `CaptchaPool`, `OnboardingInv` and `LapsFit` on the instances of
`captcha_tabs`, `housekeeping_parts` and `dispatch_slots`.

Only model-checked: liveness (`RenewedMemberReturns`, `RateLimitEnds`, `SlotsComeBack`,
`KeptAlive`, `LetGo`, `CallsEnd`, `RequestsEnd`, `OutageTold`, `BrokenFilesGo`,
`RequestsServed`), which is beyond the prover, and of course the four properties that the code does
not keep, where TLC has the counterexample. The refinement theorem of the alerts is about the
safety of the promise, `Incidents` has no fairness. Nothing in the modules is recursive.

## Not modelled

The historical onboarding jobs (the API answers 410), the scheduler's formula (a pure
function; `Sidecar` lets an attempt come at any time), model tables and resolution,
telemetry, proxies, scripts, schema migrations, protocol conversion and authentication.
Of the modelled components: driving Chrome over CDP and the classification of its
failures; `TokenManager.add_token` and operators who delete an account that is being
onboarded; captcha tabs for score tests, the fingerprint cache, `open_login_window` and the
warm-up at start; `cache_base64_image`, which writes names of its own; deletion of rows
in `Sidecar`. Chrome, the upstream, the captcha service and webhooks appear
by what they may answer.

## Plan

What is left, in order:

1. An abstract specification of a profile with at most one user, which the leases and
   the singleton inspection of `Sidecar` implement.
2. The scheduler: backoff and phases as functions against a reference definition, with
   the bounds of the due time proved.
3. `add_token` and deletions beside an onboarding.
