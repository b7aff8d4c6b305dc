# TLA+ models of metapi-go

metapi-go is a gateway: it accepts OpenAI, Claude and Gemini style requests under
*downstream keys*, picks an upstream channel, converts the request, forwards it with
retries and records what each attempt cost. This directory models the parts of the
gateway whose correctness depends on the order in which requests, processes, timers,
database commits and upstream answers happen. Paths are relative to the repository.

1. [Inventory](#inventory) of the system
2. [Modules](#modules): state, actions and how they correspond to the code
3. [Runs](#runs): what is model-checked, with which bounds and which fairness
4. [Findings](#findings), and where comments promise more than the code keeps
5. [Proofs](#proofs)
6. [What is not modelled](#what-is-not-modelled)
7. [Plan](#plan)

To check a run: `tlc -config SiteBreaker_restart.cfg MCSiteBreaker.tla`; to check the
proofs: `tlapm SiteBreaker_proofs.tla`. `PROJECT.json` lists every run with its
properties, the source lines behind every definition, the hazards, and for every
property a definition named `..._Bug` that breaks it. A `_Bug` operator is a copy of the
definition next to it with one plausible mistake; no specification uses it.

## Inventory

A request enters through `handler/proxy`, is authenticated (`auth`), reserves quota and
budget (`auth`, `store`), selects a channel (`routing`), takes a slot of it
(`internal/channellimit`), makes attempts (`handler/proxy`), whose outcomes go back to
`routing` and whose usage goes to the quotas, the budget and the log. Beside it run the
scheduler's jobs and the refresh of upstream credentials. Several gateway processes may
share one database; each has its own limiter, breakers, caches and pools.

| Part | Source | State it keeps | Operations | What is hard | What makes it correct | Modelled |
| --- | --- | --- | --- | --- | --- | --- |
| Channel admission | `internal/channellimit`, `handler/proxy/channel_limits.go` | per channel: policy, active count, FIFO of blocked callers, window of the natural minute | Acquire, Release, TryRequest, RecordUsage, Snapshot, sweep | a grant racing a timer or a cancellation; policy changes under load; lazy deletion of entries | exact slots and queue, no lost wakeup, FIFO, everyone served | `ChannelLimiter` |
| Credential refresh | `store/credential_refresh_*.go`, `service/oauth` | a family row per chain of consumable tokens, alias rows, leases on the database clock, credential rows | leases, register, begin, exchange, fail, publish, resume, import | crashes around the token request, expired leases, lost commit acknowledgements, two records with one token | a consumed token is never sent again; the newest token survives | `RefreshFamily` |
| Circuit breaker | `routing/runtime_health*.go`, `routing/selector.go` | per site and site+model: streak, level, open until, half-open since; a settings row | gate, success, failure, background probe, eviction, persist, reload | outcomes of attempts dispatched before the breaker opened; probe windows; names | one probe at a time, no traffic while open, no isolation for ever | `SiteBreaker` |
| User budgets | `store/user_budget.go`, `handler/proxy/user_budget.go` | a row per user (limit, used, reserved), a ledger row per request, the running requests of a process | reserve, settle, reconcile, edits | two gateways, a crash between hold and settlement, missing usage, manual settlement | counters equal the ledger, rows resolve once, usage is neither lost nor free, the limit holds | `UserBudget` |
| Key quotas | `auth/downstream_quota.go` | holds with a time to live, used amounts per key and period | reserve, settle, sweep, disable | the sweep under a slow request; a failing settlement | no window above its limit, a lost usage closes the key | `KeyQuota`, `DownstreamKey` |
| Key admission windows | `auth/key_admission.go`, `internal/sharedcount` | sliding RPM and TPM windows, shared counters in Redis | admit, roll back, record | a window fixed before a wait; compensating calls that fail | the window never admits more than its limit; rollbacks are complete | `KeyAdmission`, `DownstreamKey` |
| Scheduler and its leases | `scheduler/lease*.go`, `scheduler/` | cron jobs, advisory locks, process-local leases | acquire, degrade, release | two instances under connection pressure | one holder per job | planned |
| Usage aggregation | `scheduler/usage_aggregation.go` | watermark, projection lease, recompute request, aggregates | project a batch, recompute | a lease that expires under a slow pass; id visibility; a recompute beside both | no row counted twice, none that was visible skipped, each counted in the end | `UsageAggregation` |
| Attempt loop | `handler/proxy/upstream.go`, `proxy/retry_policy.go` | retry state, slots, permits | select, attempt, fail over, finish | which failures may be retried once output exists | every permit and slot released, no retry after output, no healthy channel blamed, every request ends | `AttemptLoop` |
| Site and account concurrency | `proxy/site_concurrency.go` | slots taken per site and per upstream credential | TryAcquire, Release | requests that leave on many paths | a slot per running attempt | `AttemptLoop` |
| Selection, cooldown, route cache | `routing/selector.go`, `cooldown.go`, `cache.go`, `router_records.go` | cached candidates, cooldowns, cursors | select, record, invalidate | loads that race an invalidation; read-modify-write | no stale route beyond its time, no lost outcome | planned |
| Log writer | `handler/proxy/proxy_log_batch.go` | queue, batch | enqueue, flush, drain | retries of a batch that may have committed; an entry after the last drain; a database closed under the drain | an entry has one row, a second one only after a lost acknowledgement; a failure costs one entry; the queue is drained | `LogWriter` |
| Sessions and WebSockets | `handler/proxy/codex_ws_runtime.go`, `responses_ws.go` | pooled upstream sockets, the response each one continues | take, continue, close | reuse racing a close | one user of a socket at a time | planned |
| Video tasks | `handler/proxy/direct_video*.go`, `store/video_accounting.go` | a task row, its accounting | create, poll, account | several polls see the end | accounted once | candidate |
| Authentication, jobs, services, schema, transformers, adapters, admin API, web | `auth/`, `scheduler/`, `service/`, `store/`, `transform/`, `platform/`, `handler/admin`, `web/` | tables, none, or browser state | sequential | little interleaves | data conversion | no |

How they interact, where it matters here: the selector calls the breaker's gate last,
then the attempt takes the limiter's permit, and only an attempt that reached the
upstream reports to the breaker; an attempt that ends before gives its permit back and
says nothing, so a probe the gate granted may never be answered (this is why the probe
window has a timeout). A request queued for a channel holds no slot of its account; both
come back with the attempt, however it ends. An admitted key holds quota until its attempt
records usage or the deferred release runs. Attempt records reach the aggregates through
the log writer's table alone, in the order of its ids. Refreshing is called by attempts that meet an expired access
token and by a background job, and meets both in the database alone. The budget counts
the attempts of one request and settles after the last.

## Modules

### ChannelLimiter, FifoAdmission

`ChannelLimiter` models the `Manager`. Every critical section of its mutex is one action,
because nothing else of the manager runs meanwhile; a caller blocked in the `select` of
`Acquire` is the one place with other steps in between. `pc` says where a caller is
(`idle`, `waiting`, `leaving` for a caller whose timer or context fired but which has not
yet taken the mutex, `holding`), `ready` is the set of callers whose waiter channel is
closed, `states` and `keys` are the map of entries, `sweptMinute` the minute of the last
lazy sweep. `Put` writes an entry through `get`, sweep included, and `Grant` is the loop
of `grant`. Milliseconds are left out: a timer may fire at any moment (`StopWaiting`), and
`NextMinute` moves the wall clock, which is assumed not to go back.

`FifoAdmission` is the abstract promise of one channel: a queue served from the front.
`FifoPerChannel` states that each channel of the limiter implements it, with the queue and
the holders as the refinement mapping.

### RefreshFamily, OneTimeToken

Each statement or transaction of the journal, each lease call and the token request is one
step of an attempt `a`; `pc[a]` is the next one. Between two steps other attempts run in
other processes, the attempt may crash (`Crash`), any unexpired lease may expire
(`ExpireLease`, because the code's leases carry no promise of liveness), and an operator
may import a token or switch a record (`Import`, `Toggle`). A commit may succeed and still
report an error: `Begin`, `Publish`, `FailDefinite` and `FailUncertain` have both
outcomes, and the code's look-up of its own publication is the step `Lookup`. `Exchange`
is the call to the issuer: refused, answered, or unknown, with or without the token
consumed. `Reusable` selects the kind of credential whose token is not consumed (Copilot).

`OneTimeToken` is what the whole machinery is for: each token is `usable`, `spending`
while one attempt owns it, then `usable` again if the issuer did not consume it, `retired`
if it did, or `doubtful` for good if nobody knows, and `ImplementsOneTimeToken` states
that the journal implements it.

### SiteBreaker

One breaker per model and one for the site. The code stores timestamps and compares
distances with constants, so the model keeps the distances (`gap`, `cool`, `probe`, and
`age` of an attempt), cut off where they stop mattering; `Tick` lets time pass and never
ends. `Admit` and `Refuse` are the gate (all breakers in the way together, under its
mutex), `RouterRecordsSuccess`, `ProxyRecordsSuccess` and `RecordFailure` the outcomes
with the probe's rules, `Abandon` an attempt that ends unreported, `BackgroundProbe` the
records of the probe job, `Persist` and `Restart` the settings row. A new model may push
another model's entry out of the map (`Evictions`). `Actual` gives the name under which an
attempt for a model is sent and recorded; it is the identity when no account redirects
models.

### UserBudget

One user; users share nothing. The user's row is `limit`, `unlimited`, `used`, `reserved`,
the ledger has a row per request. Each transaction of the store writes the user's row
first, so transactions of one user are serial and each is a step (`Reserve`, `SettleTx`).
A request is tracked by its process (`Track`), reserves (`Reserve`, with or without the
acknowledgement of the commit, or `Refuse`), makes attempts (`BeginAttempt`) whose usage is
reported or not (`RecordAttempt`, `ObserveInvalid`), decides what it knows (`Finish`, under
the lifecycle's mutex) and settles (`Settle`: commits, finds the row resolved, or fails and
is only logged). `usage` is what the upstream really consumed; the gateway knows it only
through reports. `Reconcile` is the manual settlement: it sees the running requests of its
own process alone and may enter any total; the history variable `guessed` remembers the
requests settled against the procedure that `store/user_budget.go` documents, to verify
termination on every instance and to enter the verified total (`ByProcedure`).

### LogWriter, UsageAggregation

`LogWriter` is the batch writer and the table it fills. A producer reads the global writer
(`TakeWriter`) and uses it afterwards (`Enqueue`), so that a shutdown may come in between;
a full channel makes it insert the entry itself. The drain goroutine fills `buf`, inserts a
batch and, after a failed one, row by row (`rowwise`). A statement takes its ids when it
starts (`StartInsert`) and shows its rows when it ends (`EndInsert`): `Serial` says whether
statements exclude each other (SQLite) or commit in any order (Postgres), which is what
makes an id visible after a larger one. Under Postgres a statement may also commit and lose
its acknowledgement (`Outcomes`): a producer that inserts its own entry leaves it at that, but
the drain inserts every entry of such a batch once more, row by row; `repeated` remembers the
rows of the first time. A shutdown closes the database (`CloseDatabase`) after a grace that the
drain may exceed; from then on entries are dropped without any statement (`DirectDrop`,
`DropBatch`).

`UsageAggregation` extends it with the projection. `checkpoint` is the row that holds
watermark, requested recompute and lease; `present` says that the row exists. A pass `p`
takes the lease (`Acquire`), reads (`ReadCheckpoint`), perhaps recomputes (`FindAffected`,
`ClearRequest`, `DeleteAggregates` table by table, `Rewind`), applies batches (`FetchBatch`,
`ApplyBatch`) and gives the lease back. Every statement may fail: `ReadFails` is kept apart
from `PassFails` because the code takes a failed read of the checkpoint for an empty one.
A recompute may be requested from any id (`RequestRecompute`), by a caller whose read of the
checkpoint or whose statement may fail (`RequestBlindly`, `StoreFails`). A process may crash,
the lease may expire under a slow pass, rows may be cleared and the whole database reset.
`agg` and `twice` say which ids a table of aggregates counted, once or more than once; sums of
tokens and spend follow from them. Three history variables name what the code does not count
exactly: `late` rows became visible after the watermark had passed them, `cut` rows were
deleted by a recompute that starts later on the same day, and `spoiled` says that a pass ran
beside another or took a failed read for an empty one.

### KeyRequests, KeyQuota, KeyAdmission, DownstreamKey

`DownstreamKey` is the admission chain of `auth/proxy.go` for the requests of one key in
several gateways, composed of two modules over the same requests (`KeyRequests`: settings,
clock, `pc`, `home`).

`KeyQuota` has the usage rows and the holds of the quota window. `SumUsage` is the first
half of the admission transaction (row lock, window, sum of usage), `InsertHold` and
`RollBack` the second (sum of holds, sweep, verdict, hold); with `Serial` nothing else runs
between them, without it a settlement may. `InsertUsage` settles, `UsageLost` and
`DisableKey` are the failed settlement and the statement that closes the key, `DeleteHold`
is the deferred release.

`KeyAdmission` has the sliding minute of each process (`local`) and the two counters in
Redis. `ReadClock` happens before any lock, the verdict later; `Count`, `FailOpen` and
`RollBackCount` are the round trips, which may lose a reply, be repeated on another
connection, or fail with or without their effect. `Expire` ends a counter's minute; a
counter whose expiry was never set does not end.

### AttemptLoop

Requests in the loop of `dispatchUpstream`, with everything they compete for. `loop[r]` are
its variables (forced channel, exclusions, rejected channels, attempt counter), `round[r]`
the candidate it is at and its endpoint, `reply[r]` what the client has been sent, `health[r]`
what the last attempt stored about its channel, `left` the clients that are gone.
`permits`, `queue` and `active` are the shared state: the channel limiter at its promised
behaviour (served from the front; `ChannelLimiter` shows that the code keeps that promise, and
`ServedInOrder` states that this module assumes no other: each step is one of `FifoAdmission`
for every channel, or changes nothing there; no run checks it, `AdmissionInOrder` proves it)
and the slots of sites and upstream credentials. One action per step that other requests can
interleave with: `Select`, `AcquireAtOnce`, `JoinQueue`, `TurnedAway`, `Woken` (with the
revalidation of a permit that was waited for), `StopWaiting` (queue timer or lost client),
`TakeSlot`, `Saturated`, the endpoints (`Send`, `NextEndpoint`, `Denied`, `RefuseLocally`,
`RetryUnsent`), the outcomes (`FailRetried`, `FailFinally`, `Succeed`, `BeginStream`,
`StreamEnds`) and `Panic`. `EndAttempt` stands for the deferred calls. Which error texts and
status codes lead to a retry, a fallback or a blamed channel is a free choice here; what the
code can do with each choice is not. The router may offer any candidate of the route, also
one that it was asked to exclude.

## Runs

Constants are small, but each bound lets the case happen that the properties are about;
every property has a mutant that violates it in the very same run, so no property holds
because its case is out of reach.

| Run | Question | Instance |
| --- | --- | --- |
| `limiter_queue` | Are slots, queue and FIFO order exact while policies change, timers fire and clients leave, and is every blocked caller served? | three callers, one channel, four policies (limits 1, 2, none; queue 1, unbounded) |
| `limiter_rate` | Do sweep, request window, token counter and snapshot agree across minutes? | two callers, two channels, three minutes, counters saturating at 3 |
| `refresh_shared` | Is a token that two records hold never replayed, and is the journal a one-time token? | two attempts, two records, crashes, expiry, lost acknowledgements |
| `refresh_import` | Does an operator's token stay until it is consumed, late answers notwithstanding, and is an old token harmless? | two attempts, one record, one import |
| `refresh_reusable` | Is an interrupted reusable token retried safely, by the lease's owner alone? | reusable tokens |
| `breaker_restart` | Does a breaker move along its three states, stop all traffic while open and open its probe window only after the cooldown, also after a restart with an old row, and does time alone bring every model back? | two attempts, two models, a map of one entry, successful background probes, one restart |
| `breaker_stale` | Does exactly one probe pass? (violated) | three attempts, one model |
| `breaker_redirect` | Does the gate stop redirected models? (violated) | `m1` sent as `m2` |
| `usage_pipeline` | Which entries get a second row or none, is every visible row counted once in every table, and does each get there? | two entries, two processes, a channel of one, one statement that fails or is not acknowledged, one event of: crash, slow pass, recompute, clear, reset, close of the database |
| `key_admission` | Do quota windows and rate windows hold for requests of one key in two gateways, and do failures close the key rather than open it? | three requests, two gateways, seven kinds of key, one fault |
| `attempt_fallback` | Do permits and slots come back whichever way a request leaves, is nothing retried after output, is no healthy channel blamed, and does every request end? | two requests with one retry, two grants of a channel with one permit, a channel without limit on the same credential, a site; one slot each |
| `budget_ledger` | Do the user's counters match the ledger, whoever settles and whatever crashes? Does each row resolve once, for what all its attempts used, within the limit? Do only running requests block a manual settlement? | two requests of up to two attempts, two gateways, any manual entry, one edit |

Bounds. `MaxPublish` (the code tries a publication 3 times) is 2 in `refresh_shared` and
`refresh_reusable` and 1 in `refresh_import`: one retry already separates "committed,
acknowledgement lost" from "not committed". `MaxImports` 1 and `MaxRestarts` 1 give the
one intervention that can hit each moment of the others' work. The breaker counts to 2
with one level of cooldown and a probe window that ends with the next tick; `MaxModels` 1
forces evictions. Longer streaks, windows and growing cooldowns are covered by the proofs
alone. Background probes succeed there: failing ones may keep a breaker open for as long as
they fail, so nothing promises traffic then. In the pipeline a batch holds both entries and a
day is two ids long, so that the recompute ids 1 and 2 are the first and the middle of a day;
further ids appear when a batch is retried. One failure and one event are enough for each to meet
every step of the writers and of two passes. A key has limits of one or two, its clock
goes up to 2 where a request must be able to leave a window and to 1 otherwise, the sliding
minute is a moment (`Minute` 0: entries are in it while the clock stands) and so is the time
to live of a hold. In the attempt loop one retry separates "retried" from "given up", and
three candidates of one credential make every pair of requests meet at a permit or a slot. In the budget, prices 1 and 3 over a scale of 2 make charges round, and
`MaxUnits` 6 makes some charges invalid and the sum overflow. `MaxEdits` bounds edits,
`MaxAttempts` the attempts of a request, `MaxMinute`, `MaxUnknown` the clock and one
counter of the limiter. The proofs need none of these values.

Symmetry is declared for attempts, requests and records in runs without liveness
properties; no definition distinguishes them (`FirstToken` is kept apart).

Deadlock is checked except where the system may stop: attempts of the refresh and requests
of the budget run once, and end.

Fairness. The limiter assumes that an attempt ends (transports have timeouts), that a
caller whose channel is closed runs, and that a caller whose timer fired gets the mutex:
Go's scheduler and a mutex held for microseconds. The breaker assumes only that time
passes. The pipeline assumes that the drain goroutine runs on and that the projection as a whole
does: some running pass takes its next step, the ticker of some process starts a pass, or a
lease that nobody gives back expires. The attempt loop
assumes that handlers run and that upstreams answer or time out (the shared transport bounds
the wait for headers, `internal/httpclient/httpclient.go` 42-46, and an idle stream is cut,
`handler/proxy/upstream_stream.go` 549); the timers of queues are not needed, since a queue moves when
its holders end. The properties of refresh, budget and keys are safety alone.

### What the runs show beyond the obvious

* `NoReplay` and `OneIntent` hold although any lease may expire at any moment: the
  compare-and-set on family, generation, current token and state carries the property.
* `NewestTokenStored` holds because publication compares the row it read: without that, a late
  answer overwrites a token that an operator pasted and that nobody has used
  (`RecordUnchanged_Bug`).
* `WorkConserving` is a statement about free moments of the mutex, so it covers every
  order of release, timer, cancellation and policy change.
* `TruthfulCharge` needs the count of reported attempts: without it a request whose first
  attempt never reported is charged for the second alone.
* After an unacknowledged hold or a failed settlement the row stays `pending`; it blocks
  credit (`CountersMatchLedger`) and remains open to manual settlement
  (`ActiveIsRunning`: nothing that ended is still in the blocking set), but only `unknown` rows freeze the user.

## Findings

* `breaker_stale`: comments in `routing/runtime_health.go` and `runtime_health_breaker.go`
  say that while half-open the probe is the only request in flight, so that an outcome is
  the probe's. An attempt that left before the breaker opened may report during the probe
  window; its outcome ends the window and a second probe passes while the first is out.
* `breaker_redirect`: the comment on the gate says that an open breaker means no traffic.
  With a model redirect of the account the gate asks under one name and outcomes are
  recorded under another, so attempts are sent for a model whose breaker is open.

### Where comments promise more than the code keeps

While modelling, these came up beside the two findings. No run expects them to fail; a
history variable or a guard in the property sets them aside, so that the property says what
does hold.

* `overlooked` (`WithinQuota`): under Postgres READ COMMITTED the two sums of a quota
  admission are two statements, and a settlement between them is missed by both, although
  `auth/downstream_quota.go` 304-307 says that the sum never observes a gap. A hold swept while
  its request runs is counted zero times until it settles, not twice (lines 20-26).
* `undone` (`SharedWindowHolds`): `internal/sharedcount/counter.go` 437-440 calls a repeated
  command the safe direction; a repeated rollback under-counts. A rollback that arrives after
  its minute has ended takes the count of another request (568-572). An increment whose first
  reply is lost leaves a counter without expiry, which then refuses for ever.
* A refusal by the local token window after the shared counter has counted the request does
  not roll it back (`key_admission.go` 314 and 353); it takes a counter that fails in between,
  so `RefusedLeaveNoTrace` is stated without faults.
* `late` (`CountedOnce`): a Postgres id that becomes visible after the watermark has passed it
  is never counted. `cut`: a recompute deletes whole days and counts again from its first row
  on, so rows of that day before it are lost (nothing in production calls `RequestRecompute`
  at present). `spoiled`: a pass that outlives its lease runs beside another and adds the same
  rows; a failed read of the checkpoint starts from watermark 0; a failed look-up drops a
  recompute; and a request whose read fails replaces one that started earlier, although its
  comment says that the smaller id is kept (`usage_aggregation.go` 789-791).
* `repeated` (`OneRowPerEntry`): `flushBatch` retries a batch row by row after any error, so one
  that committed with its acknowledgement lost is written, and then counted, twice.
* `proxy_log_batch.go` 137: an entry that is handed over after the final drain is never
  written, and the entries of a drain that exceeds its grace, or of an insert that comes after
  the close of the database, are dropped; `QueueDrained` is about leaving the queue.
* The verdict of a local window at a time read long before (`key_admission.go` 250) is not
  claimed: `LocalWindowHolds` is about requests decided at the time they read.
* `docs/architecture.md` 323-325 says that a client's cancellation cannot erase an upstream
  error already parsed. Outcomes are stored under the context of the request
  (`upstream.go` 1749-1767), so the failure of an attempt whose client has left is not stored;
  `OutcomesHonest` says what is stored, not that everything is.

## Proofs

TLAPS checks these for every value of the constants. Each argument is an inductive
invariant, stronger than the property. Every safety property of every run is proved: the
invariants, the action properties, and the two refinements.

| Module | Theorems | Inductive invariant |
| --- | --- | --- |
| `ChannelLimiter_proofs` | `TypeCorrect`, `NoLostWakeup` | every entry has its shape, and blocked callers imply no capacity (`ServedEntry`); each action writes entries through `Put` of a granted entry |
| | `SlotsAccounted`, `EntryKept`, `WindowExact`, `SnapshotSound`, `FifoAdmissionImplemented` | `Owned`: an entry accounts for exactly the callers that hold a slot of its channel or wait for one (each once in the queue, grants not yet seen among the holders); an entry someone refers to is never swept; a window belongs to the present minute or a past one. The refinement steps of `FifoAdmission` follow from it |
| `RefreshFamily_proofs` | `TypeCorrect`, `TokenSentOnce`, `OneIntentAtATime`, `JournalSound`, `Refinement`, `FencedByLease` | what an attempt knows at each label (`Knows`), that an attempt which may send a token owns the open intent of its family (`Spending`), that families chain (`Chains`), and that the journal knows consumed tokens |
| | `NewestTokenKept` | `Stored`: an attempt inside a family holds a token of that family, one it took over from another record being the family's current one (`Place`); the record of a refreshed family's last result holds its current token unless an operator edited it (`Holder`). `Kept`: an attempt that publishes another token than the one it read knows that one to be consumed (`Replaces`) |
| `SiteBreaker_proofs` | `TypeCorrect`, `WindowAfterCooldown`, `BreakerMoves`, `OpenMeansNoTraffic` | a probe window stands behind an elapsed cooldown, in memory and in the saved row |
| `UserBudget_proofs` | `TypeCorrect`, `LimitHolds`, `RowsStay`, `OnlyRunningBlock` | unadmitted requests have no row, unresolved rows no charge, what is held fits the limit until it is edited, the blocking set is the set of running requests |
| | `CountersExact`, `ChargeTruthful` | `Sums`: the two counters are sums over the ledger; `Truthful`: a request counts the usage of the attempts it has seen, settles with their total or with nothing, and has ended when it resolved its own row (`Knows`) |
| `UsageAggregation_proofs` | `TypeHolds`, `CountsOnce` | while not `spoiled`: at most one pass runs and its mark is the watermark; what it fetched lies above and is committed; a table counts nothing above the watermark except what a running recompute has yet to delete; visible ids up to the watermark are counted, late, cut, or about to be counted again |
| | `RowsOnce` | `Rows`: an entry is at one place only, with its producer, in the channel, in the buffer of the drain or in an open statement, and has one row at most beside the one of an unacknowledged batch (`Repeats`: such a row stands for an entry that the drain retries or has retried); `Cost`: while the database is open, every entry that is nowhere any more has cost one of the failures |
| `DownstreamKey_proofs` | `TypeCorrect`, `QuotaHolds`, `LossCloses` | every charged request has a hold or a usage row in the window of its admission, or is overlooked; an open admission has summed at least the rows that count against it; a lost usage leads to the disabled key |
| | `SharedHolds`, `NoTraceLeft` | `Shared`: where a request stands in `Allow` says which counters hold its increment (`LifeOf`); a counter holds at least the increments of the requests that joined it, as long as no rollback took more than its own (`Cover`), and without faults no more than those still accounted for (`Trace`) |
| | `LocalHolds` | `Local`: each admission that may still be inside a minute has an entry of its own in the window (an injection, `Places`); pruning as of any time a request has read keeps them; a request whose requests-per-minute verdict was local keeps the round trips of its process until it is recorded, so that nobody fills the room it found (`VerdictOf`); no past minute is overfull (`Fitting`) |
| `AttemptLoop_proofs` | `TypeCorrect`, `NothingLeftBehind`, `HonestOutcomes`, `NoRetryAfterOutput`, `RejectedForGood` | what a request knows at each step (`Knows`: a candidate that has not turned it away, nothing sent yet, no outcome left); holders and queue of each channel are disjoint, without repetition, within the limit and exactly the requests at a step that needs them; a scope's counter is the number of requests inside an attempt |
| | `AdmissionInOrder` | nobody waits while a permit is free (`Kept`, which every step of `FifoAdmission` keeps); every service of a queue takes a front of it to the holders |

`DataLemmas` has what these share. Amounts are folds over finite sets, and the library's
induction theorems cannot be used here; `SmallestSubset` (a set of subsets of a finite set
has a minimal member, from the library's well-foundedness of strict inclusion) takes their
place: a fact about sums is refuted at a smallest counterexample. From it come what a sum
gains when one element is added or changed, its monotonicity, and that it can only grow
under an injection. `FoldsAreSums`, `PassedSum`, `LiveSum`, `TotalIsSum` and `WindowSum`
connect the folds that the modules are written with to these sums. The other half is about
queues whose entries differ: what joining, leaving and serving the front do to the set of
those who wait.

Assumptions: those named in the modules (`ASSUME ...Assumption`), which TLC evaluates on
every run; they say that amounts, limits and bounds are numbers, that sets of requests are
finite where something is summed over them, and that the parties the modules keep apart
differ. `TokenSentOnce`, `OneIntentAtATime`, `JournalSound` and `Refinement` are about
consumable tokens (`~Reusable`); `NewestTokenKept` holds for both kinds. `OpenMeansNoTraffic`
assumes that no model is redirected; `breaker_redirect` shows what happens otherwise.

`NothingLeftBehind` covers the whole of `SlotsExact`, cardinalities included, for any number
of requests, channels and limits: adding and removing one request changes a count by one.

Only model-checked: liveness (`WaitersServed`, `NeverIsolated`, `QueueDrained`,
`EventuallyCounted`, `EveryRequestEnds`). It rests on fairness and `ENABLED`, which this
prover does not reason about.

## What is not modelled

* Within modelled parts: the single flight in front of a refresh and the error classes
  that choose its retries (a free choice here); penalty scores and latency averages of the
  breaker (weights of the selector), the operator's reset, OAuth route units (for these the
  outcome is recorded on the site of the outer account, `router_records.go` 346-352, while the
  gate asks the site of the member, `selector.go` 1119-1147; the module has one site); the estimate of a request body
  and the branch of `ReserveUserBudget` for an identity that already reserved.
* Of the keys: the pool of Redis connections and its deadlines (a command succeeds, fails or
  is repeated), servers without scripting, cost limits (checked like tokens, without holds),
  edits of a key while requests run. A failed statement of the keys leaves nothing of itself (the
  other modules have lost acknowledgements). The run has one fault; after a second one, as when
  the statement that disables the key fails too, `LossClosesKey` claims nothing. The rules
  on addresses are a refusal of keys with a quota, where they matter.
* Of the pipeline: the arithmetic of tokens and spend, request records (the same path into a
  table of their own), a reset while an insert is open, two requesters of a recompute at once.
  A failed statement of the projection leaves nothing of itself.
* Of the attempt loop: changes of a channel's policy (they are in `ChannelLimiter`), request
  and response conversion, how errors are classified. Handlers panic inside attempts only, and a request whose handler
  panicked has ended without a reply: `EveryRequestEnds` does not claim an answer.
* Planned parts: see the inventory.
* Transformers, platform adapters, admin handlers, schema, backup, web: conversion of data
  and sequential input and output; where an edit races with a modelled part it is an
  action of that part (`Import`, `Toggle`, `SetUserBudget`).

## Plan

In this order; each module with its runs, mutants and, where noted, proofs. The project
keeps to few runs, so a new module either joins an existing run or replaces one whose
properties are proved.

1. `SchedulerLease`: advisory and process-local leases of two instances; mutual exclusion
   where the code promises it.
2. `RouteCache`: loads, invalidation, cooldown writes of concurrent outcomes; composed with
   the selection of `AttemptLoop`.
3. Sessions and WebSockets: one user of a pooled socket; then video tasks.
4. `AttemptLoop` over `SiteBreaker`: the gate at selection and the outcomes, in one instance.
5. Proofs: the theorems of the modules above.
